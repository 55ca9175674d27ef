-------------------------------- MODULE Hnsw ---------------------------------
(***************************************************************************)
(* The graph inside a vector index (bkndb-core/src/relational/ann): nodes  *)
(* on layers, each linked to a few near ones; insertion, removal and       *)
(* best-first search (graph.rs), and the search that widens until a filter *)
(* leaves enough rows (search.rs).                                         *)
(*                                                                         *)
(* An index h is [node, links, pks, entry, max, next, count, dim, m, efc]: *)
(* the three tables as functions, the metadata as fields, the entry point  *)
(* a sequence of length 0 or 1.  A candidate is [d, id].  Distances are    *)
(* squared Euclidean over integers; the level a key hashes to (level_for)  *)
(* is part of what is added.                                               *)
(***************************************************************************)
EXTENDS Integers, FiniteSets, SequencesExt

HnswNew(m, efc) ==
    [node |-> <<>>, links |-> <<>>, pks |-> <<>>, entry |-> <<>>, max |-> 0, next |-> 1, count |-> 0,
     dim |-> 0, m |-> m, efc |-> efc]

Cap(h, layer) == IF layer = 0 THEN 2 * h.m ELSE h.m
LinksOf(h, id, layer) == IF <<id, layer>> \in DOMAIN h.links THEN h.links[<<id, layer>>] ELSE <<>>
PutLinks(h, id, layer, ids) ==
    [h EXCEPT !.links = [x \in DOMAIN @ \cup {<<id, layer>>} |-> IF x = <<id, layer>> THEN ids ELSE @[x]]]

Dist(a, b) ==
    FoldLeft(LAMBDA n, i : n + (a[i] - b[i]) * (a[i] - b[i]), 0,
             [i \in 1..(IF Len(a) < Len(b) THEN Len(a) ELSE Len(b)) |-> i])
Cand(h, q, id) == [d |-> Dist(q, h.node[id].vec), id |-> id]

\* Cand's order: by distance, then by id.
Nearer(a, b) == a.d < b.d \/ (a.d = b.d /\ a.id < b.id)
Nearest(S) == CHOOSE c \in S : \A x \in S : x = c \/ Nearer(c, x)
Farthest(S) == CHOOSE c \in S : \A x \in S : x = c \/ Nearer(x, c)
RECURSIVE NearestFirst(_)
NearestFirst(S) == IF S = {} THEN <<>> ELSE <<Nearest(S)>> \o NearestFirst(S \ {Nearest(S)})

\* search_layer: the frontier is popped nearest first until it is worse than
\* the worst of the ef best.  Links to nodes that are gone are skipped.
Offer(h, q, ef, s, n) ==
    IF n \in s.visited THEN s
    ELSE IF n \notin DOMAIN h.node THEN [s EXCEPT !.visited = @ \cup {n}]
    ELSE LET c == Cand(h, q, n)
             grown == s.best \cup {c}
         IN  IF Cardinality(s.best) < ef \/ c.d < Farthest(s.best).d
             THEN [visited |-> s.visited \cup {n}, frontier |-> s.frontier \cup {c},
                   best |-> IF Cardinality(grown) > ef THEN grown \ {Farthest(grown)} ELSE grown]
             ELSE [s EXCEPT !.visited = @ \cup {n}]
RECURSIVE Expand(_, _, _, _, _)
Expand(h, q, ef, layer, s) ==
    IF s.frontier = {} THEN s.best
    ELSE LET c == Nearest(s.frontier)
         IN  IF Cardinality(s.best) >= ef /\ c.d > Farthest(s.best).d THEN s.best
             ELSE Expand(h, q, ef, layer,
                         FoldLeft(LAMBDA t, n : Offer(h, q, ef, t, n),
                                  [s EXCEPT !.frontier = @ \ {c}], LinksOf(h, c.id, layer)))
SearchLayer(h, q, eps, ef, layer) ==
    NearestFirst(Expand(h, q, ef, layer,
        [visited |-> {eps[i].id : i \in DOMAIN eps}, frontier |-> ToSet(eps),
         best |-> ToSet(SubSeq(eps, 1, IF Len(eps) > ef THEN ef ELSE Len(eps)))]))

\* descend: one step per layer above the one asked for.
Descend(h, q, downTo) ==
    FoldLeft(LAMBDA eps, i : SearchLayer(h, q, eps, 1, h.max - i + 1),
             <<Cand(h, q, h.entry[1])>>, [i \in 1..h.max - downTo |-> i])

\* select: a candidate is kept if it is nearer to the base than to every node
\* kept before it.
SelectLinks(h, cands, m) ==
    FoldLeft(LAMBDA out, c :
                 IF Len(out) >= m \/ c.id \notin DOMAIN h.node THEN out
                 ELSE IF \A i \in DOMAIN out : Dist(h.node[c.id].vec, h.node[out[i]].vec) > c.d
                      THEN Append(out, c.id) ELSE out,
             <<>>, cands)

\* shrink: links to live nodes, few enough for the layer.
Shrink(h, owner, ids, layer) ==
    LET live == SelectSeq(ids, LAMBDA id : id \in DOMAIN h.node)
    IN  IF Len(live) <= Cap(h, layer) THEN live
        ELSE SelectLinks(h, NearestFirst({Cand(h, h.node[owner].vec, id) : id \in ToSet(live)}), Cap(h, layer))

\* add: whether it failed, and the index it leaves; the vector has the wrong
\* dimension, or the entry point is gone when the new node is already there.
LinkLayer(s, id, layer) ==
    LET vec == s.h.node[id].vec
        found == SearchLayer(s.h, vec, s.eps, IF s.h.efc > s.h.m THEN s.h.efc ELSE s.h.m, layer)
        chosen == SelectLinks(s.h, found, s.h.m)
    IN  [eps |-> found,
         h |-> FoldLeft(LAMBDA h, n : PutLinks(h, n, layer, Shrink(h, n, Append(LinksOf(h, n, layer), id), layer)),
                        PutLinks(s.h, id, layer, chosen), chosen)]
HnswAdd(h0, pk, vec, level) ==
    LET h1 == IF h0.count = 0 THEN [h0 EXCEPT !.dim = Len(vec)] ELSE h0
        id == h1.next
        h2 == [h1 EXCEPT !.next = @ + 1, !.count = @ + 1,
                         !.node = [x \in DOMAIN @ \cup {id} |->
                                      IF x = id THEN [level |-> level, pk |-> pk, vec |-> vec] ELSE @[x]],
                         !.pks = [x \in DOMAIN @ \cup {pk} |-> IF x = pk THEN id ELSE @[x]]]
        lost == h2.entry # <<>> /\ h2.entry[1] \notin DOMAIN h2.node
        top == IF level < h2.max THEN level ELSE h2.max
        linked == FoldLeft(LAMBDA s, i : LinkLayer(s, id, top - i + 1),
                           [h |-> h2, eps |-> Descend(h2, vec, top)], [i \in 1..top + 1 |-> i]).h
    IN  IF vec = <<>> THEN [failed |-> FALSE, h |-> h0]
        ELSE IF Len(vec) # h1.dim THEN [failed |-> TRUE, h |-> h0]
        ELSE IF lost THEN [failed |-> TRUE, h |-> h2]
        ELSE [failed |-> FALSE,
              h |-> IF h2.entry = <<>> THEN [h2 EXCEPT !.entry = <<id>>, !.max = level]
                    ELSE IF level > linked.max THEN [linked EXCEPT !.entry = <<id>>, !.max = level]
                    ELSE linked]

\* remove: neighbours that linked back are offered the other neighbours.
Relink(h, id, layer, list, n) ==
    LET theirs == LinksOf(h, n, layer)
        without == SelectSeq(theirs, LAMBDA x : x # id)
        offered == SelectSeq(list, LAMBDA x : x # n /\ x \notin ToSet(without))
    IN  IF n \notin DOMAIN h.node \/ Len(without) = Len(theirs) THEN h
        ELSE PutLinks(h, n, layer, Shrink(h, n, without \o offered, layer))
CutLayer(h, id, layer) ==
    LET list == LinksOf(h, id, layer)
    IN  FoldLeft(LAMBDA g, n : Relink(g, id, layer, list, n),
                 [h EXCEPT !.links = [x \in DOMAIN @ \ {<<id, layer>>} |-> @[x]]], list)

\* The first of the highest live nodes in a sequence of ids.
Highest(h, ids) ==
    FoldLeft(LAMBDA best, n :
                 IF n \in DOMAIN h.node /\ (best = <<>> \/ h.node[n].level > h.node[best[1]].level) THEN <<n>> ELSE best,
             <<>>, ids)

\* The new entry point: a neighbour on the highest layer that has one left, or
\* the highest node there is.
NewEntryNeighbour(h, lists) ==
    LET near == SelectSeq(Reverse(lists), LAMBDA list : Highest(h, list) # <<>>)
        entry == IF near # <<>> THEN Highest(h, near[1]) ELSE <<>>
    IN  [h EXCEPT !.entry = entry, !.max = IF entry = <<>> THEN 0 ELSE h.node[entry[1]].level]
NewEntry(h, lists) ==
    LET near == SelectSeq(Reverse(lists), LAMBDA list : Highest(h, list) # <<>>)
        entry == IF near # <<>> THEN Highest(h, near[1])
                 ELSE IF h.count > 0 THEN Highest(h, [i \in 1..h.next |-> i]) ELSE <<>>
    IN  [h EXCEPT !.entry = entry, !.max = IF entry = <<>> THEN 0 ELSE h.node[entry[1]].level]

HnswRemove(h, pk) ==
    IF pk \notin DOMAIN h.pks THEN h
    ELSE LET id == h.pks[pk]
             layers == [i \in 1..h.node[id].level + 1 |-> i - 1]
             unnamed == [h EXCEPT !.pks = [x \in DOMAIN @ \ {pk} |-> @[x]]]
             gone == [unnamed EXCEPT !.node = [x \in DOMAIN @ \ {id} |-> @[x]],
                                     !.count = IF @ > 0 THEN @ - 1 ELSE 0]
             cut == FoldLeft(LAMBDA g, layer : CutLayer(g, id, layer), gone, layers)
         IN  IF id \notin DOMAIN h.node THEN unnamed
             ELSE IF h.entry = <<id>> THEN NewEntry(cut, [i \in DOMAIN layers |-> LinksOf(h, id, layers[i])]) ELSE cut

\* search: the keys of up to ef rows.
HnswSearch(h, q, ef) ==
    IF h.entry = <<>> THEN <<>>
    ELSE LET found == SearchLayer(h, q, Descend(h, q, 0), ef, 0)
         IN  [i \in DOMAIN found |-> h.node[found[i].id].pk]

\* search_in: keep is the set of keys the filter accepts, in a sequence of
\* length 0 or 1; the answer is nothing when a scan is the better plan.
MaxEf == 16384
RECURSIVE SearchWidening(_, _, _, _, _)
SearchWidening(h, q, limit, keep, ef) ==
    LET found == HnswSearch(h, q, ef)
        hits == SelectSeq(found, LAMBDA pk : keep = <<>> \/ pk \in keep[1])
        byScore == [i \in DOMAIN hits |-> [d |-> Dist(q, h.node[h.pks[hits[i]]].vec), id |-> hits[i]]]
        ranked == NearestFirst(ToSet(byScore))
    IN  IF Len(hits) >= limit \/ keep = <<>> \/ Len(found) < ef
        THEN <<[i \in 1..(IF Len(ranked) > limit THEN limit ELSE Len(ranked)) |-> ranked[i].id]>>
        ELSE IF ef >= h.count \/ ef >= MaxEf THEN <<>>
        ELSE SearchWidening(h, q, limit, keep, 4 * ef)

\* on_row_change for the statements of one batch, over s = [h, rows, torn]: the
\* index, the vectors the rows hold, and whether a failed change took a node
\* away.  A change is [pk, level, vec], vec a sequence of at most one vector: a
\* value that did not change is skipped, and a failing add returns before the
\* metadata is saved, with the row and the removal in the batch.
Unsaved(new, old) ==
    [new EXCEPT !.entry = old.entry, !.max = old.max, !.next = old.next, !.count = old.count, !.dim = old.dim]
OnRowChange(s, c) ==
    LET before == IF c.pk \in DOMAIN s.rows THEN s.rows[c.pk] ELSE <<>>
        gone == IF before = <<>> THEN s.h ELSE HnswRemove(s.h, c.pk)
        r == IF c.vec = <<>> THEN [failed |-> FALSE, h |-> gone] ELSE HnswAdd(gone, c.pk, c.vec[1], c.level)
    IN  IF before = c.vec THEN s
        ELSE [h |-> IF r.failed THEN Unsaved(r.h, s.h) ELSE r.h,
              rows |-> [x \in DOMAIN s.rows \cup {c.pk} |-> IF x = c.pk THEN c.vec ELSE s.rows[x]],
              torn |-> s.torn \/ (r.failed /\ gone # s.h)]
BuiltFrom(m, efc, changes) ==
    FoldLeft(OnRowChange, [h |-> HnswNew(m, efc), rows |-> <<>>, torn |-> FALSE], changes)

-----------------------------------------------------------------------------
\* Whatever was added and removed, the entry point is a live node of the level
\* recorded, every live node has the dimension recorded and is found by its
\* key, links hold at most what their layer allows, no node twice or itself,
\* and live ends reach the layer; a removed node leaves no links of its own.
IndexSound(h) ==
    /\ h.count = Cardinality(DOMAIN h.node)
    /\ h.count > 0 <=> h.entry # <<>>
    /\ h.entry # <<>> => h.entry[1] \in DOMAIN h.node /\ h.node[h.entry[1]].level = h.max
    /\ \A id \in DOMAIN h.node : /\ id < h.next /\ Len(h.node[id].vec) = h.dim
                                 /\ h.node[id].pk \in DOMAIN h.pks /\ h.pks[h.node[id].pk] = id
    /\ \A pk \in DOMAIN h.pks : h.pks[pk] \in DOMAIN h.node
    /\ \A x \in DOMAIN h.links :
          LET list == h.links[x] IN
          /\ x[1] \in DOMAIN h.node /\ x[2] <= h.node[x[1]].level
          /\ Len(list) <= Cap(h, x[2]) /\ IsInjective(list) /\ x[1] \notin ToSet(list)
          /\ \A n \in ToSet(list) \cap DOMAIN h.node : h.node[n].level >= x[2]

\* What the links of layer 0 lead to.
RECURSIVE Linked(_, _)
Linked(h, S) ==
    LET grown == S \cup {n \in DOMAIN h.node : \E id \in S : n \in ToSet(LinksOf(h, id, 0))}
    IN  IF grown = S THEN S ELSE Linked(h, grown)

\* A search returns live rows, each once, nearest first, and with room for all
\* rows it misses none that the links lead to; a filtered search that comes
\* back with too few rows has seen all of those too.
SearchSound(h, q, limit, keep) ==
    h.entry # <<>> =>
        \A reached \in {{h.node[n].pk : n \in Linked(h, {c.id : c \in ToSet(Descend(h, q, 0))})}},
           all \in {HnswSearch(h, q, h.count)},
           answer \in {SearchWidening(h, q, limit, keep, limit)} :
        LET dist(pk) == Dist(q, h.node[h.pks[pk]].vec)
        IN  /\ IsInjective(all) /\ ToSet(all) = reached
            /\ \A i \in 1..Len(all) - 1 : dist(all[i]) <= dist(all[i + 1])
            /\ answer # <<>> =>
                  LET hits == answer[1] IN
                  /\ Len(hits) <= limit /\ IsInjective(hits) /\ ToSet(hits) \subseteq reached
                  /\ keep # <<>> => ToSet(hits) \subseteq keep[1]
                  /\ Len(hits) < limit /\ keep # <<>> => ToSet(hits) = reached \cap keep[1]

=============================================================================
