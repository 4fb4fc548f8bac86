----------------------------- MODULE MatrixGraph ------------------------------
(***************************************************************************)
(* Graphs on matrices: the sparse matrix (Eigen's column-major storage,    *)
(* modelled by the cells that are stored), the Graph adaptor that lets the  *)
(* Boost graph algorithms run on it, the two algorithms in use, and the     *)
(* dense matrix with its iterator and its incidents.  A cell is named       *)
(* <<row, column>>, an edge is the pair <<first, second>> an iterator       *)
(* yields.  Vertices, rows and columns count from 0 as in the code.         *)
(***************************************************************************)
EXTENDS Integers, Sequences, FiniteSets, FiniteSetsExt, Functions, SequencesExt

CONSTANTS Dim,          \* bound: rows and columns
          Weights,      \* the weights a program gives to edges, positive
          Undefined     \* what memory that nobody wrote, or that was overwritten, holds

VARIABLES m,            \* the sparse matrix [rows, cols, cells]
          named         \* the cells the last operation was called for

graphVars == <<m, named>>

Index == 0 .. Dim - 1
Empty == [rows |-> 0, cols |-> 0, cells |-> <<>>]

----------------------------------------------------------------------------
(* Matrix (sparse). *)

Stored(a) == DOMAIN a.cells
Grown(n, x) == IF x >= n THEN x + 1 ELSE n
coeff(a, x, y) == IF <<x, y>> \in Stored(a) THEN a.cells[<<x, y>>] ELSE 0
coeffRef(a, x, y, w) ==
  [a EXCEPT !.cells = [p \in Stored(a) \union {<<x, y>>} |-> IF p = <<x, y>> THEN w ELSE a.cells[p]]]

resize(a, r, c) ==
  [rows |-> r, cols |-> c, cells |-> Restrict(a.cells, {p \in Stored(a) : p[1] < r /\ p[2] < c})]

set(a, x, y, w) == coeffRef(resize(a, Grown(a.rows, x), Grown(a.cols, y)), x, y, w)

\* get without const is coeffRef: reading a cell that is not stored stores a zero.
get(a, x, y) == [m |-> IF <<x, y>> \in Stored(a) THEN a ELSE coeffRef(a, x, y, 0), w |-> coeff(a, x, y)]

\* Mutant of preemt: entries of the smallest weight are pruned as well.
preemtMore(a, value) == [a EXCEPT !.cells = Restrict(a.cells, {p \in Stored(a) : a.cells[p] > value + 1})]

\* pruned(value): the stored zeros go.
preemt(a, value) == [a EXCEPT !.cells = Restrict(a.cells, {p \in Stored(a) : a.cells[p] # value})]

remove(a, x, y) == preemt(coeffRef(a, x, y, 0), 0)

\* Mutant of removeRow: the rows below stay where they are.
removeRowKeeps(a, row) ==
  IF row >= a.rows THEN a
  ELSE [rows |-> a.rows - 1, cols |-> a.cols, cells |-> Restrict(a.cells, {p \in Stored(a) : p[1] < a.rows - 1})]

\* The rows above stay, the rows below move up by one.
removeRow(a, row) ==
  IF row >= a.rows THEN a
  ELSE LET old(p) == <<IF p[1] < row THEN p[1] ELSE p[1] + 1, p[2]>>
       IN [rows |-> a.rows - 1, cols |-> a.cols,
           cells |-> [p \in {q \in Index \X Index : old(q) \in Stored(a)} |-> a.cells[old(p)]]]

removeCol(a, col) ==
  IF col >= a.cols THEN a
  ELSE LET old(p) == <<p[1], IF p[2] < col THEN p[2] ELSE p[2] + 1>>
       IN [rows |-> a.rows, cols |-> a.cols - 1,
           cells |-> [p \in {q \in Index \X Index : old(q) \in Stored(a)} |-> a.cells[old(p)]]]

getNumElements(a) == Cardinality(Stored(a))
getCountNonZerosByVer(a, index) == Cardinality({p \in Stored(a) : p[2] = index})

----------------------------------------------------------------------------
(* The edge iterator: a column and the entries of it that are left.  The   *)
(* comparison with the end iterator, operator==, moves it over the columns  *)
(* that have no (more) entries.                                             *)

\* InnerIterator of a column: its rows in order.
InnerIterator(a, col) == SetToSortSeq({p[1] : p \in {q \in Stored(a) : q[2] = col}}, <)

\* Mutant of atEnd: it moves on by one column at most.
atEndOne(a, it, end) ==
  IF it.left = <<>> /\ it.index # end THEN [index |-> it.index + 1, left |-> InnerIterator(a, it.index + 1)] ELSE it

RECURSIVE atEnd(_, _, _)
atEnd(a, it, end) ==
  IF it.left = <<>> /\ it.index # end
  THEN atEnd(a, [index |-> it.index + 1, left |-> InnerIterator(a, it.index + 1)], end)
  ELSE it

\* operator*.  (The iterators over in edges and adjacent vertices construct
\* a base object that is thrown away and are not usable.)
SparseEdgeIterator(it) == <<it.index, Head(it.left)>>

\* for (; beg != end; ++beg)
RECURSIVE Walk(_, _, _)
Walk(a, it, end) ==
  LET here == atEnd(a, it, end)
  IN IF here.left = <<>> THEN <<>>
     ELSE <<SparseEdgeIterator(here)>> \o Walk(a, [here EXCEPT !.left = Tail(@)], end)

----------------------------------------------------------------------------
(* Graph, and the functions in front of it that Boost calls.  (remove_vertex *)
(* aborts: "not realized yet"; the remove_..._if functions cannot be         *)
(* instantiated.)                                                            *)

add_vertex(a) == [m |-> resize(a, a.rows, a.cols), v |-> a.cols]   \* same size: there is no new vertex
add_edge(a, u, v) == set(a, u, v, 0)
removeEdge(a, u, v) == preemt(set(set(a, u, v, 0), v, u, 0), 0)
removeEdges(a, es) == preemt(FoldLeft(LAMBDA b, e : set(set(b, e[1], e[2], 0), e[2], e[1], 0), a, es), 0)
num_vertices(a) == IF a.rows < a.cols THEN a.rows ELSE a.cols
num_edges(a) == getNumElements(a)
in_degree(a, u) == getCountNonZerosByVer(a, u)
out_degree(a, u) == getCountNonZerosByVer(a, u)

VertexIterator(id) == id + 1            \* operator++
beginVertex == 0
endVertex(a) == a.rows
beginEdgeIteratorAt(a, beg) == [index |-> beg, left |-> InnerIterator(a, beg)]
endEdgeIteratorAt(end) == end
beginEdgeIterator(a) == beginEdgeIteratorAt(a, 0)
endEdgeIterator(a) == endEdgeIteratorAt(a.cols - 1)

boost_num_vertices(a) == num_vertices(a)
boost_num_edges(a) == num_edges(a)
boost_in_degree(u, a) == in_degree(a, u)
boost_out_degree(u, a) == out_degree(a, u)
degree(u, a) == boost_in_degree(u, a)
vertices(a) == [i \in 1 .. endVertex(a) - beginVertex |-> IF i = 1 THEN beginVertex ELSE VertexIterator(i - 2)]
edges(a) == IF a.cols = 0 THEN <<>> ELSE Walk(a, beginEdgeIterator(a), endEdgeIterator(a))
out_edges(u, a) == Walk(a, beginEdgeIteratorAt(a, u), endEdgeIteratorAt(u))

\* Mutant of edge: the source of the edge is compared.
edgeSource(u, v, a) == \E i \in 1 .. Len(out_edges(u, a)) : out_edges(u, a)[i][1] = v

edge(u, v, a) == \E i \in 1 .. Len(out_edges(u, a)) : out_edges(u, a)[i][2] = v
boost_add_vertex(a) == add_vertex(a)
boost_add_edge(u, v, a) == add_edge(a, u, v)
remove_edge(u, v, a) == removeEdge(a, u, v)
remove_edge_descriptor(e, a) == removeEdge(a, e[1], e[2])
remove_edge_iterator(it, a) == remove_edge_descriptor(SparseEdgeIterator(it), a)
clear_vertex(u, a) == removeEdges(a, out_edges(u, a))

\* The property maps: weight, index, and the vectors of distances and colours.
property_edge_map(a, e) == get(a, e[1], e[2])
property_data_map_index(v) == v
property_container(c, index) == c[index]

----------------------------------------------------------------------------
(* The algorithms.  Dijkstra and Kruskal are Boost's: vertices are settled  *)
(* in the order of their distance, edges taken in the order of their weight *)
(* unless both ends are connected.                                          *)

Infinity == 1 + Dim * (Max(Weights))     \* numeric_limits<D>::max()
Targets(a, u) == ToSet(out_edges(u, a))

relax(a, d, u) ==
  [v \in DOMAIN d |-> LET ws == {property_edge_map(a, e).w : e \in {f \in Targets(a, u) : f[2] = v}}
                      IN Min({d[v]} \union {d[u] + w : w \in ws})]

RECURSIVE dijkstra(_, _, _)
dijkstra(a, d, open) ==
  LET near == {v \in open : d[v] < Infinity /\ \A x \in open : d[v] <= d[x]}
  IN IF near = {} THEN d
     ELSE LET u == Min(near) IN dijkstra(a, relax(a, d, u), open \ {u})

\* Mutant of shortest_path: only the edges of the start are relaxed.
shortest_pathDirect(a, n1, n2) ==
  relax(a, [v \in 0 .. num_vertices(a) - 1 |-> IF v = n1 THEN 0 ELSE Infinity], n1)[n2]

shortest_path(a, n1, n2) ==
  LET V == 0 .. boost_num_vertices(a) - 1
      d == dijkstra(a, [v \in V |-> IF property_data_map_index(v) = n1 THEN 0 ELSE Infinity], V)
  IN property_container(d, n2)

\* comp: the component of each vertex.
RECURSIVE kruskal(_, _, _, _)
kruskal(a, es, comp, tree) ==
  IF es = {} THEN tree
  ELSE LET e == CHOOSE x \in es : \A y \in es : coeff(a, x[1], x[2]) <= coeff(a, y[1], y[2])
           joined == [v \in DOMAIN comp |-> IF comp[v] = comp[e[2]] THEN comp[e[1]] ELSE comp[v]]
       IN IF comp[e[1]] = comp[e[2]] THEN kruskal(a, es \ {e}, comp, tree)
          ELSE kruskal(a, es \ {e}, joined, tree \union {e})

\* Mutant of kruskal_spanning_tree: the weight map is not passed on.
kruskal_spanning_treeUnweighted(a) ==
  kruskal([a EXCEPT !.cells = [p \in DOMAIN @ |-> 1]], ToSet(edges(a)), [v \in 0 .. num_vertices(a) - 1 |-> v], {})

kruskal_spanning_tree(a) == kruskal(a, ToSet(edges(a)), [v \in 0 .. num_vertices(a) - 1 |-> v], {})

----------------------------------------------------------------------------
(* DenseMatrix: all cells, as a function on rows and columns. *)

DenseCells(r, c) == (0 .. r - 1) \X (0 .. c - 1)
DenseMatrix(r, c) == [rows |-> r, cols |-> c, at |-> [p \in DenseCells(r, c) |-> Undefined]]

denseResize(a, r, c) ==
  [rows |-> r, cols |-> c, at |-> [p \in DenseCells(r, c) |-> IF p \in DOMAIN a.at THEN a.at[p] ELSE Undefined]]

denseSet(a, x, y, w) ==
  [denseResize(a, Grown(a.rows, x), Grown(a.cols, y)) EXCEPT !.at[<<x, y>>] = w]

\* Mutant of insertRow: the rows below are overwritten, not moved.
insertRowOver(a, row, other) ==
  IF row > a.rows \/ other.rows = 0 \/ other.cols = 0 THEN a
  ELSE [rows |-> a.rows + other.rows, cols |-> other.cols,
        at |-> [p \in DenseCells(a.rows + other.rows, other.cols) |->
                  IF p[1] \in row .. row + other.rows - 1 THEN other.at[<<p[1] - row, p[2]>>]
                  ELSE IF p \in DOMAIN a.at THEN a.at[p] ELSE Undefined]]

\* bottomRows = block(row, ...): source and target overlap when more rows
\* move than are inserted, and the copy made before (temp) is not used.
insertRow(a, row, other) ==
  IF row > a.rows \/ other.rows = 0 \/ other.cols = 0 THEN a
  ELSE [rows |-> a.rows + other.rows, cols |-> other.cols,
        at |-> [p \in DenseCells(a.rows + other.rows, other.cols) |->
                  IF p[1] \in row .. row + other.rows - 1 THEN other.at[<<p[1] - row, p[2]>>]
                  ELSE IF p[1] < row THEN denseResize(a, a.rows, other.cols).at[p]
                  ELSE IF a.rows - row <= other.rows
                       THEN denseResize(a, a.rows, other.cols).at[<<p[1] - other.rows, p[2]>>]
                  ELSE Undefined]]

insertCol(a, col, other) ==
  IF col > a.cols \/ other.rows = 0 \/ other.cols = 0 THEN a
  ELSE [rows |-> other.rows, cols |-> a.cols + other.cols,
        at |-> [p \in DenseCells(other.rows, a.cols + other.cols) |->
                  IF p[2] \in col .. col + other.cols - 1 THEN other.at[<<p[1], p[2] - col>>]
                  ELSE IF p[2] < col THEN denseResize(a, other.rows, a.cols).at[p]
                  ELSE IF a.cols - col <= other.cols
                       THEN denseResize(a, other.rows, a.cols).at[<<p[1], p[2] - other.cols>>]
                  ELSE Undefined]]

denseRemoveRow(a, row) ==
  IF row >= a.rows THEN a
  ELSE [rows |-> a.rows - 1, cols |-> a.cols,
        at |-> [p \in DenseCells(a.rows - 1, a.cols) |-> a.at[<<IF p[1] < row THEN p[1] ELSE p[1] + 1, p[2]>>]]]

denseRemoveCol(a, col) ==
  IF col >= a.cols THEN a
  ELSE [rows |-> a.rows, cols |-> a.cols - 1,
        at |-> [p \in DenseCells(a.rows, a.cols - 1) |-> a.at[<<p[1], IF p[2] < col THEN p[2] ELSE p[2] + 1>>]]]

\* Mutant of incIters: the row starts again before the column is compared.
incItersWraps(a, p) == IF p[1] + 1 >= a.rows THEN <<0, p[2] + 1>> ELSE <<p[1] + 1, p[2]>>

\* operator++ and operator-- of the dense iterator.
incIters(a, p) ==
  IF p[1] + 1 < a.rows THEN <<p[1] + 1, p[2]>>
  ELSE IF p[2] + 1 < a.cols THEN <<0, p[2] + 1>> ELSE <<p[1] + 1, p[2] + 1>>
decIters(a, p) ==
  IF p[1] - 1 >= 0 THEN <<p[1] - 1, p[2]>>
  ELSE IF p[2] - 1 >= 0 THEN <<a.rows - 1, p[2] - 1>> ELSE <<p[1] - 1, p[2] - 1>>

\* From begin() to end(), at most n steps.
RECURSIVE denseWalk(_, _, _)
denseWalk(a, p, n) ==
  IF p = <<a.rows, a.cols>> \/ n = 0 THEN <<>> ELSE <<p>> \o denseWalk(a, incIters(a, p), n - 1)

\* Where the next value goes: below the last column, or for a row vector
\* (rowMajor) right of the last row.
add2end(a, rowMajor, w) ==
  IF rowMajor THEN denseSet(a, IF a.rows = 0 THEN 0 ELSE a.rows - 1, a.cols, w)
  ELSE denseSet(a, a.rows, IF a.cols = 0 THEN 0 ELSE a.cols - 1, w)

addIncident(s, rowMajor, x, y, w) ==
  [a |-> add2end(s.a, rowMajor, w), incidentIndexes |-> Append(s.incidentIndexes, <<x, y>>)]

\* Mutant of getIncident: the indexes are looked up with the column.
getIncidentCol(s, rowMajor, index) ==
  LET p == IF rowMajor THEN <<IF s.a.rows = 0 THEN 0 ELSE s.a.rows - 1, index>>
           ELSE <<index, IF s.a.cols = 0 THEN 0 ELSE s.a.cols - 1>>
      ids == s.incidentIndexes[p[2] + 1]
  IN <<ids[1], ids[2], s.a.at[p]>>

\* The indexes are looked up with the row, also when the values lie in a row.
getIncident(s, rowMajor, index) ==
  LET p == IF rowMajor THEN <<IF s.a.rows = 0 THEN 0 ELSE s.a.rows - 1, index>>
           ELSE <<index, IF s.a.cols = 0 THEN 0 ELSE s.a.cols - 1>>
      ids == s.incidentIndexes[p[1] + 1]
  IN <<ids[1], ids[2], s.a.at[p]>>

----------------------------------------------------------------------------
(* A program that changes a graph: edges with a weight in one or in both    *)
(* directions, as the streams of the tests bring them, and the operations   *)
(* of the adaptor.                                                          *)

GraphInit == m = Empty /\ named = {}

Both(u, v) == {<<u, v>>, <<v, u>>}

setWeight(x, y, w) == m' = set(m, x, y, w) /\ named' = {<<x, y>>}
setBoth(u, v, w) == m' = set(set(m, u, v, w), v, u, w) /\ named' = Both(u, v)
addVertex == m' = boost_add_vertex(m).m /\ named' = {}
addEdge(u, v) == m' = boost_add_edge(u, v, m) /\ named' = {<<u, v>>}
removeEdgeUV(u, v) == m' = remove_edge(u, v, m) /\ named' = Both(u, v)
removeFirstEdge ==
  /\ m.cols > 0
  /\ LET it == atEnd(m, beginEdgeIterator(m), endEdgeIterator(m))
     IN it.left # <<>> /\ m' = remove_edge_iterator(it, m) /\ named' = Both(it.index, Head(it.left))
removeCell(x, y) == x < m.rows /\ y < m.cols /\ m' = remove(m, x, y) /\ named' = {<<x, y>>}

\* An edge that is stored in one direction only would be added in the other
\* while the iterator is in use.
clearVertex(u) ==
  /\ u < m.cols
  /\ \A p \in Stored(m) : p[2] = u => <<p[2], p[1]>> \in Stored(m)
  /\ m' = clear_vertex(u, m)
  /\ named' = {p \in Index \X Index : u \in {p[1], p[2]}}

removeVertex(i) == m' = removeRow(removeCol(m, i), i) /\ named' = Index \X Index

GraphNext ==
  \/ \E u, v \in Index, w \in Weights : u # v /\ (setWeight(u, v, w) \/ setBoth(u, v, w))
  \/ \E u, v \in Index : u # v /\ (addEdge(u, v) \/ removeEdgeUV(u, v) \/ removeCell(u, v))
  \/ \E u \in Index : clearVertex(u) \/ removeVertex(u)
  \/ addVertex \/ removeFirstEdge

Symmetric == m.rows = m.cols /\ \A x, y \in Index : coeff(m, x, y) = coeff(m, y, x)

----------------------------------------------------------------------------
Reverse2(e) == <<e[2], e[1]>>
Vertex == 0 .. num_vertices(m) - 1
Paths == {s \in UNION {[1 .. n -> Vertex] : n \in 1 .. Cardinality(Vertex)} : IsInjective(s)}
Legs(s) == {<<s[i], s[i + 1]>> : i \in 1 .. Len(s) - 1}
Length(s) == FoldLeft(LAMBDA t, i : t + coeff(m, s[i], s[i + 1]), 0, [i \in 1 .. Len(s) - 1 |-> i])
TreeWeight(t) == FoldSet(LAMBDA e, n : n + coeff(m, e[1], e[2]), 0, t)
Reach(t, u) == {v \in Vertex : \E s \in Paths : s[1] = u /\ Last(s) = v /\ \A e \in Legs(s) : e \in t \/ Reverse2(e) \in t}

\* edges() visits every stored entry exactly once, whatever columns are empty,
\* and num_edges and the degrees count what the iterators visit.
EdgesListed ==
  LET es == edges(m)
  IN /\ IsInjective(es) /\ ToSet(es) = {Reverse2(p) : p \in Stored(m)}
     /\ Len(es) = boost_num_edges(m)
     /\ \A u \in 0 .. m.cols - 1 : Len(out_edges(u, m)) = boost_out_degree(u, m) /\ degree(u, m) = boost_out_degree(u, m)
     /\ \A i \in DOMAIN vertices(m) : vertices(m)[i] = i - 1

\* If every edge is stored in both directions, as those of an undirected graph
\* are, edge finds exactly the stored ones, although the iterators name them
\* <<column, row>> and the lookups <<row, column>>; and reading the weight of
\* an edge that was found stores nothing while the iterator is in use.
EdgesAsStored ==
  (\A p \in Stored(m) : Reverse2(p) \in Stored(m)) =>
    /\ \A u, v \in 0 .. m.cols - 1 : edge(u, v, m) <=> <<u, v>> \in Stored(m)
    /\ \A e \in ToSet(edges(m)) : property_edge_map(m, e).m = m

\* An edge with a weight goes only by an operation that names it: the pruning
\* after a removal touches no other one (it does remove the edges that
\* add_edge stored with weight 0).
EdgesKept ==
  [][\A p \in Stored(m) : m.cells[p] # 0 /\ p \notin named' =>
        p \in Stored(m') /\ m'.cells[p] = m.cells[p]]_graphVars

\* Removing a row and the column of a vertex leaves the graph of the others.
OthersKept ==
  [][named' = Index \X Index /\ m'.rows # m.rows /\ m'.cols # m.cols =>
       \E i \in Index : \A x, y \in Index :
         LET up(k) == IF k < i THEN k ELSE k + 1
         IN x < m'.rows /\ y < m'.cols => coeff(m', x, y) = coeff(m, up(x), up(y))]_graphVars

\* shortest_path is the length of a shortest path, for every pair of vertices
\* of an undirected graph without zero weights.
ShortestPathExact ==
  Symmetric /\ preemt(m, 0) = m =>
    \A u, v \in Vertex :
      LET real == {Length(s) : s \in {x \in Paths : x[1] = u /\ Last(x) = v /\ \A e \in Legs(x) : coeff(m, e[1], e[2]) # 0}}
      IN shortest_path(m, u, v) = IF real = {} THEN Infinity ELSE Min(real)

\* kruskal_spanning_tree connects what the graph connects, at least cost.
SpanningTreeMinimal ==
  Symmetric /\ preemt(m, 0) = m =>
    LET tree == kruskal_spanning_tree(m)
        all == ToSet(edges(m))
        Spans(t) == \A u \in Vertex : Reach(t, u) = Reach(all, u)
    IN Spans(tree) /\ \A t \in SUBSET all : Spans(t) => TreeWeight(tree) <= TreeWeight(t)
=============================================================================
