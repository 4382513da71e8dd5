----------------------------- MODULE SearchGraph -----------------------------
(***************************************************************************)
(* What every resumable search of pgGraph works on: the adjacency of the   *)
(* loaded projection, read in pages through an owned cursor, and the       *)
(* batches of candidates cut from a page.  The search is suspended after   *)
(* each batch while PostgreSQL decides which candidates the caller may     *)
(* see, so a page, a batch and a node may all end at different places.     *)
(*                                                                         *)
(* Also the reference notions that the searches are compared with: the     *)
(* nodes within k visible hops of a node, and the cheapest visible cost.   *)
(***************************************************************************)
EXTENDS Integers, Sequences, FiniteSets, SequencesExt

CONSTANTS
    NodeCount,   \* nodes are 1..NodeCount
    Universe,    \* the relationships a projection may hold, in storage order, as
                 \* records [s, t, w, ok]; the edge-type filter excludes one with ok = FALSE
    Infinity     \* u64::MAX, larger than any cost

ASSUME SearchGraphAssumption ==
    /\ NodeCount \in Nat \ {0} /\ Infinity \in Nat
    /\ Universe \in Seq([s : 1..NodeCount, t : 1..NodeCount, w : Nat, ok : BOOLEAN])

Nodes == 1..NodeCount
NoNode == 0

\* The elements of a finite set of numbers, in ascending order.
Ascending(P) ==
    [i \in 1..Cardinality(P) |-> CHOOSE p \in P : Cardinality({q \in P : q <= p}) = i]

\* The rows of node n in storage order, as NeighborSource yields them.  A graph g
\* is a set of positions in Universe; one whose mappings are all bidirectional
\* stores each relationship at both of its nodes.
Adjacency(g, both, n) ==
    LET ids == Ascending({i \in g : Universe[i].s = n \/ (both /\ Universe[i].t = n)})
    IN  [k \in DOMAIN ids |->
            LET e == Universe[ids[k]]
            IN  [to |-> IF e.s = n THEN e.t ELSE e.s, id |-> ids[k], w |-> e.w, ok |-> e.ok]]

----------------------------------------------------------------------------
\* The node whose adjacency is being read, the cursor, the rows of the page that no
\* batch has taken yet, and whether that page was the node's last.
Resting == [active |-> NoNode, cursor |-> 0, pending |-> <<>>, last |-> FALSE]
Opened(n) == [Resting EXCEPT !.active = n]

\* fill_path_raw_page and fill_neighbors: the next page, once the last is used up.
Filled(scan, rows, page) ==
    LET end == Min({scan.cursor + page, Len(rows)}) IN
    IF scan.pending # <<>> THEN scan
    ELSE [scan EXCEPT !.pending = SubSeq(rows, scan.cursor + 1, end),
                      !.cursor = end, !.last = (end = Len(rows))]

\* Faulty: the key budget is not counted.
TakenUnbudgeted(pending, keys, target) == Len(pending)

\* Rows of the page that the next batch takes: up to the first one whose key no
\* longer fits (keys is the number that fit), and no further than the target.
TakenCount(pending, keys, target) ==
    LET fitting(i) == Cardinality({j \in 1..i : pending[j].ok}) IN
    Min({Len(pending)}
        \cup {i - 1 : i \in {j \in DOMAIN pending : pending[j].ok /\ fitting(j) > keys}}
        \cup {i \in DOMAIN pending : pending[i].ok /\ pending[i].to = target /\ fitting(i) <= keys})

\* Faulty: the rows of the batch stay in the page.
LeftoverKept(scan, taken) == scan

Leftover(scan, taken) == [scan EXCEPT !.pending = SubSeq(@, taken + 1, Len(@))]

\* The batch: rows that the edge-type filter lets through, with their parent.
Candidates(scan, taken) ==
    LET admitted == Ascending({j \in 1..taken : scan.pending[j].ok})
        row(i)   == scan.pending[admitted[i]]
    IN  [i \in DOMAIN admitted |->
            [from |-> scan.active, to |-> row(i).to, id |-> row(i).id, w |-> row(i).w]]

Exhausted(scan) == scan.pending = <<>> /\ scan.last

----------------------------------------------------------------------------
\* What PostgreSQL hides from the caller is a set of items <<"node", n>> and
\* <<"edge", id>>.

\* Faulty: only the relationship is looked up.
EdgeShown(hidden, c) == <<"edge", c.id>> \notin hidden

Shown(hidden, c) == <<"node", c.to>> \notin hidden /\ <<"edge", c.id>> \notin hidden

\* A visible and admitted row leads from a to b.
Links(g, both, hidden, a, b) ==
    {r \in Range(Adjacency(g, both, a)) : r.to = b /\ r.ok /\ Shown(hidden, r)}

\* Nodes within k visible hops of source.
Within(g, both, hidden, source) ==
    LET reach[k \in 0..NodeCount] ==
            IF k = 0 THEN {source}
            ELSE UNION {{a} \cup {b \in Nodes : Links(g, both, hidden, a, b) # {}} : a \in reach[k - 1]}
    IN  reach

Distance(reach, n) ==
    LET k == {i \in 0..NodeCount : n \in reach[i]} IN IF k = {} THEN Infinity ELSE Min(k)

\* The least total weight of a visible walk of at most NodeCount rows.
CheapestCosts(g, both, hidden, source) ==
    LET best[k \in 0..NodeCount] ==
            IF k = 0 THEN [n \in Nodes |-> IF n = source THEN 0 ELSE Infinity]
            ELSE [b \in Nodes |->
                    Min({best[k - 1][b]} \cup
                        UNION {{best[k - 1][a] + r.w : r \in Links(g, both, hidden, a, b)} :
                                  a \in {n \in Nodes : best[k - 1][n] < Infinity}})]
    IN  best[NodeCount]

\* Follow parents from n up to the root.
Chain(parent, root, n) ==
    LET up[k \in 0..NodeCount] ==
            IF k = 0 THEN <<n>>
            ELSE IF Head(up[k - 1]) \in {root, NoNode} THEN up[k - 1]
            ELSE <<parent[Head(up[k - 1])]>> \o up[k - 1]
    IN  up[NodeCount]
=============================================================================
