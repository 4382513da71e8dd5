------------------------------ MODULE TxDelta ------------------------------
(***************************************************************************)
(* One transaction's mapped GQL writes: PostgreSQL rows are changed first, *)
(* then tx_delta.rs records the change, so that later statements read the  *)
(* loaded base projection with the delta on top.  Nodes get temporary      *)
(* indexes and relationships temporary identities past those of the base.  *)
(*                                                                         *)
(* One node table and one relationship table with a static label.  Left    *)
(* out: filter values, tenants, weights and provisional labels.  A write   *)
(* may also fail at any record call, for the memory limit; the statement's *)
(* error then aborts the current (sub)transaction.                         *)
(***************************************************************************)
EXTENDS TxSnapshots, FiniteSets, SequencesExt

CONSTANTS Keys,           \* primary keys of the node table
          Rows,           \* primary keys of the relationship table
          NoId,           \* relationship_id: None
          Bidirectional,  \* the relationship mapping's flag
          MaxNodes,       \* graph.max_tx_delta_nodes
          MaxEdges,       \* graph.max_tx_delta_edges
          MaxIds          \* identities that graph.max_overlay_memory_mb has room for

ASSUME TxDeltaAssumption ==
    /\ IsFiniteSet(Keys) /\ IsFiniteSet(Rows)
    /\ NoId \notin Nat \ {0}
    /\ Bidirectional \in BOOLEAN
    /\ MaxNodes \in Nat /\ MaxEdges \in Nat /\ MaxIds \in Nat

VARIABLES nodes,   \* node rows this transaction sees in PostgreSQL
          edges,   \* relationship rows, [row, src, tgt]
          saved,   \* what PostgreSQL restores: the committed rows, then per savepoint
          base,    \* the loaded projection: nodes and relationships by position
          failed   \* a statement failed: only a rollback is accepted

rowVars == <<nodes, edges, saved, failed>>
vars == <<txVars, rowVars, base>>

EdgeRows == [row : Rows, src : Keys, tgt : Keys]

\* The rows that foreign keys allow.
Consistent(ns, es) ==
    /\ \A e \in es : e.src \in ns /\ e.tgt \in ns
    /\ \A e, f \in es : e.row = f.row => e = f

\* The projections that a build of these rows may produce.
BuiltFrom(ns, es) == [nodes : SetToSeqs(ns), edges : SetToSeqs(es)]

Position(seq, x) == CHOOSE i \in DOMAIN seq : seq[i] = x

----------------------------------------------------------------------------
(* What tx_delta.rs records. *)

NewDelta == [nodes |-> <<>>, gone |-> {}, added |-> {}, deleted |-> {}, ids |-> <<>>]

ASSUME EmptyAssumption == EmptyDelta = NewDelta

NodeEntries(d) == Len(d.nodes) + Cardinality(d.gone)
EdgeEntries(d) == Cardinality(d.added) + Cardinality(d.deleted)

\* Faulty: each limit admits one more.
FitsOneMore(d, moreNodes, moreEdges) ==
    NodeEntries(d) + moreNodes <= MaxNodes + 1 /\ EdgeEntries(d) + moreEdges <= MaxEdges + 1

\* ensure_write_capacity; of the memory limit only CallFits' bound on identities.
Fits(d, moreNodes, moreEdges) ==
    /\ NodeEntries(d) + moreNodes <= MaxNodes
    /\ EdgeEntries(d) + moreEdges <= MaxEdges

TemporaryIndex(d) == Len(base.nodes) + Len(d.nodes) + 1
TemporaryId(d) == Len(base.edges) + Len(d.ids) + 1

AddedNode(d, k) == [d EXCEPT !.nodes = Append(@, [key |-> k, idx |-> TemporaryIndex(d)])]
DeletedNode(d, i) == [d EXCEPT !.gone = @ \cup {i}]
AddedIdentity(d, r) == [d EXCEPT !.ids = Append(@, r)]

\* record_added_edge: takes back the tombstone of the same relationship.
AddedEdge(d, e) ==
    IF e \in d.deleted
    THEN [d EXCEPT !.deleted = @ \ {e}]
    ELSE [d EXCEPT !.added = @ \cup {e}]

\* Faulty: every tombstone covers the parallel relationships.
CoversParallel(t, e) == t.src = e.src /\ t.tgt = e.tgt /\ t.rev = e.rev

\* A tombstone without an identity covers every parallel relationship.
Covers(t, e) ==
    /\ t.src = e.src /\ t.tgt = e.tgt /\ t.rev = e.rev
    /\ t.rid \in {NoId, e.rid}

\* record_deleted_edge_with_identity: takes back the insertions it covers, and only
\* when there is none leaves a tombstone for the base.
DeletedEdge(d, t) ==
    LET own == {e \in d.added : Covers(t, e)} IN
    IF own # {} THEN [d EXCEPT !.added = @ \ own] ELSE [d EXCEPT !.deleted = @ \cup {t}]

\* One record call of a statement, and the entries it must find room for.
Applied(d, call) ==
    CASE call.op = "node"     -> AddedNode(d, call.arg)
      [] call.op = "gone"     -> DeletedNode(d, call.arg)
      [] call.op = "identity" -> AddedIdentity(d, call.arg)
      [] call.op = "edge"     -> AddedEdge(d, call.arg)
      [] call.op = "unedge"   -> DeletedEdge(d, call.arg)

CallFits(d, call) ==
    CASE call.op \in {"node", "gone"} -> Fits(d, 1, 0)
      [] call.op = "identity" -> Fits(d, 0, 0) /\ Len(d.ids) < MaxIds
      [] call.op = "edge"     -> Fits(d, 0, IF call.arg \in d.deleted THEN 0 ELSE 1)
      [] call.op = "unedge"   ->
            Fits(d, 0, IF \E e \in d.added : Covers(call.arg, e) THEN 0 ELSE 1)

\* The deltas along a statement's record calls: after none of them, one, and so on.
Trail(d, calls) ==
    LET after[n \in 0..Len(calls)] == IF n = 0 THEN d ELSE Applied(after[n - 1], calls[n])
    IN  after

----------------------------------------------------------------------------
(* What a statement reads: the base with the delta on top. *)

Forward(i, j, r) == [src |-> i, tgt |-> j, rev |-> FALSE, rid |-> r]
Directions(e) ==
    IF Bidirectional
    THEN <<e, [src |-> e.tgt, tgt |-> e.src, rev |-> TRUE, rid |-> e.rid]>>
    ELSE <<e>>
Width == IF Bidirectional THEN 2 ELSE 1

\* The row behind a node index or relationship identity: the base comes first.
KeyOf(i) ==
    IF i <= Len(base.nodes) THEN base.nodes[i]
    ELSE delta.nodes[CHOOSE n \in DOMAIN delta.nodes : delta.nodes[n].idx = i].key
RowOf(r) ==
    IF r <= Len(base.edges) THEN base.edges[r].row ELSE delta.ids[r - Len(base.edges)]

VisibleNodes ==
    {KeyOf(i) : i \in (DOMAIN base.nodes \cup {n.idx : n \in ToSet(delta.nodes)}) \ delta.gone}

BaseEdge(r) ==
    Forward(Position(base.nodes, base.edges[r].src), Position(base.nodes, base.edges[r].tgt), r)

BaseEdges == UNION {ToSet(Directions(BaseEdge(r))) : r \in DOMAIN base.edges}

VisibleEdges ==
    LET kept == {e \in BaseEdges : \A t \in delta.deleted : ~Covers(t, e)} IN
    {e \in kept \cup delta.added : {e.src, e.tgt} \cap delta.gone = {}}

\* Engine::resolve, then resolve_added_node: the newest live one.
Resolvable(k) ==
    {i \in DOMAIN base.nodes : base.nodes[i] = k /\ i \notin delta.gone}
Resolve(k) ==
    IF Resolvable(k) # {} THEN CHOOSE i \in Resolvable(k) : TRUE
    ELSE Max({n.idx : n \in {m \in ToSet(delta.nodes) : m.key = k /\ m.idx \notin delta.gone}})

----------------------------------------------------------------------------
Init ==
    /\ TxInit
    /\ \E ns \in SUBSET Keys, es \in SUBSET EdgeRows :
          /\ Consistent(ns, es)
          /\ nodes = ns /\ edges = es
          /\ saved = <<[nodes |-> ns, edges |-> es]>>
          /\ base \in BuiltFrom(ns, es)
    /\ failed = FALSE

\* A statement changes its rows, then makes its record calls; if one of them fails,
\* those before it stay recorded until the rollback.
Statement(calls, ns, es) ==
    /\ ~failed
    /\ nodes' = ns /\ edges' = es
    /\ \E done \in 0..Len(calls) :
          /\ \A n \in 1..done : CallFits(Trail(delta, calls)[n - 1], calls[n])
          /\ Record(Trail(delta, calls)[done], done)
          /\ failed' = (done < Len(calls))
    /\ UNCHANGED <<saved, base>>

\* CREATE (n), and the MERGE that creates.
CreateNode(k) ==
    /\ Fits(delta, 1, 0)
    /\ k \notin nodes
    /\ Statement(<<[op |-> "node", arg |-> k]>>, nodes \cup {k}, edges)

\* MATCH (a), (b) CREATE (a)-[r]->(b).
CreateRelationship(r, s, t) ==
    LET forward == Forward(Resolve(s), Resolve(t), TemporaryId(delta))
        record(e) == [op |-> "edge", arg |-> e] IN
    /\ Fits(delta, 0, Width)
    /\ {s, t} \subseteq VisibleNodes \cap nodes
    /\ \A e \in edges : e.row # r
    /\ Statement(<<[op |-> "identity", arg |-> r]>>
                    \o [n \in DOMAIN Directions(forward) |-> record(Directions(forward)[n])],
                 nodes, edges \cup {[row |-> r, src |-> s, tgt |-> t]})

\* MATCH (a)-[r]->(b) DELETE r, by the identity the match read.
DeleteEdge(e) ==
    LET row == [row |-> RowOf(e.rid), src |-> KeyOf(e.src), tgt |-> KeyOf(e.tgt)]
        forward == Forward(Resolve(row.src), Resolve(row.tgt), e.rid)
        record(x) == [op |-> "unedge", arg |-> x] IN
    /\ ~e.rev
    /\ Fits(delta, 0, Width)
    /\ row \in edges
    /\ Statement([n \in DOMAIN Directions(forward) |-> record(Directions(forward)[n])],
                 nodes, edges \ {row})

\* MATCH (n) DETACH DELETE n: PostgreSQL returns the incident rows in some order,
\* without identities, so each leaves a tombstone for all parallel relationships.
DetachDelete(k) ==
    LET incident == {e \in edges : k \in {e.src, e.tgt}}
        tombstone(e) == Forward(Resolve(e.src), Resolve(e.tgt), NoId)
        record(e, n) == [op |-> "unedge", arg |-> Directions(tombstone(e))[n]] IN
    /\ k \in VisibleNodes \cap nodes
    /\ Fits(delta, 1, Cardinality(incident) * Width)
    /\ \E order \in SetToSeqs(incident) :
          Statement([n \in 1..(Width * Len(order)) |->
                        record(order[((n - 1) \div Width) + 1], ((n - 1) % Width) + 1)]
                       \o <<[op |-> "gone", arg |-> Resolve(k)]>>,
                    nodes \ {k}, edges \ incident)

Savepoint ==
    /\ ~failed
    /\ depth < MaxDepth
    /\ StartSub
    /\ saved' = Append(saved, [nodes |-> nodes, edges |-> edges])
    /\ UNCHANGED <<nodes, edges, base, failed>>

Release ==
    /\ ~failed
    /\ FinishSub(FALSE)
    /\ saved' = Front(saved)
    /\ UNCHANGED <<nodes, edges, base, failed>>

RollbackTo ==
    /\ FinishSub(TRUE)
    /\ nodes' = Last(saved).nodes /\ edges' = Last(saved).edges
    /\ saved' = Front(saved)
    /\ failed' = FALSE
    /\ UNCHANGED base

Abort ==
    /\ ClearState
    /\ nodes' = Head(saved).nodes /\ edges' = Head(saved).edges
    /\ saved' = <<Head(saved)>>
    /\ failed' = FALSE
    /\ UNCHANGED base

\* The next transaction starts from a build of what this one committed.
Commit ==
    /\ ~failed
    /\ ClearState
    /\ saved' = <<[nodes |-> nodes, edges |-> edges]>>
    /\ base' \in BuiltFrom(nodes, edges)
    /\ UNCHANGED <<nodes, edges, failed>>

Next ==
    \/ \E k \in Keys : CreateNode(k) \/ DetachDelete(k)
    \/ \E r \in Rows, s, t \in Keys : CreateRelationship(r, s, t)
    \/ \E e \in VisibleEdges : DeleteEdge(e)
    \/ Savepoint \/ Release \/ RollbackTo \/ Abort \/ Commit

Spec == Init /\ [][Next]_vars

----------------------------------------------------------------------------
Entries(ids) == [src : 1..(Cardinality(Keys) + MaxNodes), tgt : 1..(Cardinality(Keys) + MaxNodes),
                 rev : BOOLEAN, rid : ids]

\* Types, and the limits of graph.max_tx_delta_nodes and graph.max_tx_delta_edges.
TypeOK ==
    /\ nodes \subseteq Keys /\ edges \subseteq EdgeRows /\ Consistent(nodes, edges)
    /\ Len(saved) = depth + 1
    /\ depth \in 0..MaxDepth
    /\ Len(snapshots) <= depth
    /\ Len(delta.nodes) + Cardinality(delta.gone) <= MaxNodes
    /\ Cardinality(delta.added) + Cardinality(delta.deleted) <= MaxEdges
    /\ delta.added \subseteq Entries(Nat)
    /\ delta.deleted \subseteq Entries(Nat \cup {NoId})

\* Read your own writes: after any sequence of statements, savepoints, releases and
\* rollbacks, the base with the delta on top shows exactly the rows the transaction
\* sees in PostgreSQL, every relationship in each direction with its own row.
OverlayMatchesSource ==
    ~failed =>
        /\ VisibleNodes = nodes
        /\ {<<RowOf(e.rid), KeyOf(e.src), KeyOf(e.tgt), e.rev>> : e \in VisibleEdges}
             = {<<e.row, e.src, e.tgt, FALSE>> : e \in edges}
                 \cup (IF Bidirectional THEN {<<e.row, e.tgt, e.src, TRUE>> : e \in edges} ELSE {})

=============================================================================
