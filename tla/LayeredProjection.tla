--------------------------- MODULE LayeredProjection ---------------------------
(***************************************************************************)
(* What a durable projection shows of one mapped relationship table: the   *)
(* committed sync rows, their normalization into immutable edge segments,  *)
(* the layered read of base CSR, base chunks and segments, and the two     *)
(* forms of compaction.  One graph, one relationship mapping, not          *)
(* bidirectional, with a fixed label; its endpoint nodes exist throughout. *)
(*                                                                         *)
(* Every edge carries the relationship identity of its source row, so an   *)
(* edge is a triple <<source, target, key of the row>>.  A layer gives     *)
(* each edge the weight it stores for it.  Publication by compare-and-swap *)
(* under the build lock is the subject of module Publication; here a       *)
(* publication is one step, and one that fails changes nothing.  The loop  *)
(* that widens the ranges of a chunk rewrite is followed turn by turn.     *)
(***************************************************************************)
EXTENDS Integers, FiniteSets, Sequences, FiniteSetsExt

CONSTANTS
    NodeCount,     \* nodes of the base, numbered from 0
    Targets,       \* those that rows may point to
    Keys,          \* primary keys of the relationship table
    Weights,       \* values of the weight column besides NULL; {} if there is none
    MaxEntries,    \* bound on committed row changes
    MaxBatch,      \* sync rows one ingestion takes at most
    Thresholds     \* dirty_chunk_segment_threshold arguments; 0 is NULL

ASSUME LayeredAssumption ==
    /\ NodeCount \in Nat \ {0} /\ MaxEntries \in Nat /\ MaxBatch \in Nat \ {0}
    /\ Targets \subseteq 0..(NodeCount - 1) /\ Weights \subseteq Nat /\ Thresholds \subseteq Nat

VARIABLES
    rows,        \* the committed source table: key -> image of the row
    log,         \* committed sync entries above the watermark, oldest first
    lastId,      \* id of the newest sync entry
    watermark,   \* sync_watermark of the current manifest
    base,        \* the base CSR artifact: edge -> weight
    chunks,      \* base chunks of the manifest
    segments,    \* edge segments of the manifest
    expanding    \* source ranges of a chunk rewrite under way; {} without one

vars == <<rows, log, lastId, watermark, base, chunks, segments, expanding>>

Nodes == 0..(NodeCount - 1)
Edges == Nodes \X Nodes \X Keys
Flip(x) == <<x[2], x[1], x[3]>>

\* Answers of a layer other than a weight.
NoEdge    == -1    \* the layer has no such edge
NoWeight  == -2    \* the edge is present and has no weight
Deleted   == -3    \* DurableEdgeState::Deleted
Untouched == -4    \* no segment mentions the edge

RowWeights == Weights \cup {NoWeight}
Absent == [s |-> -1, t |-> -1, w |-> NoWeight]
Images == [s : Nodes, t : Targets, w : RowWeights]

EdgeOf(k, image) == <<image.s, image.t, k>>
Empty == [x \in Edges |-> NoEdge]

\* A build gives every edge a weight of at least 1, NULL included; a
\* synchronised row keeps its 0 or NULL.
BuiltWeight(w) == IF Weights = {} THEN NoWeight ELSE Max({1, w})

\* A clean build reads the source table.
Built(table) ==
    [x \in Edges |-> LET image == table[x[3]]
                     IN  IF image # Absent /\ x = EdgeOf(x[3], image)
                         THEN BuiltWeight(image.w) ELSE NoEdge]

-----------------------------------------------------------------------------
(* Normalization: from sync entries to one edge segment                    *)

\* Mutant: an UPDATE does not delete the edge of its old image.
EdgeRowsOfNewImage(e) ==
    LET old == IF e.new = Absent THEN e.old ELSE Absent IN
    (IF old = Absent THEN {} ELSE
       {[sync |-> e.id, generation |-> e.id, op |-> "delete", edge |-> EdgeOf(e.key, old), w |-> old.w]})
    \cup
    (IF e.new = Absent THEN {} ELSE
       {[sync |-> e.id, generation |-> e.id, op |-> "insert", edge |-> EdgeOf(e.key, e.new), w |-> e.new.w]})

\* append_projection_rows_for_entry: an UPDATE deletes the edge of its old
\* image and inserts that of its new one.  generation_id is the entry's id.
EdgeRows(e) ==
    (IF e.old = Absent THEN {} ELSE
       {[sync |-> e.id, generation |-> e.id, op |-> "delete", edge |-> EdgeOf(e.key, e.old), w |-> e.old.w]})
    \cup
    (IF e.new = Absent THEN {} ELSE
       {[sync |-> e.id, generation |-> e.id, op |-> "insert", edge |-> EdgeOf(e.key, e.new), w |-> e.new.w]})

\* Mutant: the mutations of a batch are grouped by edge only.
MutationKeyOfEdge(r) == r.edge

MutationKey(r) == <<r.generation, r.edge>>

\* cancels_pair
CancelsPair(group) == Cardinality(group) = 2 /\ {r.op : r \in group} = {"insert", "delete"}

\* compare_precedence: a delete over an insert, then the later sync id, then
\* the larger weight.
Precedes(r, q) ==
    \/ r.op = "insert" /\ q.op = "delete"
    \/ r.op = q.op /\ r.sync < q.sync
    \/ r.op = q.op /\ r.sync = q.sync /\ r.w <= q.w

NormalizeGroup(group) ==
    IF CancelsPair(group) THEN {} ELSE {r \in group : \A q \in group : Precedes(q, r)}

Normalize(mutations) ==
    UNION {NormalizeGroup({r \in mutations : MutationKey(r) = key}) :
              key \in {MutationKey(r) : r \in mutations}}

Sources(g) == g.lo..(g.hi - 1)

\* Mutant: the exclusive end of the header's range is one too large.
SegmentOfOneMore(normalized) ==
    LET ins     == {r \in normalized : r.op = "insert"}
        sources == {r.edge[1] : r \in normalized}
    IN  [wm  |-> Max({r.sync : r \in normalized}), lo |-> Min(sources), hi |-> Max(sources) + 2,
         ins |-> {r.edge : r \in ins}, del |-> {r.edge : r \in normalized \ ins},
         wt  |-> [x \in Edges |-> NoWeight]]

\* DeltaSegment::from_normalized_edges and the weights map of
\* apply_edge_segment: of several weights of an edge the last row's stands.
SegmentOf(normalized) ==
    LET ins     == {r \in normalized : r.op = "insert"}
        sources == {r.edge[1] : r \in normalized}
        heavy(x) == {r \in ins : r.edge = x /\ r.w # NoWeight}
    IN  [wm  |-> Max({r.sync : r \in normalized}),
         lo  |-> Min(sources),
         hi  |-> Max(sources) + 1,
         ins |-> {r.edge : r \in ins},
         del |-> {r.edge : r \in normalized \ ins},
         wt  |-> [x \in Edges |->
                     IF heavy(x) = {} THEN NoWeight
                     ELSE (CHOOSE r \in heavy(x) : \A q \in heavy(x) : q.sync <= r.sync).w]]

-----------------------------------------------------------------------------
(* The layered read                                                        *)

\* LayeredBuilder: segments are applied in watermark order, in each one the
\* deletes before the inserts, so the newest segment that mentions an edge
\* decides.
Durable(x) ==
    LET touching == {g \in segments : x \in g.ins \cup g.del}
        newest   == CHOOSE g \in touching : \A h \in touching : h.wm <= g.wm
    IN  IF touching = {} THEN Untouched
        ELSE IF x \in newest.ins THEN newest.wt[x] ELSE Deleted

Covering(n) == {c \in chunks : n \in Sources(c)}

\* Base CSR, or the chunk that replaces it for the edge's source node.
Replaced(x) ==
    IF Covering(x[1]) = {} THEN base[x]
    ELSE Max({c.edges[x] : c \in Covering(x[1])})

\* finish_direction drops a weightless insert whose probe is an edge of the
\* base; fill_directional_neighbors merges what is left.
Layered(x, probe) ==
    LET d          == Durable(x)
        suppressed == d = NoWeight /\ base[probe] # NoEdge
    IN  IF d = Deleted THEN NoEdge
        ELSE IF d = Untouched \/ suppressed THEN Replaced(x)
        ELSE d

\* Both directions probe the outgoing base, the incoming one with the
\* endpoints of its own key.
OutView(x) == Layered(x, x)
InView(x)  == Layered(x, Flip(x))

-----------------------------------------------------------------------------
(* Compaction                                                              *)

Ranges == {r \in [lo : Nodes, hi : 1..NodeCount] : r.lo < r.hi}
Overlaps(g, h) == g.lo < h.hi /\ h.lo < g.hi

\* The source nodes that the segments' headers cover.
DirtySources == UNION {Sources(g) : g \in segments}

\* Mutant: deletions of base edges are not carried over.
CompactedWithoutDeletes ==
    LET dirty == {x \in Edges : x[1] \in DirtySources}
        ins   == {x \in dirty : OutView(x) # NoEdge /\ base[x] # OutView(x)}
    IN  [wm  |-> watermark, lo |-> Min({g.lo : g \in segments}), hi |-> Max({g.hi : g \in segments}),
         ins |-> ins, del |-> {},
         wt  |-> [x \in Edges |-> IF x \in ins THEN OutView(x) ELSE NoWeight]]

\* build_compacted_segment: the difference between the layered view and the
\* base CSR over the dirty sources.
CompactedSegment ==
    LET dirty == {x \in Edges : x[1] \in DirtySources}
        ins   == {x \in dirty : OutView(x) # NoEdge /\ base[x] # OutView(x)}
    IN  [wm  |-> watermark,
         lo  |-> Min({g.lo : g \in segments}),
         hi  |-> Max({g.hi : g \in segments}),
         ins |-> ins,
         del |-> {x \in dirty : base[x] # NoEdge /\ OutView(x) = NoEdge},
         wt  |-> [x \in Edges |-> IF x \in ins THEN OutView(x) ELSE NoWeight]]

\* compacted_source_ranges: headers with a source node in common are merged,
\* headers that only touch are not.
DirtyRanges ==
    LET inside(i) == \E g \in segments : g.lo < i /\ i < g.hi
    IN  {r \in Ranges : /\ Sources(r) \subseteq DirtySources
                       /\ \A i \in r.lo..r.hi : inside(i) <=> i \notin {r.lo, r.hi}}

RangeOf(c) == [lo |-> c.lo, hi |-> c.hi]
Cut(c) == {r \in expanding : Overlaps(r, c)}

\* The chunks that the loop of expand_dirty_ranges does not pass over.
Unsettled == {c \in chunks : Cut(c) \notin {{}, {RangeOf(c)}}}

\* The weight that SortedEdgeStoreBuilder stores for an edge without one.
WeightInChunk(w) == IF w = NoWeight /\ Weights # {} THEN 1 ELSE w

\* materialize_layered_ranges holds the view of the dirty sources only.
Materialized ==
    [x \in Edges |-> IF x[1] \in DirtySources THEN WeightInChunk(OutView(x)) ELSE NoEdge]

ChunkOf(r) ==
    [lo |-> r.lo, hi |-> r.hi,
     edges |-> [x \in Edges |-> IF x[1] \in Sources(r) THEN Materialized[x] ELSE NoEdge]]

\* Mutant: overlapped chunks stay in the manifest.
RewrittenKeepingChunks == chunks \cup {ChunkOf(r) : r \in expanding}

\* publish_base_chunk_rewrite_inner: chunks that the widened ranges overlap are
\* replaced, the others are kept.
RewrittenChunks == {c \in chunks : Cut(c) = {}} \cup {ChunkOf(r) : r \in expanding}

-----------------------------------------------------------------------------
Init ==
    /\ rows \in [Keys -> Images \cup {Absent}]
    /\ log = <<>> /\ lastId = 0 /\ watermark = 0
    /\ base = Built(rows)
    /\ chunks = {} /\ segments = {} /\ expanding = {}

\* A transaction that changes row k commits; its sync trigger logs the change.
WriteRow(k, image) ==
    /\ lastId < MaxEntries /\ image # rows[k]
    /\ lastId' = lastId + 1
    /\ log' = Append(log, [id |-> lastId + 1, key |-> k, old |-> rows[k], new |-> image])
    /\ rows' = [rows EXCEPT ![k] = image]
    /\ UNCHANGED <<watermark, base, chunks, segments, expanding>>

\* The build lock, which a rewrite holds until its transaction ends.
BuildLockFree == expanding = {}

\* ingest_committed_rows_locked for the oldest n entries.  A batch whose rows
\* all cancel publishes a manifest without a new segment.
Ingest(n) ==
    LET normalized == Normalize(UNION {EdgeRows(log[i]) : i \in 1..n})
    IN  /\ BuildLockFree /\ n <= Len(log)
        /\ segments' = segments \cup (IF normalized = {} THEN {} ELSE {SegmentOf(normalized)})
        /\ watermark' = log[n].id
        /\ log' = SubSeq(log, n + 1, Len(log))
        /\ UNCHANGED <<rows, lastId, base, chunks, expanding>>

\* compact_generation below the threshold.
CompactSegments(threshold) ==
    /\ BuildLockFree /\ segments # {}
    /\ threshold = 0 \/ Cardinality(segments) < threshold
    /\ segments' = {CompactedSegment}
    /\ UNCHANGED <<rows, log, lastId, watermark, base, chunks, expanding>>

\* compact_generation from the threshold on, up to expand_dirty_ranges.
StartRewrite(threshold) ==
    /\ BuildLockFree /\ segments # {}
    /\ threshold # 0 /\ Cardinality(segments) >= threshold
    /\ expanding' = DirtyRanges
    /\ UNCHANGED <<rows, log, lastId, watermark, base, chunks, segments>>

\* One turn of the loop in expand_dirty_ranges: the first chunk not passed over
\* is joined with the ranges that overlap it.  If there is one such
\* range and it holds more than the chunk, the turn changes nothing and the next
\* one is like it.
WidenRange ==
    /\ Unsettled # {}
    /\ \E c \in Unsettled :
          LET joined == Cut(c) \cup {RangeOf(c)} IN
          /\ \A d \in Unsettled : c.lo <= d.lo
          /\ expanding' = (expanding \ Cut(c)) \cup
                {[lo |-> Min({r.lo : r \in joined}), hi |-> Max({r.hi : r \in joined})]}
    /\ UNCHANGED <<rows, log, lastId, watermark, base, chunks, segments>>

\* The rest of publish_base_chunk_rewrite_inner.
FinishRewrite ==
    /\ expanding # {} /\ Unsettled = {}
    /\ chunks' = RewrittenChunks
    /\ segments' = {} /\ expanding' = {}
    /\ UNCHANGED <<rows, log, lastId, watermark, base>>

\* A later step fails or the backend is killed; no manifest names what it wrote.
AbandonRewrite ==
    /\ expanding # {}
    /\ expanding' = {}
    /\ UNCHANGED <<rows, log, lastId, watermark, base, chunks, segments>>

\* graph.build(), vacuum() or maintenance(): a new base from the source table.
Rebuild ==
    /\ BuildLockFree
    /\ base' = Built(rows)
    /\ chunks' = {} /\ segments' = {}
    /\ watermark' = lastId /\ log' = <<>>
    /\ UNCHANGED <<rows, lastId, expanding>>

Next ==
    \/ \E k \in Keys, image \in Images \cup {Absent} : WriteRow(k, image)
    \/ \E n \in 1..MaxBatch : Ingest(n)
    \/ \E threshold \in Thresholds : CompactSegments(threshold)
    \/ \E threshold \in Thresholds : StartRewrite(threshold)
    \/ WidenRange
    \/ FinishRewrite
    \/ AbandonRewrite
    \/ Rebuild

Spec == Init /\ [][Next]_vars

\* A backend that rewrites chunks keeps running.
FairSpec == Spec /\ WF_vars(WidenRange) /\ WF_vars(FinishRewrite)
-----------------------------------------------------------------------------
StoredWeights == RowWeights \cup {BuiltWeight(w) : w \in RowWeights}

\* Types of the source table, the log and the layers.
TypeOK ==
    /\ rows \in [Keys -> Images \cup {Absent}]
    /\ lastId \in 0..MaxEntries /\ watermark \in 0..lastId
    /\ log \in Seq([id : 1..MaxEntries, key : Keys,
                    old : Images \cup {Absent}, new : Images \cup {Absent}])
    /\ base \in [Edges -> StoredWeights \cup {NoEdge}]
    /\ \A c \in chunks :
          /\ c.lo \in Nodes /\ c.hi \in 1..NodeCount /\ c.lo < c.hi
          /\ c.edges \in [Edges -> StoredWeights \cup {NoEdge}]
    /\ \A g \in segments :
          /\ g.wm \in 1..MaxEntries /\ g.lo \in Nodes /\ g.hi \in 1..NodeCount
          /\ g.ins \cup g.del \subseteq Edges
          /\ g.wt \in [Edges -> StoredWeights \cup {NoWeight}]
    /\ expanding \subseteq Ranges

\* The row as of the manifest's watermark.
Ingested(k) ==
    LET pending == {i \in DOMAIN log : log[i].key = k}
    IN  IF pending = {} THEN rows[k] ELSE log[Min(pending)].old

\* As long as no compaction has written chunks, every source row that the
\* manifest's watermark accounts for is an edge of the layered read: no batch,
\* cancellation, duplicate suppression or merged segment drops the edge of a
\* row that exists.
NoLostEdge ==
    chunks = {} =>
        \A k \in Keys : Ingested(k) # Absent => OutView(EdgeOf(k, Ingested(k))) # NoEdge

\* The layered read shows no edge that the source table does not have at the
\* manifest's watermark, neither from its source nor from its target: a deleted
\* or redirected relationship is gone.
NoPhantomEdge ==
    \A x \in Edges : OutView(x) # NoEdge \/ InView(x) # NoEdge =>
        Ingested(x[3]) # Absent /\ x = EdgeOf(x[3], Ingested(x[3]))

\* A batch that changes no row twice leaves an exact read exact: it neither keeps
\* the edge of a deleted or redirected row nor shows one that was never there,
\* also when chunks replace the base and segments of several batches overlap.
IngestStaysExact ==
    [][ \A n \in 1..MaxBatch :
          Ingest(n) /\ NoPhantomEdge /\ Cardinality({log[i].key : i \in 1..n}) = n
            => NoPhantomEdge' ]_vars

\* Two chunks never replace the same source node, whatever earlier chunks the
\* rewrite met, two segments never carry the same watermark, and no segment is
\* newer than its manifest: otherwise the order in which the layers are applied
\* would decide what a read returns.
LayersOrdered ==
    /\ \A c, d \in chunks : Overlaps(c, d) => c = d
    /\ \A g, h \in segments : g.wm = h.wm => g = h
    /\ \A g \in segments : g.wm <= watermark

\* Compaction publishes a generation that reads like the one it replaces, edge by
\* edge and weight by weight, unless an earlier compaction has left chunks: as a
\* merged segment exactly, as the first chunks except that an edge without a
\* weight in a table that has weights gets the default weight 1.
CompactionKeepsView ==
    [][ chunks = {} => \A x \in Edges :
          /\ (\E threshold \in Thresholds : CompactSegments(threshold)) => OutView(x)' = OutView(x)
          /\ FinishRewrite => \/ OutView(x)' = OutView(x)
                              \/ Weights # {} /\ OutView(x) = NoWeight /\ OutView(x)' = 1 ]_vars

\* A chunk rewrite ends, whatever chunks earlier rewrites have left: compaction is
\* one bounded pass.
RewriteEnds == expanding # {} ~> expanding = {}
=============================================================================
