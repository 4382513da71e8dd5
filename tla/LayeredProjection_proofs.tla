------------------------ MODULE LayeredProjection_proofs ------------------------
(***************************************************************************)
(* Proofs about the edges of a durable projection, for every number of     *)
(* nodes, every set of keys, every batch size and every threshold: layers  *)
(* are ordered, no edge is lost, compaction is not seen by a reader, and   *)
(* an ingestion keeps an exact projection exact.                           *)
(*                                                                         *)
(* The newest segment that mentions an edge decides, and there is only one *)
(* such segment because each batch has ids above the watermark.  A batch   *)
(* is followed entry by entry through the images of one row: the entry     *)
(* that last gave the row its edge leaves an insert that nothing cancels.  *)
(* The ranges of a chunk rewrite are apart when it starts and stay apart   *)
(* as they are widened, whether or not the loop that widens them ends.     *)
(***************************************************************************)
EXTENDS LayeredProjection, SetLemmas, SequenceTheorems

Entry == [id : 1..MaxEntries, key : Keys, old : Images \cup {Absent}, new : Images \cup {Absent}]

\* The image of row k after the first p pending entries.
Later(k, p) == {i \in DOMAIN log : i > p /\ log[i].key = k}
RowAt(k, p) == IF Later(k, p) = {} THEN rows[k] ELSE log[Min(Later(k, p))].old

\* Pending entries have consecutive ids from the watermark to the newest one,
\* and each leads to the image the next one of its row starts from.
LogIds ==
    /\ Len(log) = lastId - watermark
    /\ \A i \in DOMAIN log : log[i].id = watermark + i /\ log[i].new = RowAt(log[i].key, i)

\* A segment's header covers the sources of its edges, and what it inserts has
\* a weight that is stored.
SegmentShaped(g) ==
    /\ g.lo < g.hi
    /\ \A x \in g.ins \cup g.del : x[1] \in Sources(g)
    /\ \A x \in g.ins : g.wt[x] \in StoredWeights
SegmentsShaped == \A g \in segments : SegmentShaped(g)

\* The ranges of a rewrite do not overlap, each segment lies in one of them, and
\* until there are chunks they hold sources of segments only.
RangesFine ==
    /\ \A r, q \in expanding : Overlaps(r, q) => r = q
    /\ expanding # {} => \A g \in segments : \E r \in expanding : r.lo <= g.lo /\ g.hi <= r.hi
    /\ chunks = {} => \A r \in expanding : Sources(r) \subseteq DirtySources

IInv == TypeOK /\ LogIds /\ SegmentsShaped /\ LayersOrdered /\ RangesFine /\ NoLostEdge

----------------------------------------------------------------------------
\* Weights.

\* Weights that are stored are numbers or no weight; none of them is mistaken for
\* an answer of another kind, and what a chunk makes of one is stored as well.
LEMMA Stored ==
    /\ RowWeights \subseteq StoredWeights
    /\ StoredWeights \subseteq Nat \cup {NoWeight}
    /\ \A w \in RowWeights : BuiltWeight(w) \in StoredWeights
    /\ \A w \in StoredWeights : WeightInChunk(w) \in StoredWeights
    /\ WeightInChunk(NoEdge) = NoEdge
    /\ NoEdge \notin StoredWeights /\ Deleted \notin StoredWeights /\ Untouched \notin StoredWeights
    /\ StoredWeights \subseteq Int /\ NoEdge \in Int
<1>1. \A w \in Nat : Max({1, w}) \in Nat
  <2> SUFFICES ASSUME NEW w \in Nat PROVE Max({1, w}) \in Nat
    OBVIOUS
  <2>1. CASE w >= 1
    <3>1. Max({1, w}) = w
      BY <2>1, MaxIs
    <3>2. QED
      BY <3>1
  <2>2. CASE w < 1
    <3>1. Max({1, w}) = 1
      BY <2>2, MaxIs
    <3>2. QED
      BY <3>1
  <2>3. QED
    BY <2>1, <2>2
<1>2. RowWeights \subseteq Nat \cup {NoWeight} /\ NoWeight \in RowWeights
  BY LayeredAssumption DEF RowWeights
<1>3. NoWeight \notin Nat /\ NoEdge \notin Nat /\ Deleted \notin Nat /\ Untouched \notin Nat
      /\ NoEdge # NoWeight /\ Deleted # NoWeight /\ Untouched # NoWeight
  BY DEF NoWeight, NoEdge, Deleted, Untouched
<1>4. BuiltWeight(NoWeight) = IF Weights = {} THEN NoWeight ELSE 1
  <2>1. Max({1, -2}) = 1
    BY MaxIs
  <2>2. QED
    BY <2>1 DEF BuiltWeight, NoWeight
<1>5. BuiltWeight(NoWeight) \in Nat \cup {NoWeight} /\ \A w \in Nat : BuiltWeight(w) \in Nat \cup {NoWeight}
  BY <1>1, <1>4 DEF BuiltWeight
<1>6. \A v : v \in StoredWeights <=> (v \in RowWeights \/ \E w \in RowWeights : v = BuiltWeight(w))
  BY DEF StoredWeights
<1>7. StoredWeights \subseteq Nat \cup {NoWeight}
  BY <1>2, <1>5, <1>6
<1>8. RowWeights \subseteq StoredWeights /\ \A w \in RowWeights : BuiltWeight(w) \in StoredWeights
  BY <1>6
<1>9. \A w \in StoredWeights : WeightInChunk(w) \in StoredWeights
  <2>1. Weights # {} => 1 \in StoredWeights
    BY <1>2, <1>4, <1>8
  <2>2. QED
    BY <2>1 DEF WeightInChunk
<1>10. WeightInChunk(NoEdge) = NoEdge
  BY <1>3 DEF WeightInChunk
<1>11. NoEdge \in Int /\ NoWeight \in Int
  BY DEF NoEdge, NoWeight
<1>12. StoredWeights \subseteq Int
  BY <1>7, <1>11
<1>13. QED
  BY <1>3, <1>7, <1>8, <1>9, <1>10, <1>11, <1>12

\* An edge knows its row and its endpoints.
LEMMA EdgeFacts ==
    /\ \A k \in Keys, image \in Images :
          /\ EdgeOf(k, image) \in Edges /\ EdgeOf(k, image)[1] = image.s /\ EdgeOf(k, image)[3] = k
          /\ image.s \in Nodes /\ image.t \in Nodes /\ image.w \in RowWeights
    /\ \A x \in Edges : x[1] \in Nodes /\ x[3] \in Keys /\ Flip(x) \in Edges
    /\ Absent \notin Images /\ Nodes \subseteq Nat
<1>1. Nodes \subseteq Nat /\ NodeCount \in Nat /\ -1 \notin Nodes
  BY LayeredAssumption DEF Nodes
<1>2. Absent \notin Images
  BY <1>1 DEF Absent, Images
<1>3. \A x \in Edges : x[1] \in Nodes /\ x[3] \in Keys /\ Flip(x) \in Edges
  BY DEF Edges, Flip
<1>4. ASSUME NEW k \in Keys, NEW image \in Images
      PROVE  /\ EdgeOf(k, image) \in Edges /\ EdgeOf(k, image)[1] = image.s /\ EdgeOf(k, image)[3] = k
             /\ image.s \in Nodes /\ image.t \in Nodes /\ image.w \in RowWeights
  <2>1. Targets \subseteq Nodes
    BY LayeredAssumption DEF Nodes
  <2>2. QED
    BY <2>1 DEF EdgeOf, Images, Edges
<1>5. QED
  BY <1>1, <1>2, <1>3, <1>4

\* What a clean build shows of a row: its edge, and nothing else.
LEMMA BuiltFacts ==
    ASSUME rows \in [Keys -> Images \cup {Absent}]
    PROVE  /\ Built(rows) \in [Edges -> StoredWeights \cup {NoEdge}]
           /\ \A k \in Keys : rows[k] # Absent => Built(rows)[EdgeOf(k, rows[k])] # NoEdge
<1>1. ASSUME NEW x \in Edges PROVE Built(rows)[x] \in StoredWeights \cup {NoEdge}
  <2>1. x[3] \in Keys /\ rows[x[3]] \in Images \cup {Absent}
    BY EdgeFacts
  <2>2. rows[x[3]] # Absent => BuiltWeight(rows[x[3]].w) \in StoredWeights
    BY <2>1, EdgeFacts, Stored
  <2>3. QED
    BY <2>2 DEF Built
<1>2. ASSUME NEW k \in Keys, rows[k] # Absent PROVE Built(rows)[EdgeOf(k, rows[k])] # NoEdge
  <2>1. rows[k] \in Images
    BY <1>2
  <2>2. PICK x \in Edges : x = EdgeOf(k, rows[k]) /\ x[3] = k
    BY <2>1, EdgeFacts
  <2>3. BuiltWeight(rows[k].w) \in StoredWeights
    BY <2>1, EdgeFacts, Stored
  <2>4. Built(rows)[x] = BuiltWeight(rows[k].w)
    BY <1>2, <2>2 DEF Built
  <2>5. QED
    BY <2>2, <2>3, <2>4, Stored
<1>3. Built(rows) = [x \in Edges |-> Built(rows)[x]]
  BY DEF Built
<1>4. QED
  BY <1>1, <1>2, <1>3

----------------------------------------------------------------------------
\* The layered read, of given segments S, chunks C and base.

Segment(g) ==
    /\ g.wm \in 1..MaxEntries /\ g.lo \in Nodes /\ g.hi \in 1..NodeCount
    /\ g.ins \cup g.del \subseteq Edges
    /\ g.wt \in [Edges -> StoredWeights \cup {NoWeight}]
    /\ SegmentShaped(g)
Segments(S) == (\A g \in S : Segment(g)) /\ \A g, h \in S : g.wm = h.wm => g = h

BaseType == [Edges -> StoredWeights \cup {NoEdge}]
Chunk(c) ==
    /\ c.lo \in Nodes /\ c.hi \in 1..NodeCount /\ c.lo < c.hi
    /\ c.edges \in BaseType
Chunks(C) == (\A c \in C : Chunk(c)) /\ \A c, d \in C : Overlaps(c, d) => c = d

DurableIn(S, x) ==
    LET touching == {g \in S : x \in g.ins \cup g.del}
        newest   == CHOOSE g \in touching : \A h \in touching : h.wm <= g.wm
    IN  IF touching = {} THEN Untouched
        ELSE IF x \in newest.ins THEN newest.wt[x] ELSE Deleted
ReplacedIn(b, C, x) ==
    IF {c \in C : x[1] \in Sources(c)} = {} THEN b[x]
    ELSE Max({c.edges[x] : c \in {c \in C : x[1] \in Sources(c)}})
LayeredIn(S, C, b, x, probe) ==
    LET d          == DurableIn(S, x)
        suppressed == d = NoWeight /\ b[probe] # NoEdge
    IN  IF d = Deleted THEN NoEdge
        ELSE IF d = Untouched \/ suppressed THEN ReplacedIn(b, C, x)
        ELSE d

\* The reads of the model, in this state and the next.
LEMMA Reads ==
    ASSUME NEW x
    PROVE  /\ OutView(x) = LayeredIn(segments, chunks, base, x, x)
           /\ InView(x) = LayeredIn(segments, chunks, base, x, Flip(x))
           /\ OutView(x)' = LayeredIn(segments', chunks', base', x, x)
           /\ InView(x)' = LayeredIn(segments', chunks', base', x, Flip(x))
BY DEF OutView, InView, Layered, LayeredIn, Durable, DurableIn, Replaced, ReplacedIn, Covering

\* The invariant, as it is used here.
LEMMA LayersTyped ==
    ASSUME IInv
    PROVE  Segments(segments) /\ Chunks(chunks) /\ base \in BaseType
BY DEF IInv, TypeOK, SegmentsShaped, LayersOrdered, Segments, Segment, Chunks, Chunk, BaseType

\* The newest of several segments decides.
LEMMA DurableIs ==
    ASSUME NEW S, Segments(S), NEW x
    PROVE  /\ (\A g \in S : x \notin g.ins \cup g.del) => DurableIn(S, x) = Untouched
           /\ \A g \in S : x \in g.ins \cup g.del /\ (\A h \in S : x \in h.ins \cup h.del => h.wm <= g.wm) =>
                DurableIn(S, x) = IF x \in g.ins THEN g.wt[x] ELSE Deleted
           /\ (\E g \in S : x \in g.ins \cup g.del) =>
                \E g \in S : x \in g.ins \cup g.del /\ \A h \in S : x \in h.ins \cup h.del => h.wm <= g.wm
<1>1. PICK T : T = {g \in S : x \in g.ins \cup g.del}
  OBVIOUS
<1>2. PICK newest : newest = CHOOSE g \in T : \A h \in T : h.wm <= g.wm
  OBVIOUS
<1>3. DurableIn(S, x) = IF T = {} THEN Untouched ELSE IF x \in newest.ins THEN newest.wt[x] ELSE Deleted
  BY <1>1, <1>2 DEF DurableIn
<1>4. \A g \in S : g.wm \in 1..MaxEntries
  BY DEF Segments, Segment
<1>5. ASSUME NEW g \in S, x \in g.ins \cup g.del, \A h \in S : x \in h.ins \cup h.del => h.wm <= g.wm
      PROVE  DurableIn(S, x) = IF x \in g.ins THEN g.wt[x] ELSE Deleted
  <2>1. g \in T /\ \A h \in T : h.wm <= g.wm
    BY <1>1, <1>5
  <2>2. newest \in T /\ \A h \in T : h.wm <= newest.wm
    BY <1>2, <2>1
  <2>3. newest.wm <= g.wm /\ g.wm <= newest.wm /\ newest \in S
    BY <1>1, <2>1, <2>2
  <2>4. newest.wm = g.wm
    BY <1>4, <2>3
  <2>5. newest = g
    BY <2>3, <2>4 DEF Segments
  <2>6. QED
    BY <1>3, <2>1, <2>5
<1>6. ASSUME NEW f \in S, x \in f.ins \cup f.del
      PROVE  \E g \in S : x \in g.ins \cup g.del /\ \A h \in S : x \in h.ins \cup h.del => h.wm <= g.wm
  <2>1. PICK W : W = {g.wm : g \in T}
    OBVIOUS
  <2>2. W \in SUBSET (1..MaxEntries) /\ W # {} /\ MaxEntries \in Nat
    BY <1>1, <1>4, <1>6, <2>1, LayeredAssumption
  <2>3. Max(W) \in W /\ \A w \in W : Max(W) >= w
    BY <2>2, IndexMax
  <2>4. PICK g \in T : g.wm = Max(W)
    BY <2>1, <2>3
  <2>5. \A h \in T : Max(W) >= h.wm
    BY <2>1, <2>3
  <2>6. \A h \in T : h.wm \in Int /\ g.wm \in Int
    BY <1>1, <1>4, <2>4
  <2>7. \A h \in T : h.wm <= g.wm
    BY <2>4, <2>5, <2>6
  <2>8. QED
    BY <1>1, <2>7
<1>7. QED
  BY <1>1, <1>3, <1>5, <1>6

\* What segments say of an edge is a stored weight, or that it is not there.
LEMMA DurableType ==
    ASSUME NEW S, Segments(S), NEW x \in Edges
    PROVE  DurableIn(S, x) \in StoredWeights \cup {Deleted, Untouched}
<1>1. CASE \A g \in S : x \notin g.ins \cup g.del
  BY <1>1, DurableIs
<1>2. CASE \E g \in S : x \in g.ins \cup g.del
  <2>1. PICK g \in S : x \in g.ins \cup g.del /\ \A h \in S : x \in h.ins \cup h.del => h.wm <= g.wm
    BY <1>2, DurableIs
  <2>2. DurableIn(S, x) = IF x \in g.ins THEN g.wt[x] ELSE Deleted
    BY <2>1, DurableIs
  <2>3. x \in g.ins => g.wt[x] \in StoredWeights
    BY DEF Segments, Segment, SegmentShaped
  <2>4. QED
    BY <2>2, <2>3
<1>3. QED
  BY <1>1, <1>2

\* One chunk at most replaces the base for an edge.
LEMMA ReplacedIs ==
    ASSUME NEW C, Chunks(C), NEW b \in BaseType, NEW x \in Edges
    PROVE  /\ (\A c \in C : x[1] \notin Sources(c)) => ReplacedIn(b, C, x) = b[x]
           /\ \A c \in C : x[1] \in Sources(c) => ReplacedIn(b, C, x) = c.edges[x]
           /\ ReplacedIn(b, C, x) \in StoredWeights \cup {NoEdge}
<1>1. PICK V : V = {c \in C : x[1] \in Sources(c)}
  OBVIOUS
<1>2. ReplacedIn(b, C, x) = IF V = {} THEN b[x] ELSE Max({c.edges[x] : c \in V})
  BY <1>1 DEF ReplacedIn
<1>3. b[x] \in StoredWeights \cup {NoEdge}
  BY DEF BaseType
<1>4. ASSUME NEW c \in C, x[1] \in Sources(c)
      PROVE  ReplacedIn(b, C, x) = c.edges[x] /\ c.edges[x] \in StoredWeights \cup {NoEdge}
  <2>1. c \in V /\ Chunk(c)
    BY <1>1, <1>4 DEF Chunks
  <2>2. ASSUME NEW d \in V PROVE d = c
    <3>1. d \in C /\ x[1] \in Sources(d) /\ Chunk(d)
      BY <1>1, <2>2 DEF Chunks
    <3>2. c.lo \in Int /\ c.hi \in Int /\ d.lo \in Int /\ d.hi \in Int
      BY <2>1, <3>1, LayeredAssumption DEF Chunk, Nodes
    <3>3. Overlaps(d, c)
      BY <1>4, <3>1, <3>2 DEF Sources, Overlaps
    <3>4. QED
      BY <3>1, <3>3 DEF Chunks
  <2>3. V = {c}
    BY <2>1, <2>2
  <2>4. c.edges[x] \in StoredWeights \cup {NoEdge}
    BY <2>1 DEF Chunk, BaseType
  <2>5. c.edges[x] \in Int
    <3>1. StoredWeights \subseteq Int /\ NoEdge \in Int
      BY Stored
    <3>2. QED
      BY <2>4, <3>1
  <2>6. PICK m \in Int : m = c.edges[x]
    BY <2>5
  <2>7. {e.edges[x] : e \in V} = {m}
    BY <2>3, <2>6
  <2>8. Max({m}) = m
    BY MaxIs
  <2>9. QED
    BY <1>2, <2>3, <2>4, <2>6, <2>7, <2>8
<1>5. QED
  BY <1>1, <1>2, <1>3, <1>4

\* A read gives a stored weight or no edge.
LEMMA ReadType ==
    ASSUME NEW S, Segments(S), NEW C, Chunks(C), NEW b \in BaseType, NEW x \in Edges, NEW probe
    PROVE  LayeredIn(S, C, b, x, probe) \in StoredWeights \cup {NoEdge}
<1>1. DurableIn(S, x) \in StoredWeights \cup {Deleted, Untouched}
  BY DurableType
<1>2. ReplacedIn(b, C, x) \in StoredWeights \cup {NoEdge}
  BY ReplacedIs
<1>3. QED
  BY <1>1, <1>2 DEF LayeredIn

----------------------------------------------------------------------------
\* Normalization of a batch B of sync entries.

DeleteRow(e) ==
    [sync |-> e.id, generation |-> e.id, op |-> "delete", edge |-> EdgeOf(e.key, e.old), w |-> e.old.w]
InsertRow(e) ==
    [sync |-> e.id, generation |-> e.id, op |-> "insert", edge |-> EdgeOf(e.key, e.new), w |-> e.new.w]

\* The delete and the insert of an entry are of the same edge.
Cancels(e) == e.old # Absent /\ e.new # Absent /\ EdgeOf(e.key, e.old) = EdgeOf(e.key, e.new)

Batch(B) == (\A e \in B : e \in Entry) /\ \A e, f \in B : e.id = f.id => e = f
Mutations(B) == UNION {EdgeRows(e) : e \in B}
Inserts(B, x) == \E e \in B : ~Cancels(e) /\ e.new # Absent /\ x = EdgeOf(e.key, e.new)
Deletes(B, x) == \E e \in B : ~Cancels(e) /\ e.old # Absent /\ x = EdgeOf(e.key, e.old)

\* The mutations of one entry.
LEMMA RowsOf ==
    ASSUME NEW e \in Entry
    PROVE  /\ \A r : r \in EdgeRows(e) <=>
                        \/ e.old # Absent /\ r = DeleteRow(e)
                        \/ e.new # Absent /\ r = InsertRow(e)
           /\ \A r \in EdgeRows(e) :
                /\ r.sync = e.id /\ r.generation = e.id /\ r.edge \in Edges /\ r.edge[3] = e.key
                /\ r.w \in RowWeights /\ r.op \in {"insert", "delete"}
                /\ MutationKey(r) = <<e.id, r.edge>>
<1>1. \A r : r \in EdgeRows(e) <=> \/ e.old # Absent /\ r = DeleteRow(e)
                                   \/ e.new # Absent /\ r = InsertRow(e)
  BY DEF EdgeRows, DeleteRow, InsertRow
<1>2. e.key \in Keys /\ e.old \in Images \cup {Absent} /\ e.new \in Images \cup {Absent}
  BY DEF Entry
<1>3. ASSUME e.old # Absent
      PROVE  EdgeOf(e.key, e.old) \in Edges /\ EdgeOf(e.key, e.old)[3] = e.key /\ e.old.w \in RowWeights
  BY <1>2, <1>3, EdgeFacts
<1>4. ASSUME e.new # Absent
      PROVE  EdgeOf(e.key, e.new) \in Edges /\ EdgeOf(e.key, e.new)[3] = e.key /\ e.new.w \in RowWeights
  BY <1>2, <1>4, EdgeFacts
<1>5. ASSUME NEW r \in EdgeRows(e)
      PROVE  /\ r.sync = e.id /\ r.generation = e.id /\ r.edge \in Edges /\ r.edge[3] = e.key
             /\ r.w \in RowWeights /\ r.op \in {"insert", "delete"}
  <2>1. CASE e.old # Absent /\ r = DeleteRow(e)
    BY <1>3, <2>1 DEF DeleteRow
  <2>2. CASE e.new # Absent /\ r = InsertRow(e)
    BY <1>4, <2>2 DEF InsertRow
  <2>3. QED
    BY <1>1, <2>1, <2>2
<1>6. QED
  BY <1>1, <1>5 DEF MutationKey

\* A group holds the mutations of one entry: both cancel, or there is only one
\* and it stays.
LEMMA GroupOf ==
    ASSUME NEW B, Batch(B), NEW e \in B, NEW r \in EdgeRows(e), NEW G,
           G = {q \in Mutations(B) : MutationKey(q) = MutationKey(r)}
    PROVE  NormalizeGroup(G) = IF Cancels(e) THEN {} ELSE {r}
<1>1. e \in Entry
  BY DEF Batch
<1>2. G = {q \in EdgeRows(e) : q.edge = r.edge}
  <2>1. ASSUME NEW q \in Mutations(B), MutationKey(q) = MutationKey(r) PROVE q \in EdgeRows(e) /\ q.edge = r.edge
    <3>1. PICK f \in B : q \in EdgeRows(f)
      BY DEF Mutations
    <3>2. f \in Entry
      BY DEF Batch
    <3>3. MutationKey(q) = <<f.id, q.edge>> /\ MutationKey(r) = <<e.id, r.edge>>
      BY <1>1, <3>1, <3>2, RowsOf
    <3>4. <<f.id, q.edge>> = <<e.id, r.edge>>
      BY <2>1, <3>3, Zenon
    <3>5. f.id = e.id /\ q.edge = r.edge
      BY <3>4
    <3>6. QED
      BY <3>1, <3>5 DEF Batch
  <2>2. ASSUME NEW q \in EdgeRows(e), q.edge = r.edge PROVE q \in Mutations(B) /\ MutationKey(q) = MutationKey(r)
    <3>1. q \in Mutations(B)
      BY DEF Mutations
    <3>2. MutationKey(q) = <<e.id, q.edge>> /\ MutationKey(r) = <<e.id, r.edge>>
      BY <1>1, RowsOf
    <3>3. QED
      BY <2>2, <3>1, <3>2
  <2>3. QED
    BY <2>1, <2>2
<1>3. CASE Cancels(e)
  <2>1. PICK d : d = DeleteRow(e)
    OBVIOUS
  <2>2. PICK i : i = InsertRow(e)
    OBVIOUS
  <2>3. d.op = "delete" /\ i.op = "insert" /\ d.edge = i.edge
    BY <1>3, <2>1, <2>2 DEF DeleteRow, InsertRow, Cancels
  <2>4. \A q : q \in EdgeRows(e) <=> q = d \/ q = i
    BY <1>1, <1>3, <2>1, <2>2, RowsOf DEF Cancels
  <2>5. G = {d, i} /\ d # i
    BY <1>2, <2>3, <2>4
  <2>6. Cardinality({d, i}) = 2
    <3>1. IsFiniteSet({d}) /\ Cardinality({d}) = 1
      BY FS_Singleton
    <3>2. Cardinality({d} \cup {i}) = Cardinality({d}) + 1
      BY <2>5, <3>1, FS_AddElement
    <3>3. {d} \cup {i} = {d, i}
      OBVIOUS
    <3>4. QED
      BY <3>1, <3>2, <3>3
  <2>7. {q.op : q \in {d, i}} = {"insert", "delete"}
    BY <2>3
  <2>8. CancelsPair(G)
    BY <2>5, <2>6, <2>7 DEF CancelsPair
  <2>9. QED
    BY <1>3, <2>8 DEF NormalizeGroup
<1>4. CASE ~Cancels(e)
  <2>1. ASSUME NEW q \in EdgeRows(e), q.edge = r.edge PROVE q = r
    BY <1>1, <1>4, <2>1, RowsOf DEF Cancels, DeleteRow, InsertRow
  <2>2. G = {r}
    BY <1>2, <2>1
  <2>3. ~CancelsPair(G)
    <3>1. {q.op : q \in G} = {r.op}
      BY <2>2
    <3>2. "insert" # "delete"
      OBVIOUS
    <3>3. {r.op} # {"insert", "delete"}
      BY <3>2
    <3>4. QED
      BY <3>1, <3>3 DEF CancelsPair
  <2>4. Precedes(r, r)
    <3>1. r.w \in Int
      BY <1>1, RowsOf, Stored
    <3>2. QED
      BY <3>1 DEF Precedes
  <2>5. {q \in G : \A p \in G : Precedes(p, q)} = {r}
    BY <2>2, <2>4
  <2>6. QED
    BY <1>4, <2>3, <2>5 DEF NormalizeGroup
<1>5. QED
  BY <1>3, <1>4

\* What normalization leaves: the mutations of the entries that do not cancel.
LEMMA NormalizedIs ==
    ASSUME NEW B, Batch(B), NEW r
    PROVE  r \in Normalize(Mutations(B)) <=> \E e \in B : r \in EdgeRows(e) /\ ~Cancels(e)
<1>1. PICK M : M = Mutations(B)
  OBVIOUS
<1>2. r \in Normalize(M) <=> \E q \in M : r \in NormalizeGroup({p \in M : MutationKey(p) = MutationKey(q)})
  BY DEF Normalize
<1>3. ASSUME NEW q \in M, r \in NormalizeGroup({p \in M : MutationKey(p) = MutationKey(q)})
      PROVE  \E e \in B : r \in EdgeRows(e) /\ ~Cancels(e)
  <2>1. PICK e \in B : q \in EdgeRows(e)
    BY <1>1 DEF Mutations
  <2>2. NormalizeGroup({p \in M : MutationKey(p) = MutationKey(q)}) = IF Cancels(e) THEN {} ELSE {q}
    BY <1>1, <2>1, GroupOf
  <2>3. QED
    BY <1>3, <2>1, <2>2
<1>4. ASSUME NEW e \in B, r \in EdgeRows(e), ~Cancels(e) PROVE r \in Normalize(M)
  <2>1. NormalizeGroup({p \in M : MutationKey(p) = MutationKey(r)}) = {r}
    BY <1>1, <1>4, GroupOf
  <2>2. r \in M
    BY <1>1, <1>4 DEF Mutations
  <2>3. QED
    BY <1>2, <2>1, <2>2
<1>5. QED
  BY <1>1, <1>2, <1>3, <1>4

\* Among some nodes there is a least and a greatest one.
LEMMA NodeExtrema ==
    ASSUME NEW C \in SUBSET Nodes, C # {}
    PROVE  /\ Max(C) \in C /\ \A j \in C : Max(C) >= j
           /\ Min(C) \in C /\ \A j \in C : Min(C) <= j
<1>1. 0 \in Int /\ NodeCount - 1 \in Int
  BY LayeredAssumption
<1>2. IsFiniteSet(Nodes) /\ Nodes \subseteq Int
  BY <1>1, FS_Interval DEF Nodes
<1>3. IsFiniteSet(C) /\ C \in SUBSET Int
  BY <1>2, FS_Subset
<1>4. QED
  BY <1>3, MaxProperty, MinProperty

\* Among some indexes there is a least one.
LEMMA IndexMin ==
    ASSUME NEW n \in Nat, NEW C \in SUBSET (1..n), C # {}
    PROVE  Min(C) \in C /\ \A j \in C : Min(C) <= j
<1>1. IsFiniteSet(1..n) /\ 1..n \subseteq Int
  BY FS_Interval
<1>2. IsFiniteSet(C) /\ C \in SUBSET Int
  BY <1>1, FS_Subset
<1>3. QED
  BY <1>2, MinProperty

\* The segment of a batch: its edges, its header and its weights.
LEMMA SegmentIs ==
    ASSUME NEW B, Batch(B), NEW N, N = Normalize(Mutations(B)), N # {}, NEW g, g = SegmentOf(N)
    PROVE  /\ Segment(g) /\ \E e \in B : g.wm = e.id
           /\ \A x : x \in g.ins <=> Inserts(B, x)
           /\ \A x : x \in g.del <=> Deletes(B, x)
<1>1. \A r : r \in N <=> \E e \in B : r \in EdgeRows(e) /\ ~Cancels(e)
  BY NormalizedIs
<1>2. \A e \in B : e \in Entry /\ e.id \in 1..MaxEntries
  BY DEF Batch, Entry
<1>3. ASSUME NEW r \in N
      PROVE  /\ r.edge \in Edges /\ r.edge[1] \in Nodes /\ r.w \in RowWeights
             /\ r.op \in {"insert", "delete"} /\ \E e \in B : r.sync = e.id
  <2>1. PICK e \in B : r \in EdgeRows(e)
    BY <1>1
  <2>2. r.edge \in Edges /\ r.w \in RowWeights /\ r.op \in {"insert", "delete"} /\ r.sync = e.id
    BY <1>2, <2>1, RowsOf
  <2>3. QED
    BY <2>2, EdgeFacts
<1>4. PICK ids : ids = {r.sync : r \in N}
  OBVIOUS
<1>5. PICK ins : ins = {r \in N : r.op = "insert"}
  OBVIOUS
<1>6. PICK sources : sources = {r.edge[1] : r \in N}
  OBVIOUS
<1> DEFINE heavy(x) == {r \in ins : r.edge = x /\ r.w # NoWeight}
<1>7. /\ g.wm = Max(ids) /\ g.lo = Min(sources) /\ g.hi = Max(sources) + 1
      /\ g.ins = {r.edge : r \in ins} /\ g.del = {r.edge : r \in N \ ins}
      /\ g.wt = [x \in Edges |-> IF heavy(x) = {} THEN NoWeight
                                 ELSE (CHOOSE r \in heavy(x) : \A q \in heavy(x) : q.sync <= r.sync).w]
  BY <1>4, <1>5, <1>6 DEF SegmentOf
<1>8. NodeCount \in Nat \ {0} /\ MaxEntries \in Nat
  BY LayeredAssumption
<1>9. g.wm \in ids /\ g.wm \in 1..MaxEntries /\ \E e \in B : g.wm = e.id
  <2>1. ids \in SUBSET (1..MaxEntries) /\ ids # {}
    BY <1>2, <1>3, <1>4
  <2>2. Max(ids) \in ids
    BY <1>8, <2>1, IndexMax
  <2>3. g.wm \in ids /\ g.wm \in 1..MaxEntries
    BY <1>7, <2>1, <2>2
  <2>4. PICK r \in N : g.wm = r.sync
    BY <1>4, <2>3
  <2>5. QED
    BY <1>3, <2>3, <2>4
<1>10. /\ g.lo \in Nodes /\ g.hi \in 1..NodeCount /\ g.lo < g.hi
       /\ \A r \in N : r.edge[1] \in Sources(g)
  <2>1. sources \in SUBSET Nodes /\ sources # {}
    BY <1>3, <1>6
  <2>2. PICK lo \in sources : lo = Min(sources) /\ \A j \in sources : lo <= j
    BY <2>1, NodeExtrema
  <2>3. PICK hi \in sources : hi = Max(sources) /\ \A j \in sources : hi >= j
    BY <2>1, NodeExtrema
  <2>4. lo \in 0..(NodeCount - 1) /\ hi \in 0..(NodeCount - 1) /\ lo <= hi
    BY <2>1, <2>2, <2>3 DEF Nodes
  <2>5. g.lo = lo /\ g.hi = hi + 1
    BY <1>7, <2>2, <2>3
  <2>6. \A j \in sources : j \in lo..hi
    BY <1>8, <2>1, <2>2, <2>3 DEF Nodes
  <2>7. Sources(g) = lo..hi
    BY <1>8, <2>4, <2>5 DEF Sources
  <2>8. g.lo \in Nodes /\ g.hi \in 1..NodeCount /\ g.lo < g.hi
    BY <1>8, <2>4, <2>5 DEF Nodes
  <2>9. \A r \in N : r.edge[1] \in Sources(g)
    BY <1>6, <2>6, <2>7
  <2>10. QED
    BY <2>8, <2>9
<1>11. ASSUME NEW x PROVE x \in g.ins <=> Inserts(B, x)
  <2>1. ASSUME NEW r \in ins, x = r.edge PROVE Inserts(B, x)
    <3>1. PICK e \in B : r \in EdgeRows(e) /\ ~Cancels(e)
      BY <1>1, <1>5
    <3>2. e.new # Absent /\ r = InsertRow(e)
      BY <1>2, <1>5, <3>1, RowsOf DEF DeleteRow
    <3>3. QED
      BY <2>1, <3>1, <3>2 DEF Inserts, InsertRow
  <2>2. ASSUME NEW e \in B, ~Cancels(e), e.new # Absent, x = EdgeOf(e.key, e.new) PROVE x \in g.ins
    <3>1. PICK r : r = InsertRow(e)
      OBVIOUS
    <3>2. r \in EdgeRows(e) /\ r.op = "insert" /\ r.edge = x
      BY <1>2, <2>2, <3>1, RowsOf DEF InsertRow
    <3>3. r \in ins
      BY <1>1, <1>5, <2>2, <3>2
    <3>4. QED
      BY <1>7, <3>2, <3>3
  <2>3. QED
    BY <1>7, <2>1, <2>2 DEF Inserts
<1>12. ASSUME NEW x PROVE x \in g.del <=> Deletes(B, x)
  <2>1. ASSUME NEW r \in N \ ins, x = r.edge PROVE Deletes(B, x)
    <3>1. PICK e \in B : r \in EdgeRows(e) /\ ~Cancels(e)
      BY <1>1
    <3>2. e.old # Absent /\ r = DeleteRow(e)
      BY <1>2, <1>5, <3>1, RowsOf DEF InsertRow
    <3>3. QED
      BY <2>1, <3>1, <3>2 DEF Deletes, DeleteRow
  <2>2. ASSUME NEW e \in B, ~Cancels(e), e.old # Absent, x = EdgeOf(e.key, e.old) PROVE x \in g.del
    <3>1. PICK r : r = DeleteRow(e)
      OBVIOUS
    <3>2. r \in EdgeRows(e) /\ r.op = "delete" /\ r.edge = x
      BY <1>2, <2>2, <3>1, RowsOf DEF DeleteRow
    <3>3. r \in N \ ins
      BY <1>1, <1>5, <2>2, <3>2
    <3>4. QED
      BY <1>7, <3>2, <3>3
  <2>3. QED
    BY <1>7, <2>1, <2>2 DEF Deletes
<1>13. \A x \in g.ins \cup g.del : \E r \in N : x = r.edge
  BY <1>5, <1>7
<1>14. \A x \in g.ins \cup g.del : x \in Edges /\ x[1] \in Sources(g)
  BY <1>3, <1>10, <1>13
<1>15. ASSUME NEW x \in Edges
       PROVE  /\ g.wt[x] \in StoredWeights \cup {NoWeight}
              /\ x \in g.ins => g.wt[x] \in StoredWeights
  <2>1. PICK H : H = heavy(x)
    OBVIOUS
  <2>2. g.wt[x] = IF H = {} THEN NoWeight ELSE (CHOOSE r \in H : \A q \in H : q.sync <= r.sync).w
    BY <1>7, <2>1
  <2>3. H \in SUBSET N /\ \A r \in H : r.sync \in 1..MaxEntries /\ r.w \in RowWeights
    BY <1>2, <1>3, <1>5, <2>1
  <2>4. CASE H # {}
    <3>1. PICK S : S = {r.sync : r \in H}
      OBVIOUS
    <3>2. S \in SUBSET (1..MaxEntries) /\ S # {}
      BY <2>3, <2>4, <3>1
    <3>3. Max(S) \in S /\ \A s \in S : Max(S) >= s
      BY <1>8, <3>2, IndexMax
    <3>4. PICK r \in H : r.sync = Max(S)
      BY <3>1, <3>3
    <3>5. \A q \in H : q.sync <= r.sync
      BY <2>3, <3>1, <3>3, <3>4
    <3>6. (CHOOSE p \in H : \A q \in H : q.sync <= p.sync) \in H
      BY <3>5
    <3>7. QED
      BY <2>2, <2>3, <2>4, <3>6, Stored
  <2>5. CASE H = {}
    <3>1. ASSUME x \in g.ins PROVE NoWeight \in StoredWeights
      <4>1. PICK r \in ins : r.edge = x
        BY <1>7, <3>1
      <4>2. r.w = NoWeight /\ r.w \in RowWeights
        BY <1>3, <1>5, <2>1, <2>5, <4>1
      <4>3. QED
        BY <4>2, Stored
    <3>2. QED
      BY <2>2, <2>5, <3>1
  <2>6. QED
    BY <2>4, <2>5
<1>16. SegmentShaped(g)
  <2>1. \A x \in g.ins : g.wt[x] \in StoredWeights
    BY <1>14, <1>15
  <2>2. QED
    BY <1>10, <1>14, <2>1 DEF SegmentShaped
<1>17. g.wt \in [Edges -> StoredWeights \cup {NoWeight}]
  <2>1. g.wt = [x \in Edges |-> g.wt[x]]
    BY <1>7
  <2>2. QED
    BY <1>15, <2>1
<1>18. Segment(g)
  BY <1>9, <1>10, <1>14, <1>16, <1>17 DEF Segment
<1>19. QED
  BY <1>9, <1>11, <1>12, <1>18

----------------------------------------------------------------------------
\* Ranges of source nodes.

Within(h, r) == r.lo <= h.lo /\ h.hi <= r.hi

\* The headers of segments and chunks are ranges that are not empty.
LEMMA PartFacts ==
    ASSUME IInv, NEW h \in segments \cup chunks
    PROVE  /\ h.lo \in Nodes /\ h.hi \in 1..NodeCount /\ h.lo < h.hi
           /\ h.lo \in Int /\ h.hi \in Int
<1>1. h.lo \in Nodes /\ h.hi \in 1..NodeCount /\ h.lo < h.hi
  BY DEF IInv, TypeOK, SegmentsShaped, SegmentShaped
<1>2. QED
  BY <1>1, LayeredAssumption DEF Nodes

\* The bounds of a range.
LEMMA RangeFacts ==
    ASSUME NEW r \in Ranges
    PROVE  /\ r.lo \in Nodes /\ r.hi \in 1..NodeCount /\ r.lo < r.hi
           /\ r.lo \in Int /\ r.hi \in Int /\ r = [lo |-> r.lo, hi |-> r.hi]
<1>1. r \in [lo : Nodes, hi : 1..NodeCount] /\ r.lo < r.hi
  BY DEF Ranges
<1>2. QED
  BY <1>1, LayeredAssumption DEF Nodes

\* Inclusion of ranges is a matter of their bounds.
LEMMA RangeOrder ==
    ASSUME NEW h, NEW r, h.lo \in Int, h.hi \in Int, r.lo \in Int, r.hi \in Int, Within(h, r)
    PROVE  Sources(h) \subseteq Sources(r)
<1>1. PICK a \in Int, b \in Int, c \in Int, d \in Int : a = h.lo /\ b = h.hi /\ c = r.lo /\ d = r.hi
  OBVIOUS
<1>2. c <= a /\ b <= d
  BY <1>1 DEF Within
<1>3. a..(b - 1) \subseteq c..(d - 1)
  BY <1>2
<1>4. QED
  BY <1>1, <1>3 DEF Sources

\* A header passes over node i from the left to the right.
Inside(i) == \E g \in segments : g.lo < i /\ i < g.hi

LEMMA DirtyIs ==
    ASSUME NEW r
    PROVE  r \in DirtyRanges <=> /\ r \in Ranges /\ Sources(r) \subseteq DirtySources
                                 /\ \A i \in r.lo..r.hi : Inside(i) <=> i \notin {r.lo, r.hi}
BY DEF DirtyRanges, Inside

\* Dirty ranges that overlap are the same.
LEMMA DirtyDisjoint ==
    ASSUME NEW r \in DirtyRanges, NEW q \in DirtyRanges, Overlaps(r, q)
    PROVE  r = q
<1>1. /\ r.lo \in Int /\ r.hi \in Int /\ r.lo < r.hi /\ r = [lo |-> r.lo, hi |-> r.hi]
      /\ q.lo \in Int /\ q.hi \in Int /\ q.lo < q.hi /\ q = [lo |-> q.lo, hi |-> q.hi]
  BY DirtyIs, RangeFacts
<1>2. r.lo < q.hi /\ q.lo < r.hi
  BY DEF Overlaps
<1>3. /\ \A i \in r.lo..r.hi : Inside(i) <=> i \notin {r.lo, r.hi}
      /\ \A i \in q.lo..q.hi : Inside(i) <=> i \notin {q.lo, q.hi}
  BY DirtyIs
<1>4. ~Inside(r.lo) /\ ~Inside(r.hi) /\ ~Inside(q.lo) /\ ~Inside(q.hi)
  BY <1>1, <1>3
<1>5. ~(r.lo < q.lo)
  BY <1>1, <1>2, <1>3, <1>4
<1>6. ~(q.lo < r.lo)
  BY <1>1, <1>2, <1>3, <1>4
<1>7. ~(q.hi < r.hi)
  BY <1>1, <1>2, <1>3, <1>4
<1>8. ~(r.hi < q.hi)
  BY <1>1, <1>2, <1>3, <1>4
<1>9. r.lo = q.lo /\ r.hi = q.hi
  BY <1>1, <1>5, <1>6, <1>7, <1>8
<1>10. QED
  BY <1>1, <1>9

\* A segment lies in the dirty range between the nearest nodes on either side of
\* it that no header passes over.
LEMMA DirtyCover ==
    ASSUME IInv, NEW g \in segments
    PROVE  \E r \in DirtyRanges : Within(g, r)
<1>1. NodeCount \in Nat \ {0}
  BY LayeredAssumption
<1>2. \A h \in segments : /\ h.lo \in 0..(NodeCount - 1) /\ h.hi \in 1..NodeCount /\ h.lo < h.hi
                          /\ h.lo \in Int /\ h.hi \in Int
  BY PartFacts DEF Nodes
<1>3. ~Inside(0) /\ ~Inside(NodeCount)
  BY <1>1, <1>2 DEF Inside
<1>4. PICK left : left = {i \in 0..g.lo : ~Inside(i)}
  OBVIOUS
<1>5. PICK right : right = {i \in g.hi..NodeCount : ~Inside(i)}
  OBVIOUS
<1>6. PICK lo \in left : \A i \in left : lo >= i
  <2>1. left \in SUBSET Nodes /\ left # {}
    BY <1>1, <1>2, <1>3, <1>4 DEF Nodes
  <2>2. QED
    BY <2>1, NodeExtrema
<1>7. PICK hi \in right : \A i \in right : hi <= i
  <2>1. right \in SUBSET (1..NodeCount) /\ right # {}
    BY <1>1, <1>2, <1>3, <1>5
  <2>2. Min(right) \in right /\ \A i \in right : Min(right) <= i
    BY <1>1, <2>1, IndexMin
  <2>3. QED
    BY <2>2
<1>8. lo \in 0..g.lo /\ ~Inside(lo) /\ \A i \in 0..g.lo : lo < i => Inside(i)
  BY <1>2, <1>4, <1>6
<1>9. hi \in g.hi..NodeCount /\ ~Inside(hi) /\ \A i \in g.hi..NodeCount : i < hi => Inside(i)
  BY <1>1, <1>2, <1>5, <1>7
<1>10. lo \in Int /\ hi \in Int /\ lo <= g.lo /\ g.hi <= hi /\ lo < hi /\ lo \in Nodes /\ hi \in 1..NodeCount
  BY <1>1, <1>2, <1>8, <1>9 DEF Nodes
<1>11. PICK r : r = [lo |-> lo, hi |-> hi]
  OBVIOUS
<1>12. r.lo = lo /\ r.hi = hi /\ r \in Ranges /\ Within(g, r)
  BY <1>10, <1>11 DEF Ranges, Within
<1>13. ASSUME NEW i \in lo..hi PROVE Inside(i) <=> i \notin {lo, hi}
  <2>1. CASE i \in {lo, hi}
    BY <1>8, <1>9, <2>1
  <2>2. CASE lo < i /\ i < hi /\ i <= g.lo
    BY <1>2, <1>8, <2>2
  <2>3. CASE lo < i /\ i < hi /\ g.hi <= i
    BY <1>1, <1>2, <1>9, <2>3
  <2>4. CASE g.lo < i /\ i < g.hi
    BY <1>10, <1>2, <2>4 DEF Inside
  <2>5. QED
    BY <1>2, <1>10, <2>1, <2>2, <2>3, <2>4
<1>14. ASSUME NEW i \in Sources(r) PROVE i \in DirtySources
  <2>1. i \in Int /\ lo <= i /\ i < hi
    BY <1>10, <1>12, <1>14 DEF Sources
  <2>2. PICK h \in segments : h.lo <= i /\ i < h.hi
    <3>1. CASE g.lo <= i /\ i < g.hi
      BY <3>1
    <3>2. CASE i < g.lo
      <4>1. PICK j \in 0..g.lo : j = i + 1 /\ lo < j
        BY <1>2, <1>8, <1>10, <2>1, <3>2
      <4>2. PICK h \in segments : h.lo < j /\ j < h.hi
        BY <1>8, <4>1 DEF Inside
      <4>3. QED
        BY <1>2, <2>1, <4>1, <4>2
    <3>3. CASE g.hi <= i
      <4>1. Inside(i)
        BY <1>1, <1>2, <1>9, <1>10, <2>1, <3>3
      <4>2. QED
        BY <1>2, <2>1, <4>1 DEF Inside
    <3>4. QED
      BY <1>2, <2>1, <3>1, <3>2, <3>3
  <2>3. i \in Sources(h)
    BY <1>2, <2>1, <2>2 DEF Sources
  <2>4. QED
    BY <2>3 DEF DirtySources
<1>15. r \in DirtyRanges
  BY <1>12, <1>13, <1>14, DirtyIs
<1>16. QED
  BY <1>12, <1>15

\* Joining a chunk with the ranges it cuts leaves ranges that do not overlap and
\* still hold what they held.
Widened(c) ==
    LET joined == Cut(c) \cup {RangeOf(c)}
    IN  (expanding \ Cut(c)) \cup
            {[lo |-> Min({r.lo : r \in joined}), hi |-> Max({r.hi : r \in joined})]}

LEMMA WidenedIs ==
    ASSUME IInv, NEW c \in chunks, NEW E, E = Widened(c)
    PROVE  /\ E \subseteq Ranges
           /\ \A r, q \in E : Overlaps(r, q) => r = q
           /\ \A r \in expanding : \E q \in E : Within(r, q)
<1>1. PICK joined : joined = Cut(c) \cup {RangeOf(c)}
  OBVIOUS
<1>2. PICK u : u = [lo |-> Min({r.lo : r \in joined}), hi |-> Max({r.hi : r \in joined})]
  OBVIOUS
<1>3. E = (expanding \ Cut(c)) \cup {u}
  BY <1>1, <1>2 DEF Widened
<1>4. c.lo \in Nodes /\ c.hi \in 1..NodeCount /\ c.lo < c.hi /\ c.lo \in Int /\ c.hi \in Int
  BY PartFacts
<1>5. PICK whole \in Ranges : whole = RangeOf(c) /\ whole.lo = c.lo /\ whole.hi = c.hi
  <2>1. PICK r : r = [lo |-> c.lo, hi |-> c.hi]
    OBVIOUS
  <2>2. r \in Ranges /\ r.lo = c.lo /\ r.hi = c.hi
    BY <1>4, <2>1 DEF Ranges
  <2>3. r = RangeOf(c)
    BY <2>1 DEF RangeOf
  <2>4. QED
    BY <2>2, <2>3
<1>6. expanding \subseteq Ranges /\ Cut(c) \subseteq expanding
  BY DEF IInv, TypeOK, Cut
<1>7. \A r \in joined : r \in Ranges /\ (r \in Cut(c) \/ r = whole)
  BY <1>5, <1>6, <1>1
<1>8. \A r \in joined \cup expanding : /\ r.lo \in Nodes /\ r.hi \in 1..NodeCount /\ r.lo < r.hi
                                       /\ r.lo \in Int /\ r.hi \in Int
  BY <1>6, <1>7, RangeFacts
<1>9. PICK lows : lows = {r.lo : r \in joined}
  OBVIOUS
<1>10. PICK highs : highs = {r.hi : r \in joined}
  OBVIOUS
<1>11. u.lo = Min(lows) /\ u.hi = Max(highs) /\ whole \in joined
  BY <1>5, <1>9, <1>10, <1>1, <1>2
<1>12. PICK first \in joined : u.lo = first.lo /\ \A r \in joined : first.lo <= r.lo
  <2>1. lows \in SUBSET Nodes /\ lows # {}
    BY <1>8, <1>9, <1>11
  <2>2. Min(lows) \in lows /\ \A j \in lows : Min(lows) <= j
    BY <2>1, NodeExtrema
  <2>3. QED
    BY <1>9, <1>11, <2>2
<1>13. PICK last \in joined : u.hi = last.hi /\ \A r \in joined : last.hi >= r.hi
  <2>1. highs \in SUBSET (1..NodeCount) /\ highs # {} /\ NodeCount \in Nat
    BY <1>8, <1>10, <1>11, LayeredAssumption
  <2>2. Max(highs) \in highs /\ \A j \in highs : Max(highs) >= j
    BY <2>1, IndexMax
  <2>3. QED
    BY <1>10, <1>11, <2>2
<1>14. u.lo \in Nodes /\ u.hi \in 1..NodeCount /\ u.lo \in Int /\ u.hi \in Int /\ u.lo <= c.lo /\ c.hi <= u.hi
  BY <1>5, <1>8, <1>11, <1>12, <1>13
<1>15. u \in Ranges
  <2>1. u.lo < u.hi
    BY <1>4, <1>14
  <2>2. u = [lo |-> u.lo, hi |-> u.hi]
    BY <1>2
  <2>3. QED
    BY <1>14, <2>1, <2>2 DEF Ranges
<1>16. ASSUME NEW r \in expanding, r \notin Cut(c), Overlaps(r, u) PROVE FALSE
  <2>1. r.lo < u.hi /\ u.lo < r.hi /\ r.lo \in Int /\ r.hi \in Int /\ r.lo < r.hi
    BY <1>8, <1>16 DEF Overlaps
  <2>2. c.hi <= r.lo \/ r.hi <= c.lo
    BY <1>4, <1>16, <2>1 DEF Cut, Overlaps
  <2>3. \A k \in Cut(c) : k \in expanding /\ k.lo < c.hi /\ c.lo < k.hi
    BY DEF Cut, Overlaps
  <2>4. \A k \in Cut(c) : ~Overlaps(r, k)
    BY <1>16, <2>3 DEF IInv, RangesFine
  <2>5. CASE c.hi <= r.lo
    <3>1. last # whole /\ last.hi \in Int /\ last.lo \in Int
      BY <1>4, <1>5, <1>8, <1>13, <2>1, <2>5
    <3>2. last \in Cut(c)
      BY <1>7, <3>1
    <3>3. last.lo < r.hi /\ r.lo < last.hi
      BY <1>4, <1>13, <2>1, <2>3, <2>5, <3>1, <3>2
    <3>4. QED
      BY <2>4, <3>2, <3>3 DEF Overlaps
  <2>6. CASE r.hi <= c.lo
    <3>1. first # whole /\ first.hi \in Int /\ first.lo \in Int
      BY <1>4, <1>5, <1>8, <1>12, <2>1, <2>6
    <3>2. first \in Cut(c)
      BY <1>7, <3>1
    <3>3. first.lo < r.hi /\ r.lo < first.hi
      BY <1>4, <1>12, <2>1, <2>3, <2>6, <3>1, <3>2
    <3>4. QED
      BY <2>4, <3>2, <3>3 DEF Overlaps
  <2>7. QED
    BY <2>2, <2>5, <2>6
<1>17. ASSUME NEW r \in E, NEW q \in E, Overlaps(r, q) PROVE r = q
  <2>1. Overlaps(q, r)
    BY <1>17 DEF Overlaps
  <2>2. CASE r \in expanding \ Cut(c) /\ q \in expanding \ Cut(c)
    BY <1>17, <2>2 DEF IInv, RangesFine
  <2>3. QED
    BY <1>16, <1>17, <1>3, <2>1, <2>2
<1>18. ASSUME NEW r \in expanding PROVE \E q \in E : Within(r, q)
  <2>1. CASE r \in Cut(c)
    <3>1. u.lo <= r.lo /\ r.hi <= u.hi
      BY <1>8, <1>12, <1>13, <1>1, <2>1
    <3>2. QED
      BY <1>3, <3>1 DEF Within
  <2>2. CASE r \notin Cut(c)
    BY <1>8, <1>3, <2>2 DEF Within
  <2>3. QED
    BY <2>1, <2>2
<1>19. QED
  BY <1>6, <1>15, <1>17, <1>18, <1>3

----------------------------------------------------------------------------
\* Compaction.

\* The chunks a rewrite leaves are typed and replace different nodes.
LEMMA RewrittenIs ==
    ASSUME IInv
    PROVE  Chunks(RewrittenChunks)
<1>1. Segments(segments) /\ Chunks(chunks) /\ base \in BaseType
  BY LayersTyped
<1>2. PICK R : R = expanding
  OBVIOUS
<1>3. PICK kept : kept = {c \in chunks : Cut(c) = {}}
  OBVIOUS
<1>4. RewrittenChunks = kept \cup {ChunkOf(r) : r \in R}
  BY <1>2, <1>3 DEF RewrittenChunks
<1>5. ASSUME NEW x \in Edges PROVE Materialized[x] \in StoredWeights \cup {NoEdge}
  <2>1. OutView(x) \in StoredWeights \cup {NoEdge}
    BY <1>1, ReadType, Reads
  <2>2. QED
    BY <2>1, Stored DEF Materialized
<1>6. ASSUME NEW r \in R PROVE Chunk(ChunkOf(r)) /\ ChunkOf(r).lo = r.lo /\ ChunkOf(r).hi = r.hi
  <2>1. r \in Ranges
    BY <1>2 DEF IInv, TypeOK
  <2>2. r.lo \in Nodes /\ r.hi \in 1..NodeCount /\ r.lo < r.hi
    BY <2>1, RangeFacts
  <2>3. PICK c : c = ChunkOf(r)
    OBVIOUS
  <2>4. c.lo = r.lo /\ c.hi = r.hi
        /\ c.edges = [x \in Edges |-> IF x[1] \in Sources(r) THEN Materialized[x] ELSE NoEdge]
    BY <2>3 DEF ChunkOf
  <2>5. c.edges \in BaseType
    BY <1>5, <2>4 DEF BaseType
  <2>6. QED
    BY <2>2, <2>3, <2>4, <2>5 DEF Chunk
<1>7. \A c \in RewrittenChunks : Chunk(c)
  BY <1>1, <1>3, <1>4, <1>6 DEF Chunks
<1>8. ASSUME NEW c \in RewrittenChunks, NEW d \in RewrittenChunks, Overlaps(c, d) PROVE c = d
  <2>1. CASE c \in kept /\ d \in kept
    BY <1>1, <1>3, <1>8, <2>1 DEF Chunks
  <2>2. ASSUME NEW r \in R, d = ChunkOf(r), c \in kept PROVE FALSE
    BY <1>2, <1>3, <1>6, <1>8, <2>2 DEF Overlaps, Cut
  <2>3. ASSUME NEW r \in R, c = ChunkOf(r), d \in kept PROVE FALSE
    BY <1>2, <1>3, <1>6, <1>8, <2>3 DEF Overlaps, Cut
  <2>4. ASSUME NEW r \in R, NEW q \in R, c = ChunkOf(r), d = ChunkOf(q) PROVE c = d
    <3>1. Overlaps(r, q)
      BY <1>6, <1>8, <2>4 DEF Overlaps
    <3>2. r = q
      BY <1>2, <3>1 DEF IInv, RangesFine
    <3>3. QED
      BY <2>4, <3>2
  <2>5. QED
    BY <1>4, <2>1, <2>2, <2>3, <2>4
<1>9. QED
  BY <1>7, <1>8 DEF Chunks

\* The segment a compaction leaves is typed and carries the manifest's watermark.
LEMMA CompactedIs ==
    ASSUME IInv, segments # {}, NEW s, s = CompactedSegment
    PROVE  /\ Segment(s) /\ s.wm = watermark
           /\ \A x \in Edges : x \in s.ins <=> x[1] \in DirtySources /\ OutView(x) # NoEdge /\ base[x] # OutView(x)
           /\ \A x \in Edges : x \in s.del <=> x[1] \in DirtySources /\ OutView(x) = NoEdge /\ base[x] # NoEdge
           /\ \A x \in s.ins : s.wt[x] = OutView(x)
<1>1. Segments(segments) /\ Chunks(chunks) /\ base \in BaseType
  BY LayersTyped
<1>2. PICK lows : lows = {g.lo : g \in segments}
  OBVIOUS
<1>3. PICK highs : highs = {g.hi : g \in segments}
  OBVIOUS
<1>4. /\ s.wm = watermark /\ s.lo = Min(lows) /\ s.hi = Max(highs)
      /\ s.ins = {x \in Edges : x[1] \in DirtySources /\ OutView(x) # NoEdge /\ base[x] # OutView(x)}
      /\ s.del = {x \in Edges : x[1] \in DirtySources /\ base[x] # NoEdge /\ OutView(x) = NoEdge}
      /\ s.wt = [x \in Edges |-> IF x \in s.ins THEN OutView(x) ELSE NoWeight]
  BY <1>2, <1>3 DEF CompactedSegment
<1>5. \A g \in segments : /\ g.lo \in Nodes /\ g.hi \in 1..NodeCount /\ g.lo < g.hi
                          /\ g.lo \in Int /\ g.hi \in Int
  BY PartFacts
<1>6. PICK lo \in lows : lo = Min(lows) /\ \A j \in lows : lo <= j
  <2>1. lows \in SUBSET Nodes /\ lows # {}
    BY <1>2, <1>5
  <2>2. QED
    BY <2>1, NodeExtrema
<1>7. PICK hi \in highs : hi = Max(highs) /\ \A j \in highs : hi >= j
  <2>1. highs \in SUBSET (1..NodeCount) /\ highs # {} /\ NodeCount \in Nat
    BY <1>3, <1>5, LayeredAssumption
  <2>2. QED
    BY <2>1, IndexMax
<1>8. s.lo = lo /\ s.hi = hi /\ lo \in Nodes /\ hi \in 1..NodeCount /\ lo \in Int /\ hi \in Int
  BY <1>2, <1>3, <1>4, <1>5, <1>6, <1>7
<1>9. \A g \in segments : lo <= g.lo /\ g.hi <= hi
  <2>1. \A g \in segments : lo <= g.lo /\ hi >= g.hi
    BY <1>2, <1>3, <1>6, <1>7
  <2>2. QED
    BY <1>5, <1>8, <2>1
<1>10. s.lo < s.hi
  <2>1. PICK g \in segments : TRUE
    OBVIOUS
  <2>2. lo <= g.lo /\ g.lo < g.hi /\ g.hi <= hi /\ g.lo \in Int /\ g.hi \in Int
    BY <1>5, <1>9
  <2>3. QED
    BY <1>8, <2>2
<1>11. DirtySources \subseteq Sources(s)
  <2>1. ASSUME NEW g \in segments, NEW n \in Sources(g) PROVE n \in Sources(s)
    <3>1. lo <= g.lo /\ g.hi <= hi /\ g.lo \in Int /\ g.hi \in Int
      BY <1>5, <1>9
    <3>2. n \in g.lo..(g.hi - 1)
      BY DEF Sources
    <3>3. n \in lo..(hi - 1)
      BY <1>8, <3>1, <3>2
    <3>4. QED
      BY <1>8, <3>3 DEF Sources
  <2>2. QED
    BY <2>1 DEF DirtySources
<1>12. \A x \in Edges : OutView(x) \in StoredWeights \cup {NoEdge}
  BY <1>1, ReadType, Reads
<1>13. \A x \in s.ins : s.wt[x] = OutView(x) /\ s.wt[x] \in StoredWeights
  BY <1>4, <1>12
<1>14. s.wt \in [Edges -> StoredWeights \cup {NoWeight}]
  BY <1>4, <1>12
<1>15. s.wm \in 1..MaxEntries
  <2>1. PICK g \in segments : TRUE
    OBVIOUS
  <2>2. g.wm \in 1..MaxEntries /\ g.wm <= watermark
    BY DEF IInv, TypeOK, LayersOrdered
  <2>3. lastId \in 0..MaxEntries /\ watermark \in 0..lastId
    BY DEF IInv, TypeOK
  <2>4. QED
    BY <1>4, <2>2, <2>3, LayeredAssumption
<1>16. SegmentShaped(s)
  BY <1>4, <1>10, <1>11, <1>13 DEF SegmentShaped
<1>17. Segment(s)
  BY <1>4, <1>8, <1>14, <1>15, <1>16 DEF Segment
<1>18. QED
  BY <1>4, <1>13, <1>17

\* No segment mentions an edge of a source that is not dirty.
LEMMA CleanUntouched ==
    ASSUME IInv, NEW x \in Edges, x[1] \notin DirtySources
    PROVE  DurableIn(segments, x) = Untouched
<1>1. Segments(segments)
  BY LayersTyped
<1>2. \A g \in segments : x \notin g.ins \cup g.del
  BY DEF IInv, SegmentsShaped, SegmentShaped, DirtySources
<1>3. QED
  BY <1>1, <1>2, DurableIs

\* A merged segment reads like those it replaces.
LEMMA CompactReads ==
    ASSUME IInv, chunks = {}, segments # {}, NEW x \in Edges
    PROVE  LayeredIn({CompactedSegment}, {}, base, x, x) = LayeredIn(segments, {}, base, x, x)
<1>1. Segments(segments) /\ Chunks({}) /\ base \in BaseType
  BY LayersTyped
<1>2. PICK s : s = CompactedSegment
  OBVIOUS
<1>3. /\ Segment(s)
      /\ x \in s.ins <=> x[1] \in DirtySources /\ OutView(x) # NoEdge /\ base[x] # OutView(x)
      /\ x \in s.del <=> x[1] \in DirtySources /\ OutView(x) = NoEdge /\ base[x] # NoEdge
      /\ x \in s.ins => s.wt[x] = OutView(x)
  BY <1>2, CompactedIs
<1>4. Segments({s})
  BY <1>3 DEF Segments
<1>5. PICK d, e, b, o : /\ d = DurableIn(segments, x) /\ e = DurableIn({s}, x)
                        /\ b = base[x] /\ o = OutView(x)
  OBVIOUS
<1>6. ReplacedIn(base, {}, x) = b
  BY <1>1, <1>5, ReplacedIs
<1>7. LayeredIn(segments, {}, base, x, x) =
        IF d = Deleted THEN NoEdge ELSE IF d = Untouched \/ (d = NoWeight /\ b # NoEdge) THEN b ELSE d
  BY <1>5, <1>6 DEF LayeredIn
<1>8. LayeredIn({s}, {}, base, x, x) =
        IF e = Deleted THEN NoEdge ELSE IF e = Untouched \/ (e = NoWeight /\ b # NoEdge) THEN b ELSE e
  BY <1>5, <1>6 DEF LayeredIn
<1>9. o = IF d = Deleted THEN NoEdge ELSE IF d = Untouched \/ (d = NoWeight /\ b # NoEdge) THEN b ELSE d
  BY <1>5, <1>6, Reads DEF LayeredIn
<1>10. d \in StoredWeights \cup {Deleted, Untouched} /\ b \in StoredWeights \cup {NoEdge}
  BY <1>1, <1>5, DurableType DEF BaseType
<1>11. /\ NoEdge \notin StoredWeights /\ Deleted \notin StoredWeights /\ Untouched \notin StoredWeights
       /\ NoEdge # Deleted /\ NoEdge # Untouched /\ Deleted # Untouched
       /\ NoWeight \notin {NoEdge, Deleted, Untouched}
  BY Stored DEF NoEdge, Deleted, Untouched, NoWeight
<1>12. e = IF x \in s.ins THEN o ELSE IF x \in s.del THEN Deleted ELSE Untouched
  <2>1. CASE x \notin s.ins \cup s.del
    BY <1>4, <1>5, <2>1, DurableIs
  <2>2. CASE x \in s.ins \cup s.del
    <3>1. s.wm <= s.wm
      BY <1>3, LayeredAssumption DEF Segment
    <3>2. e = IF x \in s.ins THEN s.wt[x] ELSE Deleted
      BY <1>4, <1>5, <2>2, <3>1, DurableIs
    <3>3. QED
      BY <1>3, <1>5, <2>2, <3>2
  <2>3. QED
    BY <2>1, <2>2
<1>13. CASE x[1] \notin DirtySources
  <2>1. d = Untouched
    BY <1>5, <1>13, CleanUntouched
  <2>2. e = Untouched
    BY <1>3, <1>12, <1>13
  <2>3. QED
    BY <1>2, <1>5, <1>7, <1>8, <2>1, <2>2
<1>14. CASE x[1] \in DirtySources
  <2>1. e = IF o # NoEdge /\ b # o THEN o ELSE IF o = NoEdge /\ b # NoEdge THEN Deleted ELSE Untouched
    BY <1>3, <1>5, <1>12, <1>14
  <2>2. CASE d = Deleted
    <3>1. o = NoEdge
      BY <1>9, <2>2
    <3>2. QED
      BY <1>2, <1>7, <1>8, <1>11, <2>1, <2>2, <3>1
  <2>3. CASE d = Untouched
    <3>1. o = b
      BY <1>9, <1>11, <2>3
    <3>2. e = Untouched
      BY <2>1, <3>1
    <3>3. QED
      BY <1>2, <1>7, <1>8, <1>11, <2>3, <3>2
  <2>4. CASE d \in StoredWeights /\ d # NoWeight
    <3>1. o = d /\ d # NoEdge /\ d # Deleted /\ d # Untouched
      BY <1>9, <1>11, <2>4
    <3>2. LayeredIn(segments, {}, base, x, x) = d
      BY <1>7, <2>4, <3>1
    <3>3. LayeredIn({s}, {}, base, x, x) = d
      BY <1>8, <1>11, <2>1, <2>4, <3>1
    <3>4. QED
      BY <1>2, <3>2, <3>3
  <2>5. CASE d = NoWeight
    <3>1. CASE b = NoEdge
      <4>1. o = NoWeight
        BY <1>9, <1>11, <2>5, <3>1
      <4>2. e = d
        BY <1>11, <2>1, <2>5, <3>1, <4>1
      <4>3. QED
        BY <1>2, <1>7, <1>8, <4>2
    <3>2. CASE b # NoEdge
      <4>1. o = b
        BY <1>9, <1>11, <2>5, <3>2
      <4>2. e = Untouched
        BY <2>1, <3>2, <4>1
      <4>3. QED
        BY <1>2, <1>7, <1>8, <1>11, <2>5, <3>2, <4>2
    <3>3. QED
      BY <3>1, <3>2
  <2>6. QED
    BY <1>10, <2>2, <2>3, <2>4, <2>5
<1>15. QED
  BY <1>13, <1>14

\* The first chunks read like the base and the segments they replace, but for
\* the weight they give an edge without one.
LEMMA RewriteReads ==
    ASSUME IInv, chunks = {}, expanding # {}, NEW x \in Edges
    PROVE  LayeredIn({}, RewrittenChunks, base, x, x) \in {OutView(x), WeightInChunk(OutView(x))}
<1>1. Segments(segments) /\ Chunks(chunks) /\ base \in BaseType
  BY LayersTyped
<1>2. PICK C : C = RewrittenChunks
  OBVIOUS
<1>3. Chunks(C) /\ \A c : c \in C <=> \E r \in expanding : c = ChunkOf(r)
  BY <1>2, RewrittenIs DEF RewrittenChunks
<1>4. Segments({})
  BY DEF Segments
<1>5. DurableIn({}, x) = Untouched
  BY <1>4, DurableIs
<1>6. LayeredIn({}, C, base, x, x) = ReplacedIn(base, C, x)
  BY <1>5 DEF LayeredIn, Deleted, Untouched
<1>7. \A r \in expanding : Sources(ChunkOf(r)) = Sources(r)
  BY DEF ChunkOf, Sources
<1>8. CASE \E r \in expanding : x[1] \in Sources(r)
  <2>1. PICK r \in expanding : x[1] \in Sources(r)
    BY <1>8
  <2>2. PICK c : c = ChunkOf(r)
    OBVIOUS
  <2>3. c \in C /\ x[1] \in Sources(c)
    BY <1>3, <1>7, <2>1, <2>2
  <2>4. ReplacedIn(base, C, x) = c.edges[x]
    BY <1>1, <1>3, <2>3, ReplacedIs
  <2>5. x[1] \in DirtySources
    BY <2>1 DEF IInv, RangesFine
  <2>6. c.edges[x] = WeightInChunk(OutView(x))
    BY <2>1, <2>2, <2>5 DEF ChunkOf, Materialized
  <2>7. QED
    BY <1>2, <1>6, <2>4, <2>6
<1>9. CASE \A r \in expanding : x[1] \notin Sources(r)
  <2>1. x[1] \notin DirtySources
    <3>1. ASSUME NEW g \in segments, x[1] \in Sources(g) PROVE FALSE
      <4>1. PICK r \in expanding : r.lo <= g.lo /\ g.hi <= r.hi
        BY DEF IInv, RangesFine
      <4>2. r \in Ranges /\ g.lo \in Int /\ g.hi \in Int
        BY PartFacts DEF IInv, TypeOK
      <4>3. Sources(g) \subseteq Sources(r)
        BY <4>1, <4>2, RangeFacts, RangeOrder DEF Within
      <4>4. QED
        BY <1>9, <3>1, <4>3
    <3>2. QED
      BY <3>1 DEF DirtySources
  <2>2. DurableIn(segments, x) = Untouched
    BY <2>1, CleanUntouched
  <2>3. \A c \in C : x[1] \notin Sources(c)
    BY <1>3, <1>7, <1>9
  <2>4. ReplacedIn(base, C, x) = base[x]
    BY <1>1, <1>3, <2>3, ReplacedIs
  <2>5. ReplacedIn(base, chunks, x) = base[x]
    BY <1>1, ReplacedIs
  <2>6. OutView(x) = base[x]
    BY <2>2, <2>5, Reads DEF LayeredIn, Deleted, Untouched
  <2>7. QED
    BY <1>2, <1>6, <2>4, <2>6
<1>10. QED
  BY <1>8, <1>9

----------------------------------------------------------------------------
\* The images of a row along the pending entries, of a given log l and table t.

RowIn(l, t, k, p) ==
    LET later == {i \in DOMAIN l : i > p /\ l[i].key = k}
    IN  IF later = {} THEN t[k] ELSE l[Min(later)].old

\* The least element is what Min chooses.
LEMMA MinIs ==
    ASSUME NEW S \in SUBSET Int, NEW m \in S, \A y \in S : m <= y
    PROVE  Min(S) = m
<1>1. Min(S) \in S /\ \A y \in S : Min(S) <= y
  BY DEF Min
<1>2. Min(S) <= m /\ m <= Min(S) /\ Min(S) \in Int /\ m \in Int
  BY <1>1
<1>3. QED
  BY <1>2

\* After p entries a row has the image that its next entry starts from, or the
\* one it has now.
LEMMA RowIs ==
    ASSUME NEW l \in Seq(Entry), NEW t, NEW k, NEW p \in Int
    PROVE  /\ (\A i \in 1..Len(l) : i > p => l[i].key # k) => RowIn(l, t, k, p) = t[k]
           /\ \A i \in 1..Len(l) :
                i > p /\ l[i].key = k /\ (\A j \in 1..Len(l) : j > p /\ l[j].key = k => i <= j) =>
                    RowIn(l, t, k, p) = l[i].old
           /\ (\E i \in 1..Len(l) : i > p /\ l[i].key = k) =>
                \E i \in 1..Len(l) :
                    i > p /\ l[i].key = k /\ \A j \in 1..Len(l) : j > p /\ l[j].key = k => i <= j
<1>1. Len(l) \in Nat /\ DOMAIN l = 1..Len(l)
  OBVIOUS
<1>2. PICK later : later = {i \in 1..Len(l) : i > p /\ l[i].key = k}
  OBVIOUS
<1>3. RowIn(l, t, k, p) = IF later = {} THEN t[k] ELSE l[Min(later)].old
  BY <1>1, <1>2 DEF RowIn
<1>4. later \in SUBSET (1..Len(l)) /\ later \in SUBSET Int
  BY <1>2
<1>5. ASSUME NEW i \in 1..Len(l), i > p, l[i].key = k, \A j \in 1..Len(l) : j > p /\ l[j].key = k => i <= j
      PROVE  RowIn(l, t, k, p) = l[i].old
  <2>1. i \in later /\ \A j \in later : i <= j
    BY <1>2, <1>5
  <2>2. Min(later) = i
    BY <1>4, <2>1, MinIs
  <2>3. QED
    BY <1>3, <2>1, <2>2
<1>6. ASSUME later # {}
      PROVE  \E i \in 1..Len(l) : i > p /\ l[i].key = k /\ \A j \in 1..Len(l) : j > p /\ l[j].key = k => i <= j
  <2>1. Min(later) \in later /\ \A j \in later : Min(later) <= j
    BY <1>1, <1>4, <1>6, IndexMin
  <2>2. QED
    BY <1>2, <2>1
<1>7. QED
  BY <1>2, <1>3, <1>5, <1>6

\* The images of the model.
LEMMA Rows ==
    ASSUME IInv, NEW k \in Keys
    PROVE  /\ log \in Seq(Entry) /\ Len(log) \in Nat /\ DOMAIN log = 1..Len(log)
           /\ \A p : RowAt(k, p) = RowIn(log, rows, k, p) /\ RowAt(k, p)' = RowIn(log', rows', k, p)
           /\ Ingested(k) = RowIn(log, rows, k, 0)
<1>1. log \in Seq(Entry)
  BY DEF IInv, TypeOK, Entry
<1>2. Len(log) \in Nat /\ DOMAIN log = 1..Len(log)
  BY <1>1
<1>3. \A p : RowAt(k, p) = RowIn(log, rows, k, p) /\ RowAt(k, p)' = RowIn(log', rows', k, p)
  BY DEF RowAt, Later, RowIn
<1>4. {i \in DOMAIN log : log[i].key = k} = {i \in DOMAIN log : i > 0 /\ log[i].key = k}
  BY <1>2
<1>5. Ingested(k) = RowIn(log, rows, k, 0)
  BY <1>4 DEF Ingested, RowIn
<1>6. QED
  BY <1>1, <1>2, <1>3, <1>5

\* Entry by entry: an entry of row k leads from its old to its new image, any
\* other leaves the row alone.
LEMMA RowSteps ==
    ASSUME IInv, NEW k \in Keys, NEW i \in 1..Len(log)
    PROVE  /\ log[i].key = k => RowAt(k, i - 1) = log[i].old /\ RowAt(k, i) = log[i].new
           /\ log[i].key # k => RowAt(k, i - 1) = RowAt(k, i)
<1>1. /\ log \in Seq(Entry) /\ Len(log) \in Nat /\ DOMAIN log = 1..Len(log)
      /\ \A p : RowAt(k, p) = RowIn(log, rows, k, p)
  BY Rows
<1>2. i \in Int /\ i - 1 \in Int
  BY <1>1
<1>3. PICK h \in Int : h = i - 1
  BY <1>2
<1>4. \A j \in 1..Len(log) : j > h <=> i <= j
  BY <1>1, <1>2, <1>3
<1>5. CASE log[i].key = k
  <2>1. \A j \in 1..Len(log) : j > h /\ log[j].key = k => i <= j
    BY <1>4
  <2>2. i > h
    BY <1>2, <1>3
  <2>3. RowIn(log, rows, k, h) = log[i].old
    BY <1>1, <1>5, <2>1, <2>2, RowIs
  <2>4. log[i].new = RowAt(k, i)
    BY <1>1, <1>5 DEF IInv, LogIds
  <2>5. QED
    BY <1>1, <1>3, <1>5, <2>3, <2>4
<1>6. CASE log[i].key # k
  <2>1. \A j \in DOMAIN log : (j > h /\ log[j].key = k) <=> (j > i /\ log[j].key = k)
    BY <1>1, <1>2, <1>3, <1>6
  <2>2. {j \in DOMAIN log : j > h /\ log[j].key = k} = {j \in DOMAIN log : j > i /\ log[j].key = k}
    BY <2>1
  <2>3. RowIn(log, rows, k, h) = RowIn(log, rows, k, i)
    BY <2>2 DEF RowIn
  <2>4. QED
    BY <1>1, <1>3, <1>6, <2>3
<1>7. QED
  BY <1>5, <1>6

\* Images are images.
LEMMA RowType ==
    ASSUME IInv, NEW k \in Keys, NEW p \in Int
    PROVE  RowAt(k, p) \in Images \cup {Absent}
<1>1. /\ log \in Seq(Entry) /\ RowAt(k, p) = RowIn(log, rows, k, p)
  BY Rows
<1>2. rows[k] \in Images \cup {Absent} /\ \A i \in 1..Len(log) : log[i].old \in Images \cup {Absent}
  <2>1. \A i \in 1..Len(log) : log[i] \in Entry
    BY <1>1
  <2>2. QED
    BY <2>1 DEF IInv, TypeOK, Entry
<1>3. CASE \A i \in 1..Len(log) : i > p => log[i].key # k
  BY <1>1, <1>2, <1>3, RowIs
<1>4. CASE \E i \in 1..Len(log) : i > p /\ log[i].key = k
  <2>1. PICK i \in 1..Len(log) : i > p /\ log[i].key = k /\ \A j \in 1..Len(log) : j > p /\ log[j].key = k => i <= j
    BY <1>1, <1>4, RowIs
  <2>2. RowIn(log, rows, k, p) = log[i].old
    BY <1>1, <2>1, RowIs
  <2>3. QED
    BY <1>1, <1>2, <2>2
<1>5. QED
  BY <1>3, <1>4

----------------------------------------------------------------------------
\* Ingestion of the oldest n entries.

Taken(n) == {log[i] : i \in 1..n}

\* They are a batch, with ids between the old watermark and the new one.
LEMMA TakenIs ==
    ASSUME IInv, NEW n \in 1..Len(log)
    PROVE  /\ Batch(Taken(n)) /\ \A e \in Taken(n) : watermark < e.id /\ e.id <= log[n].id
           /\ UNION {EdgeRows(log[i]) : i \in 1..n} = Mutations(Taken(n))
           /\ watermark \in Nat /\ log[n].id = watermark + n
<1>1. log \in Seq(Entry)
  BY DEF IInv, TypeOK, Entry
<1>2. Len(log) \in Nat /\ \A i \in 1..Len(log) : log[i] \in Entry
  BY <1>1
<1>3. watermark \in Nat /\ \A i \in 1..Len(log) : log[i].id = watermark + i
  BY <1>1, LayeredAssumption DEF IInv, TypeOK, LogIds
<1>4. \A i \in 1..n : i \in 1..Len(log) /\ i \in Int /\ 1 <= i /\ i <= n
  BY <1>2
<1>5. \A e \in Taken(n) : \E i \in 1..n : e = log[i]
  BY DEF Taken
<1>6. \A e \in Taken(n) : e \in Entry
  BY <1>2, <1>4, <1>5
<1>7. ASSUME NEW e \in Taken(n), NEW f \in Taken(n), e.id = f.id PROVE e = f
  <2>1. PICK i \in 1..n : e = log[i]
    BY <1>5
  <2>2. PICK j \in 1..n : f = log[j]
    BY <1>5
  <2>3. watermark + i = watermark + j
    BY <1>3, <1>4, <1>7, <2>1, <2>2
  <2>4. i = j
    BY <1>3, <1>4, <2>3
  <2>5. QED
    BY <2>1, <2>2, <2>4
<1>8. ASSUME NEW e \in Taken(n) PROVE watermark < e.id /\ e.id <= log[n].id
  <2>1. PICK i \in 1..n : e = log[i]
    BY <1>5
  <2>2. e.id = watermark + i /\ log[n].id = watermark + n
    BY <1>3, <1>4, <2>1
  <2>3. QED
    BY <1>2, <1>3, <1>4, <2>2
<1>9. UNION {EdgeRows(log[i]) : i \in 1..n} = Mutations(Taken(n))
  BY DEF Mutations, Taken
<1>10. QED
  BY <1>3, <1>6, <1>7, <1>8, <1>9 DEF Batch

\* Segments that do not mention an edge say nothing about it.
LEMMA SameTouching ==
    ASSUME NEW R, NEW S, NEW x, {g \in R : x \in g.ins \cup g.del} = {g \in S : x \in g.ins \cup g.del}
    PROVE  DurableIn(R, x) = DurableIn(S, x)
<1> DEFINE newest(T) == CHOOSE g \in T : \A h \in T : h.wm <= g.wm
           Answer(T) == IF T = {} THEN Untouched
                        ELSE IF x \in newest(T).ins THEN newest(T).wt[x] ELSE Deleted
<1>1. \A Q : DurableIn(Q, x) = Answer({g \in Q : x \in g.ins \cup g.del})
  BY DEF DurableIn
<1> HIDE DEF Answer
<1>2. QED
  BY <1>1

\* The new segment is the newest: it decides about the edges it mentions, and
\* about no others.
LEMMA IngestedSegments ==
    ASSUME IInv, NEW n \in 1..Len(log), NEW N, N = Normalize(Mutations(Taken(n))),
           NEW S, S = segments \cup (IF N = {} THEN {} ELSE {SegmentOf(N)})
    PROVE  /\ Segments(S) /\ \A g \in S : g.wm <= log[n].id
           /\ \A x \in Edges :
                /\ Inserts(Taken(n), x) => DurableIn(S, x) \in StoredWeights
                /\ ~Inserts(Taken(n), x) /\ Deletes(Taken(n), x) => DurableIn(S, x) = Deleted
                /\ ~Inserts(Taken(n), x) /\ ~Deletes(Taken(n), x) => DurableIn(S, x) = DurableIn(segments, x)
<1>1. PICK B : B = Taken(n)
  OBVIOUS
<1>2. /\ Batch(B) /\ \A e \in B : watermark < e.id /\ e.id <= log[n].id
      /\ watermark \in Nat /\ log[n].id = watermark + n /\ n \in Nat
  <2>1. Len(log) \in Nat
    BY DEF IInv, TypeOK
  <2>2. n \in Nat
    BY <2>1
  <2>3. QED
    BY <1>1, <2>2, TakenIs
<1>3. Segments(segments) /\ \A g \in segments : g.wm \in 1..MaxEntries /\ g.wm <= watermark
  BY LayersTyped DEF IInv, TypeOK, LayersOrdered
<1>4. \A g \in segments : g.wm <= log[n].id
  BY <1>2, <1>3, LayeredAssumption
<1>5. CASE N = {}
  <2>1. S = segments
    BY <1>5
  <2>2. \A r : ~(\E e \in B : r \in EdgeRows(e) /\ ~Cancels(e))
    BY <1>1, <1>2, <1>5, NormalizedIs
  <2>3. \A e \in B : e \in Entry
    BY <1>2 DEF Batch
  <2>4. ASSUME NEW x, Inserts(B, x) PROVE FALSE
    <3>1. PICK e \in B : ~Cancels(e) /\ e.new # Absent
      BY <2>4 DEF Inserts
    <3>2. InsertRow(e) \in EdgeRows(e)
      BY <2>3, <3>1, RowsOf
    <3>3. QED
      BY <2>2, <3>1, <3>2
  <2>5. ASSUME NEW x, Deletes(B, x) PROVE FALSE
    <3>1. PICK e \in B : ~Cancels(e) /\ e.old # Absent
      BY <2>5 DEF Deletes
    <3>2. DeleteRow(e) \in EdgeRows(e)
      BY <2>3, <3>1, RowsOf
    <3>3. QED
      BY <2>2, <3>1, <3>2
  <2>6. QED
    BY <1>1, <1>3, <1>4, <2>1, <2>4, <2>5
<1>6. CASE N # {}
  <2>1. PICK g : g = SegmentOf(N)
    OBVIOUS
  <2>2. S = segments \cup {g}
    BY <1>6, <2>1
  <2>3. /\ Segment(g) /\ \E e \in B : g.wm = e.id
        /\ \A x : x \in g.ins <=> Inserts(B, x)
        /\ \A x : x \in g.del <=> Deletes(B, x)
    BY <1>1, <1>2, <1>6, <2>1, SegmentIs
  <2>4. g.wm \in 1..MaxEntries /\ watermark < g.wm /\ g.wm <= log[n].id
    BY <1>2, <2>3 DEF Segment
  <2>5. \A h \in segments : h.wm < g.wm
    BY <1>2, <1>3, <2>4, LayeredAssumption
  <2>6. Segments(S)
    <3>1. \A h \in S : Segment(h)
      BY <1>3, <2>2, <2>3 DEF Segments
    <3>2. ASSUME NEW h \in S, NEW f \in S, h.wm = f.wm PROVE h = f
      <4>1. CASE h \in segments /\ f \in segments
        BY <1>3, <3>2, <4>1 DEF Segments
      <4>2. CASE h = g /\ f = g
        BY <4>2
      <4>3. CASE h = g /\ f \in segments
        BY <1>3, <2>4, <2>5, <3>2, <4>3, LayeredAssumption
      <4>4. CASE h \in segments /\ f = g
        BY <1>3, <2>4, <2>5, <3>2, <4>4, LayeredAssumption
      <4>5. QED
        BY <2>2, <4>1, <4>2, <4>3, <4>4
    <3>3. QED
      BY <3>1, <3>2 DEF Segments
  <2>7. \A h \in S : h.wm <= log[n].id
    BY <1>4, <2>2, <2>4
  <2>8. ASSUME NEW x \in Edges, x \in g.ins \cup g.del
        PROVE  DurableIn(S, x) = IF x \in g.ins THEN g.wt[x] ELSE Deleted
    <3>1. g \in S /\ \A h \in S : h.wm <= g.wm
      BY <1>3, <2>2, <2>4, <2>5, LayeredAssumption
    <3>2. QED
      BY <2>6, <2>8, <3>1, DurableIs
  <2>9. ASSUME NEW x \in Edges, x \notin g.ins \cup g.del
        PROVE  DurableIn(S, x) = DurableIn(segments, x)
    <3>1. {h \in S : x \in h.ins \cup h.del} = {h \in segments : x \in h.ins \cup h.del}
      BY <2>2, <2>9
    <3>2. QED
      BY <3>1, SameTouching
  <2>10. \A x \in g.ins : g.wt[x] \in StoredWeights
    BY <2>3 DEF Segment, SegmentShaped
  <2>11. ASSUME NEW x \in Edges
         PROVE  /\ Inserts(B, x) => DurableIn(S, x) \in StoredWeights
                /\ ~Inserts(B, x) /\ Deletes(B, x) => DurableIn(S, x) = Deleted
                /\ ~Inserts(B, x) /\ ~Deletes(B, x) => DurableIn(S, x) = DurableIn(segments, x)
    <3>1. (x \in g.ins <=> Inserts(B, x)) /\ (x \in g.del <=> Deletes(B, x))
      BY <2>3
    <3>2. QED
      BY <2>8, <2>9, <2>10, <3>1
  <2>12. QED
    BY <1>1, <2>6, <2>7, <2>11
<1>7. QED
  BY <1>5, <1>6

\* The edge of a row that exists after the batch was inserted by it, or was
\* there before and nothing of the batch deletes it.
LEMMA EdgeArrives ==
    ASSUME IInv, NEW n \in 1..Len(log), NEW k \in Keys, RowAt(k, n) # Absent, NEW x, x = EdgeOf(k, RowAt(k, n))
    PROVE  \/ Inserts(Taken(n), x)
           \/ RowAt(k, 0) # Absent /\ x = EdgeOf(k, RowAt(k, 0)) /\ ~Deletes(Taken(n), x)
<1> DEFINE Has(q) == RowAt(k, q) # Absent /\ x = EdgeOf(k, RowAt(k, q))
<1>1. /\ log \in Seq(Entry) /\ Len(log) \in Nat /\ n \in Nat /\ \A i \in 1..Len(log) : log[i] \in Entry
  <2>1. log \in Seq(Entry)
    BY Rows
  <2>2. QED
    BY <2>1
<1>2. PICK E : E = {p \in 0..n : \A q \in p..n : Has(q)}
  OBVIOUS
<1>3. n \in E
  <2>1. n \in 0..n /\ n..n = {n}
    BY <1>1
  <2>2. QED
    BY <1>2, <2>1
<1>4. PICK m \in E : \A p \in E : m <= p
  <2>1. IsFiniteSet(0..n)
    BY <1>1, FS_Interval
  <2>2. IsFiniteSet(E)
    BY <1>2, <2>1, FS_Subset
  <2>3. E \in SUBSET Int
    BY <1>2
  <2>4. QED
    BY <1>3, <2>2, <2>3, MinProperty
<1>5. m \in 0..n /\ \A q \in m..n : Has(q)
  BY <1>2, <1>4
<1>6. CASE m = 0
  <2>1. ASSUME Deletes(Taken(n), x) PROVE FALSE
    <3>1. PICK e \in Taken(n) : ~Cancels(e) /\ e.old # Absent /\ x = EdgeOf(e.key, e.old)
      BY <2>1 DEF Deletes
    <3>2. PICK i \in 1..n : e = log[i]
      BY DEF Taken
    <3>3. i \in 1..Len(log) /\ i - 1 \in m..n /\ i \in m..n /\ e \in Entry
      BY <1>1, <1>6, <3>2
    <3>4. e.key = k
      <4>1. RowAt(k, n) \in Images
        BY <1>1, RowType
      <4>2. EdgeOf(k, RowAt(k, n))[3] = k
        BY <4>1, EdgeFacts
      <4>3. e.key \in Keys /\ e.old \in Images
        BY <3>1, <3>3 DEF Entry
      <4>4. EdgeOf(e.key, e.old)[3] = e.key
        BY <4>3, EdgeFacts
      <4>5. QED
        BY <3>1, <4>2, <4>4
    <3>5. RowAt(k, i - 1) = e.old /\ RowAt(k, i) = e.new
      BY <3>2, <3>3, <3>4, RowSteps
    <3>6. Has(i - 1) /\ Has(i)
      BY <1>5, <3>3
    <3>7. QED
      BY <3>1, <3>4, <3>5, <3>6 DEF Cancels
  <2>2. 0 \in m..n
    BY <1>1, <1>6
  <2>3. Has(0)
    BY <1>5, <2>2
  <2>4. QED
    BY <2>1, <2>3
<1>7. CASE m # 0
  <2>1. m \in 1..n /\ m \in 1..Len(log) /\ m \in m..n /\ m - 1 \in 0..n
    BY <1>1, <1>5, <1>7
  <2>2. ~Has(m - 1)
    <3> SUFFICES ASSUME Has(m - 1) PROVE FALSE
      OBVIOUS
    <3>1. \A q \in (m - 1)..n : q = m - 1 \/ q \in m..n
      BY <1>1, <2>1
    <3>2. \A q \in (m - 1)..n : Has(q)
      BY <1>5, <3>1
    <3>3. m - 1 \in E
      BY <1>2, <2>1, <3>2
    <3>4. m <= m - 1
      BY <1>4, <3>3
    <3>5. QED
      BY <1>1, <2>1, <3>4
  <2>3. Has(m)
    BY <1>5, <2>1
  <2>4. PICK e \in Entry : e = log[m]
    BY <1>1, <2>1
  <2>5. e.key = k
    <3> SUFFICES ASSUME e.key # k PROVE FALSE
      OBVIOUS
    <3>1. RowAt(k, m - 1) = RowAt(k, m)
      BY <2>1, <2>4, RowSteps
    <3>2. QED
      BY <2>2, <2>3, <3>1
  <2>6. RowAt(k, m - 1) = e.old /\ RowAt(k, m) = e.new
    BY <2>1, <2>4, <2>5, RowSteps
  <2>7. ~Cancels(e) /\ e.new # Absent /\ x = EdgeOf(e.key, e.new)
    BY <2>2, <2>3, <2>5, <2>6 DEF Cancels
  <2>8. e \in Taken(n)
    BY <2>1, <2>4 DEF Taken
  <2>9. QED
    BY <2>7, <2>8 DEF Inserts
<1>8. QED
  BY <1>6, <1>7

----------------------------------------------------------------------------
\* The steps.

DbTypes ==
    /\ rows \in [Keys -> Images \cup {Absent}]
    /\ lastId \in 0..MaxEntries /\ watermark \in 0..lastId
    /\ log \in Seq(Entry)
LayersFine ==
    /\ Segments(segments) /\ Chunks(chunks) /\ base \in BaseType
    /\ \A g \in segments : g.wm <= watermark
RangesTyped == expanding \subseteq Ranges /\ RangesFine

\* The invariant, sorted by who changes what.
LEMMA Parted ==
    /\ IInv <=> DbTypes /\ LogIds /\ LayersFine /\ RangesTyped /\ NoLostEdge
    /\ IInv' <=> DbTypes' /\ LogIds' /\ LayersFine' /\ RangesTyped' /\ NoLostEdge'
<1>1. IInv <=> DbTypes /\ LogIds /\ LayersFine /\ RangesTyped /\ NoLostEdge
  BY DEF IInv, TypeOK, DbTypes, LayersFine, Entry, Segments, Segment, SegmentsShaped, SegmentShaped, LayersOrdered,
         Chunks, Chunk, BaseType, RangesTyped
<1>2. IInv' <=> DbTypes' /\ LogIds' /\ LayersFine' /\ RangesTyped' /\ NoLostEdge'
  BY DEF IInv, TypeOK, DbTypes, LayersFine, Entry, Segments, Segment, SegmentsShaped, SegmentShaped, LayersOrdered,
         Chunks, Chunk, BaseType, RangesTyped
<1>3. QED
  BY <1>1, <1>2

\* Without a rewrite under way nothing is said of its ranges, and a step that
\* leaves the layers alone leaves them as they are.
LEMMA RangesStep ==
    /\ expanding = {} => RangesTyped
    /\ expanding' = {} => RangesTyped'
    /\ RangesTyped /\ UNCHANGED <<chunks, segments, expanding>> => RangesTyped'
BY DEF RangesTyped, RangesFine, DirtySources, Sources, Overlaps

\* What a step must show about the log and the layered read, in terms of RowIn
\* and LayeredIn.
LEMMA Established ==
    ASSUME DbTypes', LayersFine', RangesTyped', Len(log') = lastId' - watermark',
           \A i \in 1..Len(log') : /\ log'[i].id = watermark' + i
                                   /\ log'[i].new = RowIn(log', rows', log'[i].key, i),
           chunks' = {} => \A k \in Keys : LET image == RowIn(log', rows', k, 0) IN
                image # Absent =>
                    LayeredIn(segments', {}, base', EdgeOf(k, image), EdgeOf(k, image)) # NoEdge
    PROVE  IInv'
<1>1. log' \in Seq(Entry) /\ DOMAIN log' = 1..Len(log')
  BY DEF DbTypes
<1>2. \A k, p : RowAt(k, p)' = RowIn(log', rows', k, p)
  BY DEF RowAt, Later, RowIn
<1>3. LogIds'
  BY <1>1, <1>2 DEF LogIds
<1>4. ASSUME NEW k \in Keys PROVE Ingested(k)' = RowIn(log', rows', k, 0)
  <2>1. {i \in DOMAIN log' : log'[i].key = k} = {i \in DOMAIN log' : i > 0 /\ log'[i].key = k}
    BY <1>1
  <2>2. QED
    BY <2>1 DEF Ingested, RowIn
<1>5. NoLostEdge'
  <2> SUFFICES ASSUME chunks' = {}, NEW k \in Keys, Ingested(k)' # Absent
               PROVE  OutView(EdgeOf(k, Ingested(k)))' # NoEdge
    BY DEF NoLostEdge
  <2>1. PICK image : image = RowIn(log', rows', k, 0)
    OBVIOUS
  <2>2. Ingested(k)' = image /\ image # Absent
    BY <1>4, <2>1
  <2>3. PICK x : x = EdgeOf(k, image)
    OBVIOUS
  <2>4. EdgeOf(k, Ingested(k))' = x
    BY <2>2, <2>3 DEF EdgeOf
  <2>5. OutView(EdgeOf(k, Ingested(k)))' = LayeredIn(segments', chunks', base', x, x)
    BY <2>4 DEF OutView, Layered, LayeredIn, Durable, DurableIn, Replaced, ReplacedIn, Covering
  <2>6. LayeredIn(segments', {}, base', x, x) # NoEdge
    BY <2>1, <2>2, <2>3
  <2>7. QED
    BY <2>5, <2>6
<1>6. QED
  BY <1>3, <1>5, Parted

\* What NoLostEdge says, in the same terms.
LEMMA ShownNow ==
    ASSUME IInv, chunks = {}, NEW k \in Keys, NEW image, image = RowIn(log, rows, k, 0), image # Absent
    PROVE  LayeredIn(segments, {}, base, EdgeOf(k, image), EdgeOf(k, image)) # NoEdge
<1>1. Ingested(k) = image
  BY Rows
<1>2. OutView(EdgeOf(k, image)) # NoEdge
  BY <1>1 DEF IInv, NoLostEdge
<1>3. QED
  BY <1>2, Reads

\* Before the first change a build shows every row.
LEMMA InitInv == Init => IInv
<1> SUFFICES ASSUME Init PROVE IInv
  OBVIOUS
<1>1. /\ rows \in [Keys -> Images \cup {Absent}] /\ log = <<>> /\ lastId = 0 /\ watermark = 0
      /\ base = Built(rows) /\ chunks = {} /\ segments = {} /\ expanding = {}
  BY DEF Init
<1>2. DbTypes
  BY <1>1, LayeredAssumption DEF DbTypes
<1>3. LogIds
  BY <1>1 DEF LogIds
<1>4. base \in BaseType /\ Segments({}) /\ Chunks({})
  BY <1>1, BuiltFacts DEF BaseType, Segments, Chunks
<1>5. LayersFine
  BY <1>1, <1>4 DEF LayersFine
<1>6. NoLostEdge
  <2> SUFFICES ASSUME NEW k \in Keys, Ingested(k) # Absent PROVE OutView(EdgeOf(k, Ingested(k))) # NoEdge
    BY DEF NoLostEdge
  <2>1. {i \in DOMAIN log : log[i].key = k} = {}
    BY <1>1
  <2>2. Ingested(k) = rows[k] /\ rows[k] \in Images
    BY <1>1, <2>1 DEF Ingested
  <2>3. PICK x \in Edges : x = EdgeOf(k, rows[k])
    BY <2>2, EdgeFacts
  <2>4. DurableIn(segments, x) = Untouched
    BY <1>1, <1>4, DurableIs
  <2>5. ReplacedIn(base, chunks, x) = base[x]
    BY <1>1, <1>4, ReplacedIs
  <2>6. OutView(x) = base[x]
    BY <2>4, <2>5, Reads DEF LayeredIn, Deleted, Untouched
  <2>7. QED
    BY <1>1, <2>2, <2>3, <2>6, BuiltFacts
<1>7. QED
  BY <1>1, <1>2, <1>3, <1>5, <1>6, RangesStep, Parted

\* A committed change of a row is logged behind the others.
LEMMA WriteRowKeeps ==
    ASSUME IInv, NEW k \in Keys, NEW image \in Images \cup {Absent}, WriteRow(k, image)
    PROVE  IInv'
<1>1. /\ lastId < MaxEntries /\ lastId' = lastId + 1
      /\ rows' = [rows EXCEPT ![k] = image]
      /\ UNCHANGED <<watermark, base, chunks, segments, expanding>>
  BY DEF WriteRow
<1>2. PICK e : e = [id |-> lastId + 1, key |-> k, old |-> rows[k], new |-> image]
  OBVIOUS
<1>3. log' = Append(log, e)
  BY <1>2 DEF WriteRow
<1>4. DbTypes /\ LogIds /\ LayersFine
  BY Parted
<1>5. /\ log \in Seq(Entry) /\ rows \in [Keys -> Images \cup {Absent}] /\ Len(log) \in Nat
      /\ lastId \in Nat /\ lastId \in 0..MaxEntries /\ watermark \in Nat /\ watermark <= lastId /\ MaxEntries \in Nat
  BY <1>4, LayeredAssumption DEF DbTypes
<1>6. e \in Entry /\ e.id = lastId + 1 /\ e.key = k /\ e.old = rows[k] /\ e.new = image
  BY <1>1, <1>2, <1>5 DEF Entry
<1>7. /\ log' \in Seq(Entry) /\ Len(log') = Len(log) + 1 /\ log'[Len(log) + 1] = e
      /\ \A i \in 1..Len(log) : log'[i] = log[i]
  BY <1>3, <1>5, <1>6
<1>8. DbTypes'
  BY <1>1, <1>5, <1>7 DEF DbTypes
<1>9. LayersFine'
  BY <1>1, <1>4 DEF LayersFine, Segments, Segment, SegmentShaped, Chunks, Chunk
<1>10. PICK last \in Nat : last = Len(log) + 1
  BY <1>5
<1>11. ASSUME NEW j \in Keys, NEW p \in 0..Len(log)
       PROVE  RowIn(log', rows', j, p) = RowIn(log, rows, j, p)
  <2>1. p \in Int /\ p < last
    BY <1>5, <1>10
  <2>2. CASE \E i \in 1..Len(log) : i > p /\ log[i].key = j
    <3>1. PICK i \in 1..Len(log) : i > p /\ log[i].key = j /\ \A h \in 1..Len(log) : h > p /\ log[h].key = j => i <= h
      BY <1>5, <2>1, <2>2, RowIs
    <3>2. RowIn(log, rows, j, p) = log[i].old
      BY <1>5, <2>1, <3>1, RowIs
    <3>3. i \in 1..Len(log') /\ log'[i] = log[i] /\ i \in Int /\ i <= last
      BY <1>5, <1>7, <1>10
    <3>4. \A h \in 1..Len(log') : h > p /\ log'[h].key = j => i <= h
      <4>1. \A h \in 1..Len(log') : h \in 1..Len(log) \/ h = last
        BY <1>5, <1>7, <1>10
      <4>2. QED
        BY <1>7, <3>1, <3>3, <4>1
    <3>5. RowIn(log', rows', j, p) = log'[i].old
      BY <1>7, <2>1, <3>1, <3>3, <3>4, RowIs
    <3>6. QED
      BY <3>2, <3>3, <3>5
  <2>3. CASE \A i \in 1..Len(log) : i > p => log[i].key # j
    <3>1. RowIn(log, rows, j, p) = rows[j]
      BY <1>5, <2>1, <2>3, RowIs
    <3>2. \A h \in 1..Len(log') : h \in 1..Len(log) \/ h = last
      BY <1>5, <1>7, <1>10
    <3>3. last \in 1..Len(log') /\ log'[last] = e /\ last > p /\ last <= last
      BY <1>5, <1>7, <1>10, <2>1
    <3>4. CASE j = k
      <4>1. \A h \in 1..Len(log') : h > p /\ log'[h].key = j => last <= h
        BY <1>7, <2>3, <3>2, <3>3
      <4>2. RowIn(log', rows', j, p) = e.old
        BY <1>6, <1>7, <2>1, <3>3, <3>4, <4>1, RowIs
      <4>3. QED
        BY <1>6, <3>1, <3>4, <4>2
    <3>5. CASE j # k
      <4>1. \A h \in 1..Len(log') : h > p => log'[h].key # j
        BY <1>6, <1>7, <2>3, <3>2, <3>3, <3>5
      <4>2. RowIn(log', rows', j, p) = rows'[j]
        BY <1>7, <2>1, <4>1, RowIs
      <4>3. QED
        BY <1>1, <1>5, <3>1, <3>5, <4>2
    <3>6. QED
      BY <3>4, <3>5
  <2>4. QED
    BY <2>2, <2>3
<1>12. ASSUME NEW i \in 1..Len(log')
       PROVE  log'[i].id = watermark' + i /\ log'[i].new = RowIn(log', rows', log'[i].key, i)
  <2>1. CASE i \in 1..Len(log)
    <3>1. log'[i] = log[i] /\ log[i] \in Entry /\ i \in 0..Len(log)
      BY <1>5, <1>7, <2>1
    <3>2. log[i].key \in Keys
      BY <3>1 DEF Entry
    <3>3. log[i].id = watermark + i /\ log[i].new = RowAt(log[i].key, i)
      BY <1>4, <1>5, <2>1 DEF LogIds
    <3>4. RowAt(log[i].key, i) = RowIn(log, rows, log[i].key, i)
      BY <3>2, Rows
    <3>5. QED
      BY <1>1, <1>11, <3>1, <3>2, <3>3, <3>4
  <2>2. CASE i = last
    <3>1. \A h \in 1..Len(log') : ~(h > last)
      BY <1>5, <1>7, <1>10
    <3>2. RowIn(log', rows', k, last) = rows'[k]
      BY <1>7, <1>10, <3>1, RowIs
    <3>3. rows'[k] = image
      BY <1>1, <1>5
    <3>4. lastId + 1 = watermark + last
      BY <1>4, <1>5, <1>10 DEF LogIds
    <3>5. log'[i] = e
      BY <1>7, <1>10, <2>2
    <3>6. QED
      BY <1>1, <1>6, <2>2, <3>2, <3>3, <3>4, <3>5
  <2>3. QED
    BY <1>5, <1>7, <1>10, <2>1, <2>2
<1>13. ASSUME chunks' = {}, NEW j \in Keys, NEW img, img = RowIn(log', rows', j, 0), img # Absent
       PROVE  LayeredIn(segments', {}, base', EdgeOf(j, img), EdgeOf(j, img)) # NoEdge
  <2>1. 0 \in 0..Len(log)
    BY <1>5
  <2>2. img = RowIn(log, rows, j, 0)
    BY <1>11, <1>13, <2>1
  <2>3. QED
    BY <1>1, <1>13, <2>2, ShownNow
<1>14. Len(log') = lastId' - watermark'
  BY <1>1, <1>4, <1>5, <1>7 DEF LogIds
<1>15. QED
  <2>1. RangesTyped'
    BY <1>1, RangesStep, Parted
  <2>2. QED
    BY <1>8, <1>9, <1>12, <1>13, <1>14, <2>1, Established

\* The log without its oldest n entries.
Shifted(n) ==
    /\ log' \in Seq(Entry) /\ Len(log') = Len(log) - n
    /\ \A i \in 1..Len(log') : log'[i] = log[n + i] /\ n + i \in 1..Len(log)

\* What is left of the log after n entries starts where they ended.
LEMMA RowsShift ==
    ASSUME IInv, NEW n \in 1..Len(log), rows' = rows, NEW k \in Keys, NEW p \in 0..(Len(log) - n),
           Shifted(n)
    PROVE  RowIn(log', rows', k, p) = RowAt(k, p + n)
<1>1. log \in Seq(Entry) /\ Len(log) \in Nat /\ n \in Nat /\ n <= Len(log)
  BY Rows
<1>2. /\ log' \in Seq(Entry) /\ Len(log') = Len(log) - n
      /\ \A i \in 1..Len(log') : log'[i] = log[n + i] /\ n + i \in 1..Len(log)
  BY DEF Shifted
<1>3. PICK q \in Int : q = p + n
  BY <1>1
<1>9. PICK u \in Int : u = p
  BY <1>1
<1>4. RowAt(k, q) = RowIn(log, rows, k, q)
  BY <1>1, Rows
<1>5. \A i \in 1..Len(log) : i > q => i - n \in 1..Len(log') /\ i - n > p /\ log'[i - n] = log[i]
  <2> SUFFICES ASSUME NEW i \in 1..Len(log), i > q PROVE i - n \in 1..Len(log') /\ i - n > p /\ log'[i - n] = log[i]
    OBVIOUS
  <2>1. PICK j \in Int : j = i - n
    BY <1>1
  <2>2. j \in 1..Len(log') /\ j > p /\ n + j = i
    BY <1>1, <1>2, <1>3, <2>1
  <2>3. log'[j] = log[n + j]
    BY <1>2, <2>2
  <2>4. QED
    BY <2>1, <2>2, <2>3
<1>6. CASE \E i \in 1..Len(log) : i > q /\ log[i].key = k
  <2>1. PICK i \in 1..Len(log) : i > q /\ log[i].key = k /\ \A h \in 1..Len(log) : h > q /\ log[h].key = k => i <= h
    BY <1>1, <1>6, RowIs
  <2>2. RowIn(log, rows, k, q) = log[i].old
    <3>1. PICK l \in Seq(Entry) : l = log
      BY <1>1
    <3>2. i \in 1..Len(l) /\ i > q /\ l[i].key = k /\ \A h \in 1..Len(l) : h > q /\ l[h].key = k => i <= h
      BY <2>1, <3>1
    <3>3. PICK t : t = rows
      OBVIOUS
    <3>4. RowIn(l, t, k, q) = l[i].old
      BY <1>3, <3>1, <3>2, RowIs
    <3>5. QED
      BY <3>1, <3>3, <3>4
  <2>3. PICK j \in Int : j = i - n
    BY <1>1
  <2>4. j \in 1..Len(log') /\ j > p /\ log'[j] = log[i]
    BY <1>5, <2>1, <2>3
  <2>5. ASSUME NEW h \in 1..Len(log'), h > p, log'[h].key = k PROVE j <= h
    <3>1. log'[h] = log[n + h] /\ n + h \in 1..Len(log) /\ h \in Int
      BY <1>1, <1>2
    <3>2. n + h > q
      BY <1>1, <1>3, <2>5, <3>1
    <3>3. i <= n + h
      BY <2>1, <2>5, <3>1, <3>2
    <3>4. QED
      BY <1>1, <2>3, <3>1, <3>3
  <2>6. RowIn(log', rows', k, p) = log'[j].old
    <3>1. PICK l \in Seq(Entry) : l = log'
      BY <1>2
    <3>2. j \in 1..Len(l) /\ j > u /\ l[j].key = k /\ \A h \in 1..Len(l) : h > u /\ l[h].key = k => j <= h
      BY <1>9, <2>1, <2>4, <2>5, <3>1
    <3>3. PICK t : t = rows'
      OBVIOUS
    <3>4. RowIn(l, t, k, u) = l[j].old
      BY <1>9, <3>1, <3>2, RowIs
    <3>5. QED
      BY <1>9, <3>1, <3>3, <3>4
  <2>7. QED
    BY <1>3, <1>4, <2>2, <2>4, <2>6
<1>7. CASE \A i \in 1..Len(log) : i > q => log[i].key # k
  <2>1. RowIn(log, rows, k, q) = rows[k]
    BY <1>1, <1>7, RowIs
  <2>2. ASSUME NEW h \in 1..Len(log'), h > p PROVE log'[h].key # k
    <3>1. log'[h] = log[n + h] /\ n + h \in 1..Len(log) /\ h \in Int
      BY <1>1, <1>2
    <3>2. n + h > q
      BY <1>1, <1>3, <2>2, <3>1
    <3>3. QED
      BY <1>7, <3>1, <3>2
  <2>3. RowIn(log', rows', k, p) = rows'[k]
    <3>1. PICK l \in Seq(Entry) : l = log'
      BY <1>2
    <3>2. \A h \in 1..Len(l) : h > u => l[h].key # k
      BY <1>9, <2>2, <3>1
    <3>3. PICK t : t = rows'
      OBVIOUS
    <3>4. RowIn(l, t, k, u) = t[k]
      BY <1>9, <3>1, <3>2, RowIs
    <3>5. QED
      BY <1>9, <3>1, <3>3, <3>4
  <2>4. QED
    BY <1>3, <1>4, <2>1, <2>3
<1>8. QED
  BY <1>6, <1>7

\* Where an ingestion leads, as far as it does not depend on the batch.
LEMMA IngestStep ==
    ASSUME IInv, NEW n \in 1..MaxBatch, Ingest(n)
    PROVE  /\ n \in 1..Len(log) /\ rows' = rows /\ base' = base /\ chunks' = chunks /\ lastId' = lastId
           /\ expanding' = {} /\ log' = SubSeq(log, n + 1, Len(log)) /\ watermark' = log[n].id
           /\ segments' = segments \cup (IF Normalize(Mutations(Taken(n))) = {} THEN {}
                                         ELSE {SegmentOf(Normalize(Mutations(Taken(n))))})
<1>1. n \in 1..Len(log)
  BY DEF Ingest, IInv, TypeOK
<1>2. UNION {EdgeRows(log[i]) : i \in 1..n} = Mutations(Taken(n))
  BY <1>1, TakenIs
<1>3. QED
  BY <1>1, <1>2 DEF Ingest, BuildLockFree

\* An ingestion moves the watermark and adds the newest segment.
LEMMA IngestKeeps ==
    ASSUME IInv, NEW n \in 1..MaxBatch, Ingest(n)
    PROVE  IInv'
<1>1. /\ n \in 1..Len(log) /\ rows' = rows /\ base' = base /\ chunks' = chunks /\ lastId' = lastId
      /\ expanding' = {} /\ log' = SubSeq(log, n + 1, Len(log)) /\ watermark' = log[n].id
  BY IngestStep
<1>2. PICK B : B = Taken(n)
  OBVIOUS
<1>3. PICK N : N = Normalize(Mutations(B))
  OBVIOUS
<1>4. segments' = segments \cup (IF N = {} THEN {} ELSE {SegmentOf(N)})
  BY <1>2, <1>3, IngestStep
<1>5. DbTypes /\ LogIds /\ LayersFine
  BY Parted
<1>6. /\ log \in Seq(Entry) /\ Len(log) \in Nat /\ n \in Nat /\ n <= Len(log)
      /\ lastId \in 0..MaxEntries /\ watermark \in Nat /\ lastId \in Nat /\ MaxEntries \in Nat
      /\ Len(log) = lastId - watermark
  BY <1>1, <1>5, LayeredAssumption DEF DbTypes, LogIds
<1>7. /\ log' \in Seq(Entry) /\ Len(log') = Len(log) - n /\ Len(log') \in Nat
      /\ \A i \in 1..Len(log') : log'[i] = log[n + i] /\ n + i \in 1..Len(log)
  BY <1>1, <1>6
<1>16. Shifted(n)
  BY <1>7 DEF Shifted
<1>8. watermark' = watermark + n
  BY <1>1, TakenIs
<1>9. DbTypes'
  BY <1>1, <1>5, <1>6, <1>7, <1>8 DEF DbTypes
<1>10. /\ Segments(segments') /\ \A g \in segments' : g.wm <= watermark'
       /\ \A x \in Edges :
            /\ Inserts(B, x) => DurableIn(segments', x) \in StoredWeights
            /\ ~Inserts(B, x) /\ ~Deletes(B, x) => DurableIn(segments', x) = DurableIn(segments, x)
  BY <1>1, <1>2, <1>3, <1>4, IngestedSegments, ZenonT(60)
<1>11. LayersFine'
  BY <1>1, <1>5, <1>10 DEF LayersFine, Segments, Segment, SegmentShaped, Chunks, Chunk
<1>12. ASSUME NEW i \in 1..Len(log')
       PROVE  log'[i].id = watermark' + i /\ log'[i].new = RowIn(log', rows', log'[i].key, i)
  <2>1. PICK j \in 1..Len(log) : j = n + i /\ log'[i] = log[j]
    BY <1>7
  <2>2. log[j].id = watermark + j /\ log[j].new = RowAt(log[j].key, j)
    BY <1>5, <1>6 DEF LogIds
  <2>3. log[j].key \in Keys /\ i \in 0..(Len(log) - n) /\ j = i + n
    <3>1. log[j] \in Entry
      BY <1>6, <2>1
    <3>2. log[j].key \in Keys
      BY <3>1 DEF Entry
    <3>3. i \in Nat /\ i <= Len(log) - n /\ j = i + n
      BY <1>6, <1>7, <2>1
    <3>4. QED
      BY <1>6, <3>2, <3>3
  <2>4. RowIn(log', rows', log[j].key, i) = RowAt(log[j].key, j)
    BY <1>1, <1>16, <2>3, RowsShift
  <2>5. QED
    BY <1>6, <1>7, <1>8, <2>1, <2>2, <2>4
<1>13. ASSUME chunks' = {}, NEW k \in Keys, NEW image, image = RowIn(log', rows', k, 0), image # Absent
       PROVE  LayeredIn(segments', {}, base', EdgeOf(k, image), EdgeOf(k, image)) # NoEdge
  <2>1. 0 \in 0..(Len(log) - n) /\ 0 + n = n
    BY <1>6
  <2>2. image = RowAt(k, n)
    BY <1>1, <1>16, <1>13, <2>1, RowsShift
  <2>3. image \in Images
    BY <1>6, <1>13, <2>2, RowType
  <2>4. PICK x \in Edges : x = EdgeOf(k, image)
    BY <2>3, EdgeFacts
  <2>5. base \in BaseType /\ Chunks({})
    BY <1>5 DEF LayersFine, Chunks
  <2>6. ReplacedIn(base, {}, x) = base[x]
    BY <2>5, ReplacedIs
  <2>7. CASE Inserts(B, x)
    <3>1. PICK d : d = DurableIn(segments', x)
      OBVIOUS
    <3>2. d \in StoredWeights
      BY <1>10, <2>7, <3>1
    <3>3. d # NoEdge /\ d # Deleted /\ d # Untouched
      BY <3>2, Stored
    <3>4. LayeredIn(segments', {}, base, x, x) = IF d = NoWeight /\ base[x] # NoEdge THEN base[x] ELSE d
      BY <2>6, <3>1, <3>3 DEF LayeredIn
    <3>5. QED
      BY <1>1, <2>4, <3>3, <3>4
  <2>8. CASE ~Inserts(B, x)
    <3>1. RowAt(k, 0) # Absent /\ x = EdgeOf(k, RowAt(k, 0)) /\ ~Deletes(B, x)
      BY <1>1, <1>2, <1>13, <2>2, <2>4, <2>8, EdgeArrives
    <3>2. LayeredIn(segments, {}, base, x, x) # NoEdge
      BY <1>1, <1>13, <3>1, Rows, ShownNow
    <3>3. DurableIn(segments', x) = DurableIn(segments, x)
      BY <1>10, <2>8, <3>1
    <3>4. LayeredIn(segments', {}, base, x, x) = LayeredIn(segments, {}, base, x, x)
      BY <3>3 DEF LayeredIn
    <3>5. QED
      BY <1>1, <2>4, <3>2, <3>4
  <2>9. QED
    BY <2>7, <2>8
<1>14. Len(log') = lastId' - watermark'
  BY <1>1, <1>6, <1>7, <1>8
<1>15. QED
  <2>1. RangesTyped'
    BY <1>1, RangesStep
  <2>2. QED
    BY <1>9, <1>11, <1>12, <1>13, <1>14, <2>1, Established

\* A step that leaves the table and the log alone has only its layers to show.
LEMMA LayersStep ==
    ASSUME IInv, UNCHANGED <<rows, log, lastId, watermark>>, LayersFine', RangesTyped',
           chunks' = {} => chunks = {} /\ \A x \in Edges :
                LayeredIn(segments', {}, base', x, x) = LayeredIn(segments, {}, base, x, x)
    PROVE  IInv'
<1>1. DbTypes /\ LogIds
  BY Parted
<1>2. DbTypes'
  BY <1>1 DEF DbTypes
<1>3. log \in Seq(Entry) /\ DOMAIN log = 1..Len(log) /\ \A i \in 1..Len(log) : log[i].key \in Keys
  <2>1. log \in Seq(Entry)
    BY <1>1 DEF DbTypes
  <2>2. DOMAIN log = 1..Len(log) /\ \A i \in 1..Len(log) : log[i] \in Entry
    BY <2>1
  <2>3. QED
    BY <2>1, <2>2 DEF Entry
<1>4. ASSUME NEW i \in 1..Len(log)
      PROVE  log'[i].id = watermark' + i /\ log'[i].new = RowIn(log', rows', log'[i].key, i)
  <2>1. log[i].id = watermark + i /\ log[i].new = RowAt(log[i].key, i)
    BY <1>1, <1>3 DEF LogIds
  <2>2. RowAt(log[i].key, i) = RowIn(log, rows, log[i].key, i)
    BY <1>3, Rows
  <2>3. QED
    BY <2>1, <2>2
<1>5. ASSUME chunks' = {}, NEW k \in Keys, NEW image, image = RowIn(log', rows', k, 0), image # Absent
      PROVE  LayeredIn(segments', {}, base', EdgeOf(k, image), EdgeOf(k, image)) # NoEdge
  <2>1. image = RowIn(log, rows, k, 0) /\ chunks = {}
    BY <1>5
  <2>2. image = RowAt(k, 0)
    BY <2>1, Rows
  <2>3. image \in Images
    BY <1>5, <2>2, RowType
  <2>4. EdgeOf(k, image) \in Edges
    BY <2>3, EdgeFacts
  <2>5. LayeredIn(segments, {}, base, EdgeOf(k, image), EdgeOf(k, image)) # NoEdge
    BY <1>5, <2>1, ShownNow
  <2>6. QED
    BY <1>5, <2>4, <2>5
<1>6. Len(log') = lastId' - watermark'
  BY <1>1 DEF LogIds
<1>7. QED
  BY <1>2, <1>4, <1>5, <1>6, Established

\* Compaction below the threshold.
LEMMA CompactKeeps ==
    ASSUME IInv, NEW threshold, CompactSegments(threshold)
    PROVE  IInv'
<1>1. /\ segments # {} /\ segments' = {CompactedSegment}
      /\ UNCHANGED <<rows, log, lastId, watermark>> /\ base' = base /\ chunks' = chunks /\ expanding' = {}
  BY DEF CompactSegments, BuildLockFree
<1>2. PICK s : s = CompactedSegment
  OBVIOUS
<1>3. Segment(s) /\ s.wm = watermark
  BY <1>1, <1>2, CompactedIs
<1>4. Segments({s}) /\ Chunks(chunks) /\ base \in BaseType
  BY <1>3, LayersTyped DEF Segments
<1>5. \A g \in {s} : g.wm <= watermark
  <2>1. watermark \in Int
    BY <1>3, LayeredAssumption DEF Segment
  <2>2. QED
    BY <1>3, <2>1
<1>6. LayersFine'
  BY <1>1, <1>2, <1>4, <1>5 DEF LayersFine, Segments, Segment, SegmentShaped, Chunks, Chunk
<1>7. chunks' = {} => chunks = {} /\ \A x \in Edges :
            LayeredIn(segments', {}, base', x, x) = LayeredIn(segments, {}, base, x, x)
  BY <1>1, CompactReads
<1>8. QED
  BY <1>1, <1>6, <1>7, RangesStep, LayersStep

\* A step of a rewrite that publishes nothing has only its ranges to show.
LEMMA RewriteStep ==
    ASSUME IInv, UNCHANGED <<rows, log, lastId, watermark, base, chunks, segments>>, RangesTyped'
    PROVE  IInv'
<1>1. LayersFine
  BY Parted
<1>2. LayersFine'
  BY <1>1 DEF LayersFine, Segments, Segment, SegmentShaped, Chunks, Chunk
<1>3. QED
  BY <1>2, LayersStep

\* Compaction from the threshold on starts with the dirty ranges.
LEMMA StartKeeps ==
    ASSUME IInv, NEW threshold, StartRewrite(threshold)
    PROVE  IInv'
<1>1. expanding' = DirtyRanges /\ UNCHANGED <<rows, log, lastId, watermark, base, chunks, segments>>
  BY DEF StartRewrite
<1>2. PICK D : D = DirtyRanges
  OBVIOUS
<1>3. D \subseteq Ranges /\ \A r \in D : Sources(r) \subseteq DirtySources
  BY <1>2, DirtyIs
<1>4. \A r, q \in D : Overlaps(r, q) => r = q
  BY <1>2, DirtyDisjoint
<1>5. \A g \in segments : \E r \in D : r.lo <= g.lo /\ g.hi <= r.hi
  BY <1>2, DirtyCover DEF Within
<1>6. RangesTyped'
  BY <1>1, <1>2, <1>3, <1>4, <1>5 DEF RangesTyped, RangesFine, DirtySources
<1>7. QED
  BY <1>1, <1>6, RewriteStep

\* A turn of the loop joins a chunk with the ranges it cuts.
LEMMA WidenKeeps ==
    ASSUME IInv, WidenRange
    PROVE  IInv'
<1>1. UNCHANGED <<rows, log, lastId, watermark, base, chunks, segments>>
  BY DEF WidenRange
<1>2. PICK c \in Unsettled : expanding' = Widened(c)
  BY DEF WidenRange, Widened
<1>3. c \in chunks /\ Cut(c) # {}
  BY DEF Unsettled
<1>4. PICK E : E = expanding'
  OBVIOUS
<1>5. /\ E \subseteq Ranges
      /\ \A r, q \in E : Overlaps(r, q) => r = q
      /\ \A r \in expanding : \E q \in E : Within(r, q)
  BY <1>2, <1>3, <1>4, WidenedIs
<1>6. ASSUME NEW g \in segments PROVE \E q \in E : q.lo <= g.lo /\ g.hi <= q.hi
  <2>1. PICK r \in expanding : r.lo <= g.lo /\ g.hi <= r.hi
    BY <1>3 DEF IInv, RangesFine, Cut
  <2>2. PICK q \in E : Within(r, q)
    BY <1>5
  <2>3. r \in Ranges /\ q \in Ranges
    BY <1>5 DEF IInv, TypeOK
  <2>4. /\ r.lo \in Int /\ r.hi \in Int /\ q.lo \in Int /\ q.hi \in Int
        /\ g.lo \in Int /\ g.hi \in Int
    BY <2>3, RangeFacts, PartFacts
  <2>5. QED
    BY <2>1, <2>2, <2>4 DEF Within
<1>7. RangesTyped'
  BY <1>1, <1>3, <1>4, <1>5, <1>6 DEF RangesTyped, RangesFine
<1>8. QED
  BY <1>1, <1>7, RewriteStep

\* A rewrite that is done leaves at least one chunk.
LEMMA FinishKeeps ==
    ASSUME IInv, FinishRewrite
    PROVE  IInv'
<1>1. /\ expanding # {} /\ expanding' = {} /\ segments' = {} /\ chunks' = RewrittenChunks
      /\ UNCHANGED <<rows, log, lastId, watermark>> /\ base' = base
  BY DEF FinishRewrite
<1>2. Chunks(RewrittenChunks) /\ Segments({}) /\ base \in BaseType
  BY RewrittenIs, LayersTyped DEF Segments
<1>3. RewrittenChunks # {}
  BY <1>1 DEF RewrittenChunks
<1>4. LayersFine'
  BY <1>1, <1>2 DEF LayersFine, Segments, Segment, SegmentShaped, Chunks, Chunk
<1>5. QED
  BY <1>1, <1>3, <1>4, RangesStep, LayersStep

\* A rebuild shows the table as it is.
LEMMA RebuildKeeps ==
    ASSUME IInv, Rebuild
    PROVE  IInv'
<1>1. /\ base' = Built(rows) /\ chunks' = {} /\ segments' = {}
      /\ watermark' = lastId /\ log' = <<>> /\ rows' = rows /\ lastId' = lastId /\ expanding' = {}
  BY DEF Rebuild, BuildLockFree
<1>2. DbTypes
  BY Parted
<1>3. rows \in [Keys -> Images \cup {Absent}] /\ lastId \in 0..MaxEntries /\ lastId \in Nat
  BY <1>2, LayeredAssumption DEF DbTypes
<1>4. DbTypes'
  BY <1>1, <1>3 DEF DbTypes
<1>5. PICK b : b = Built(rows)
  OBVIOUS
<1>6. /\ b \in BaseType /\ Segments({}) /\ Chunks({})
      /\ \A k \in Keys : rows[k] # Absent => b[EdgeOf(k, rows[k])] # NoEdge
  BY <1>3, <1>5, BuiltFacts DEF BaseType, Segments, Chunks
<1>7. LayersFine'
  BY <1>1, <1>5, <1>6 DEF LayersFine, Segments, Chunks
<1>8. Len(log') = 0 /\ 1..Len(log') = {} /\ log' \in Seq(Entry)
  BY <1>1
<1>9. ASSUME NEW k \in Keys, NEW image, image = RowIn(log', rows', k, 0), image # Absent
      PROVE  LayeredIn(segments', {}, base', EdgeOf(k, image), EdgeOf(k, image)) # NoEdge
  <2>1. image = rows[k]
    <3>1. PICK l \in Seq(Entry) : l = log'
      BY <1>8
    <3>2. \A i \in 1..Len(l) : i > 0 => l[i].key # k
      BY <1>8, <3>1
    <3>3. RowIn(l, rows', k, 0) = rows'[k]
      BY <3>1, <3>2, RowIs
    <3>4. QED
      BY <1>1, <1>9, <3>1, <3>3
  <2>2. PICK x \in Edges : x = EdgeOf(k, image)
    BY <1>3, <1>9, <2>1, EdgeFacts
  <2>3. DurableIn({}, x) = Untouched
    BY <1>6, DurableIs
  <2>4. ReplacedIn(b, {}, x) = b[x]
    BY <1>6, ReplacedIs
  <2>5. LayeredIn({}, {}, b, x, x) = b[x]
    BY <2>3, <2>4 DEF LayeredIn, Deleted, Untouched
  <2>6. QED
    BY <1>1, <1>5, <1>6, <1>9, <2>1, <2>2, <2>5
<1>10. QED
  BY <1>1, <1>3, <1>4, <1>7, <1>8, <1>9, RangesStep, Established

\* Every step keeps the invariant.
LEMMA NextKeeps == IInv /\ [Next]_vars => IInv'
<1> SUFFICES ASSUME IInv, [Next]_vars PROVE IInv'
  OBVIOUS
<1>1. CASE \E k \in Keys, image \in Images \cup {Absent} : WriteRow(k, image)
  BY <1>1, WriteRowKeeps
<1>2. CASE \E n \in 1..MaxBatch : Ingest(n)
  BY <1>2, IngestKeeps
<1>3. CASE \E threshold \in Thresholds : CompactSegments(threshold)
  BY <1>3, CompactKeeps
<1>4. CASE \E threshold \in Thresholds : StartRewrite(threshold)
  BY <1>4, StartKeeps
<1>5. CASE WidenRange
  BY <1>5, WidenKeeps
<1>6. CASE FinishRewrite
  BY <1>6, FinishKeeps
<1>7. CASE AbandonRewrite
  <2>1. expanding' = {} /\ UNCHANGED <<rows, log, lastId, watermark, base, chunks, segments>>
    BY <1>7 DEF AbandonRewrite
  <2>2. QED
    BY <2>1, RangesStep, RewriteStep
<1>8. CASE Rebuild
  BY <1>8, RebuildKeeps
<1>9. CASE UNCHANGED vars
  <2>1. /\ UNCHANGED <<rows, log, lastId, watermark, base, chunks, segments>>
        /\ UNCHANGED <<chunks, segments, expanding>>
    BY <1>9 DEF vars
  <2>2. RangesTyped'
    BY <2>1, RangesStep, Parted
  <2>3. QED
    BY <2>1, <2>2, RewriteStep
<1>10. QED
  BY <1>1, <1>2, <1>3, <1>4, <1>5, <1>6, <1>7, <1>8, <1>9 DEF Next

\* So it holds in every reachable state.
LEMMA IInvAlways == Spec => []IInv
BY InitInv, NextKeeps, PTL DEF Spec

\* A row keeps its image over entries of other rows.
LEMMA RowSkip ==
    ASSUME IInv, NEW k \in Keys, NEW p \in Int, NEW q \in Int, p <= q,
           \A j \in 1..Len(log) : p < j /\ j <= q => log[j].key # k
    PROVE  RowAt(k, p) = RowAt(k, q)
<1>1. log \in Seq(Entry) /\ RowAt(k, p) = RowIn(log, rows, k, p) /\ RowAt(k, q) = RowIn(log, rows, k, q)
  BY Rows
<1>2. PICK l \in Seq(Entry) : l = log
  BY <1>1
<1>3. PICK t : t = rows
  OBVIOUS
<1>4. \A j \in 1..Len(l) : l[j].key = k => (j > p <=> j > q)
  BY <1>2
<1>5. CASE \E i \in 1..Len(l) : i > q /\ l[i].key = k
  <2>1. PICK i \in 1..Len(l) : i > q /\ l[i].key = k /\ \A h \in 1..Len(l) : h > q /\ l[h].key = k => i <= h
    <3>1. PICK C : C = {i \in 1..Len(l) : i > q /\ l[i].key = k}
      OBVIOUS
    <3>2. C \in SUBSET (1..Len(l)) /\ C # {} /\ Len(l) \in Nat
      BY <1>2, <1>5, <3>1
    <3>3. Min(C) \in C /\ \A j \in C : Min(C) <= j
      BY <3>2, IndexMin
    <3>4. QED
      BY <3>1, <3>3
  <2>2. i > p /\ \A h \in 1..Len(l) : h > p /\ l[h].key = k => i <= h
    BY <1>4, <2>1
  <2>3. RowIn(l, t, k, q) = l[i].old
    BY <1>2, <2>1, RowIs
  <2>4. RowIn(l, t, k, p) = l[i].old
    BY <1>2, <2>1, <2>2, RowIs
  <2>5. QED
    BY <1>1, <1>2, <1>3, <2>3, <2>4
<1>6. CASE \A i \in 1..Len(l) : i > q => l[i].key # k
  <2>1. \A i \in 1..Len(l) : i > p => l[i].key # k
    BY <1>4, <1>6
  <2>2. RowIn(l, t, k, q) = t[k]
    BY <1>2, <1>6, RowIs
  <2>3. RowIn(l, t, k, p) = t[k]
    BY <1>2, <2>1, RowIs
  <2>4. QED
    BY <1>1, <1>2, <1>3, <2>2, <2>3
<1>7. QED
  BY <1>5, <1>6

\* n entries with n keys have a key each.
LEMMA OnceEach ==
    ASSUME NEW n \in Nat, NEW l, NEW K, K = {l[i].key : i \in 1..n}, Cardinality(K) = n,
           NEW i \in 1..n, NEW j \in 1..n, l[i].key = l[j].key
    PROVE  i = j
<1>1. PICK f : f = [h \in 1..n |-> l[h].key]
  OBVIOUS
<1>2. f \in Surjection(1..n, K)
  BY <1>1 DEF Surjection
<1>3. IsFiniteSet(1..n) /\ Cardinality(1..n) = n
  BY FS_Interval
<1>4. f \in Injection(1..n, K)
  BY <1>2, <1>3, FS_Surjection
<1>5. f[i] = f[j]
  BY <1>1
<1>6. QED
  BY <1>4, <1>5 DEF Injection, IsInjective

\* A batch that changes no row twice brings no edge the table does not have.
LEMMA IngestExactly ==
    ASSUME IInv, NEW n \in 1..MaxBatch, Ingest(n), NoPhantomEdge, Cardinality({log[i].key : i \in 1..n}) = n
    PROVE  NoPhantomEdge'
<1>1. /\ n \in 1..Len(log) /\ rows' = rows /\ base' = base /\ chunks' = chunks
      /\ log' = SubSeq(log, n + 1, Len(log))
  BY IngestStep
<1>2. PICK B : B = Taken(n)
  OBVIOUS
<1>3. PICK N : N = Normalize(Mutations(B))
  OBVIOUS
<1>4. segments' = segments \cup (IF N = {} THEN {} ELSE {SegmentOf(N)})
  BY <1>2, <1>3, IngestStep
<1>5. DbTypes
  BY Parted
<1>6. /\ log \in Seq(Entry) /\ Len(log) \in Nat /\ n \in Nat /\ n <= Len(log)
      /\ \A i \in 1..Len(log) : log[i] \in Entry
  <2>1. log \in Seq(Entry)
    BY <1>5 DEF DbTypes
  <2>2. QED
    BY <1>1, <2>1
<1>7. Shifted(n)
  BY <1>1, <1>6 DEF Shifted
<1>8. \A i \in 1..n : log[i].key \in Keys /\ i \in 1..Len(log)
  BY <1>6 DEF Entry
<1>9. \A e \in B : \E i \in 1..n : e = log[i]
  BY <1>2 DEF Taken
<1>10. \A i, j \in 1..n : log[i].key = log[j].key => i = j
  <2>1. PICK l : l = log
    OBVIOUS
  <2>2. PICK K : K = {l[i].key : i \in 1..n}
    OBVIOUS
  <2>3. Cardinality(K) = n
    BY <2>1, <2>2
  <2>4. \A i, j \in 1..n : l[i].key = l[j].key => i = j
    BY <1>6, <2>2, <2>3, OnceEach
  <2>5. QED
    BY <2>1, <2>4
<1>. DEFINE Read(T) ==
         \A y \in Edges :
            /\ ~Inserts(B, y) /\ Deletes(B, y) => DurableIn(T, y) = Deleted
            /\ ~Inserts(B, y) /\ ~Deletes(B, y) => DurableIn(T, y) = DurableIn(segments, y)
<1>14. Read(segments')
  <2>1. PICK S : S = segments'
    OBVIOUS
  <2>2. N = Normalize(Mutations(Taken(n)))
    BY <1>2, <1>3
  <2>3. S = segments \cup (IF N = {} THEN {} ELSE {SegmentOf(N)})
    BY <1>4, <2>1
  <2>4. n \in 1..Len(log)
    BY <1>1
  <2>5. \A y \in Edges :
          /\ ~Inserts(Taken(n), y) /\ Deletes(Taken(n), y) => DurableIn(S, y) = Deleted
          /\ ~Inserts(Taken(n), y) /\ ~Deletes(Taken(n), y) => DurableIn(S, y) = DurableIn(segments, y)
    BY <2>2, <2>3, <2>4, IngestedSegments, ZenonT(60)
  <2>6. Read(S)
    BY <1>2, <2>5
  <2>7. QED
    BY <2>1, <2>6
<1>11. ASSUME NEW x \in Edges, NEW p \in {x, Flip(x)}, LayeredIn(segments', chunks', base', x, p) # NoEdge,
              NEW k \in Keys, k = x[3], NEW image, image = RowAt(k, n)
       PROVE  image # Absent /\ x = EdgeOf(k, image)
  <2>1. ASSUME ~Inserts(B, x), ~Deletes(B, x)
        PROVE  RowAt(k, 0) # Absent /\ x = EdgeOf(k, RowAt(k, 0))
    <3>1. DurableIn(segments', x) = DurableIn(segments, x)
      BY <1>14, <2>1
    <3>2. LayeredIn(segments', chunks', base', x, p) = LayeredIn(segments, chunks, base, x, p)
      BY <1>1, <3>1 DEF LayeredIn
    <3>3. OutView(x) # NoEdge \/ InView(x) # NoEdge
      BY <1>11, <3>2, Reads
    <3>4. Ingested(k) # Absent /\ x = EdgeOf(k, Ingested(k))
      BY <1>11, <3>3 DEF NoPhantomEdge
    <3>5. Ingested(k) = RowAt(k, 0)
      BY Rows
    <3>6. QED
      BY <3>4, <3>5
  <2>2. ASSUME ~Inserts(B, x) PROVE ~Deletes(B, x)
    <3>1. SUFFICES ASSUME Deletes(B, x) PROVE FALSE
      OBVIOUS
    <3>2. DurableIn(segments', x) = Deleted
      BY <1>14, <2>2, <3>1
    <3>3. LayeredIn(segments', chunks', base', x, p) = NoEdge
      BY <3>2 DEF LayeredIn
    <3>4. QED
      BY <1>11, <3>3
  <2>3. ASSUME NEW e \in B, NEW r, x = EdgeOf(e.key, r) PROVE e.key = k
    BY <1>11, <2>3 DEF EdgeOf
  <2>4. CASE \A i \in 1..n : log[i].key # k
    <3>1. ~Inserts(B, x) /\ ~Deletes(B, x)
      <4>1. \A e \in B : e.key # k
        BY <1>9, <2>4
      <4>2. \A e \in B : x # EdgeOf(e.key, e.new) /\ x # EdgeOf(e.key, e.old)
        BY <2>3, <4>1
      <4>3. QED
        BY <4>2 DEF Inserts, Deletes
    <3>2. \A j \in 1..Len(log) : 0 < j /\ j <= n => log[j].key # k
      BY <1>6, <2>4
    <3>3. RowAt(k, 0) = RowAt(k, n)
      BY <1>6, <3>2, RowSkip
    <3>4. QED
      BY <1>11, <2>1, <3>1, <3>3
  <2>5. CASE \E i \in 1..n : log[i].key = k
    <3>1. PICK i \in 1..n : log[i].key = k
      BY <2>5
    <3>2. PICK e : e = log[i]
      OBVIOUS
    <3>3. i \in 1..Len(log) /\ i \in Int /\ i - 1 \in Int /\ 0 <= i - 1 /\ i <= n /\ e \in B /\ e.key = k
      BY <1>2, <1>6, <3>1, <3>2 DEF Taken
    <3>4. RowAt(k, i - 1) = e.old /\ RowAt(k, i) = e.new
      BY <3>1, <3>2, <3>3, RowSteps
    <3>5. \A j \in 1..Len(log) : (0 < j /\ j <= i - 1 => log[j].key # k) /\ (i < j /\ j <= n => log[j].key # k)
      <4> SUFFICES ASSUME NEW j \in 1..Len(log), log[j].key = k, j <= n PROVE j = i
        BY <1>6, <3>3
      <4>1. j \in 1..n
        BY <1>6
      <4>2. QED
        BY <1>10, <3>1, <4>1
    <3>6. RowAt(k, 0) = RowAt(k, i - 1)
      <4>1. PICK h \in Int : h = i - 1
        BY <3>3
      <4>2. RowAt(k, 0) = RowAt(k, h)
        BY <3>3, <3>5, <4>1, RowSkip
      <4>3. QED
        BY <4>1, <4>2
    <3>7. RowAt(k, i) = RowAt(k, n)
      BY <1>6, <3>3, <3>5, RowSkip
    <3>8. \A f \in B : f.key = k => f = e
      BY <1>9, <1>10, <3>1, <3>2
    <3>9. CASE Inserts(B, x)
      <4>1. e.new # Absent /\ x = EdgeOf(k, e.new)
        BY <2>3, <3>8, <3>9 DEF Inserts
      <4>2. QED
        BY <1>11, <3>4, <3>7, <4>1
    <3>10. CASE ~Inserts(B, x)
      <4>1. ~Deletes(B, x) /\ e.old # Absent /\ x = EdgeOf(k, e.old)
        BY <2>1, <2>2, <3>4, <3>6, <3>10
      <4>2. Cancels(e)
        BY <3>3, <4>1 DEF Deletes
      <4>3. e.new # Absent /\ x = EdgeOf(k, e.new)
        BY <3>3, <4>1, <4>2 DEF Cancels
      <4>4. QED
        BY <1>11, <3>4, <3>7, <4>3
    <3>11. QED
      BY <3>9, <3>10
  <2>6. QED
    BY <2>4, <2>5
<1>12. ASSUME NEW x \in Edges, OutView(x)' # NoEdge \/ InView(x)' # NoEdge
       PROVE  Ingested(x[3])' # Absent /\ x = EdgeOf(x[3], Ingested(x[3]))'
  <2>1. PICK k \in Keys : k = x[3]
    BY EdgeFacts
  <2>2. PICK image : image = RowAt(k, n)
    OBVIOUS
  <2>3. \E p \in {x, Flip(x)} : LayeredIn(segments', chunks', base', x, p) # NoEdge
    BY <1>12, Reads
  <2>4. image # Absent /\ x = EdgeOf(k, image)
    BY <1>11, <2>1, <2>2, <2>3
  <2>5. RowIn(log', rows', k, 0) = image
    <3>1. 0 \in 0..(Len(log) - n) /\ 0 + n = n
      BY <1>6
    <3>2. QED
      BY <1>1, <1>7, <2>2, <3>1, RowsShift
  <2>6. Ingested(k)' = RowIn(log', rows', k, 0)
    <3>1. log' \in Seq(Entry)
      BY <1>7 DEF Shifted
    <3>2. {i \in DOMAIN log' : log'[i].key = k} = {i \in DOMAIN log' : i > 0 /\ log'[i].key = k}
      BY <3>1
    <3>3. QED
      BY <3>2 DEF Ingested, RowIn
  <2>7. Ingested(x[3])' = image
    BY <2>1, <2>5, <2>6 DEF Ingested
  <2>8. EdgeOf(x[3], Ingested(x[3]))' = EdgeOf(k, image)
    BY <2>1, <2>7 DEF EdgeOf
  <2>9. QED
    BY <2>4, <2>7, <2>8
<1>13. QED
  BY <1>12 DEF NoPhantomEdge

----------------------------------------------------------------------------
\* The theorems.

\* Whatever the transactions, ingestions, compactions and rebuilds do, the log,
\* the base artifact, the chunks, the segments and the ranges of a rewrite keep
\* their types.
THEOREM LayeredTypes == Spec => []TypeOK
<1>1. IInv => TypeOK
  BY DEF IInv
<1>2. QED
  BY <1>1, IInvAlways, PTL

\* publish_base_chunk_rewrite_inner leaves no two chunks for one source node, in
\* whatever order expand_dirty_ranges met the earlier ones, and no two segments
\* of a manifest carry one watermark: the order in which LayeredBuilder applies
\* the layers is the order of the changes.
THEOREM LayersStayOrdered == Spec => []LayersOrdered
<1>1. IInv => LayersOrdered
  BY DEF IInv
<1>2. QED
  BY <1>1, IInvAlways, PTL

\* Until compaction writes chunks, the edge of every row that the watermark
\* accounts for is read: no batch of any size, no cancellation in
\* normalize_edges, no suppressed duplicate and no merged segment drops it.
THEOREM NoEdgeLost == Spec => []NoLostEdge
<1>1. IInv => NoLostEdge
  BY DEF IInv
<1>2. QED
  BY <1>1, IInvAlways, PTL

\* compact_generation, in either of its forms, publishes a generation that reads
\* like the one it replaces, as long as no earlier compaction has left chunks: in
\* a table with weights only the weight of an edge without one becomes 1.
THEOREM CompactionUnseen == Spec => CompactionKeepsView
<1> DEFINE Unseen(x) ==
        /\ (\E threshold \in Thresholds : CompactSegments(threshold)) => OutView(x)' = OutView(x)
        /\ FinishRewrite => \/ OutView(x)' = OutView(x)
                            \/ Weights # {} /\ OutView(x) = NoWeight /\ OutView(x)' = 1
<1>1. ASSUME IInv, chunks = {}, NEW x \in Edges PROVE Unseen(x)
  <2>1. ASSUME NEW threshold \in Thresholds, CompactSegments(threshold) PROVE OutView(x)' = OutView(x)
    <3>1. segments # {} /\ segments' = {CompactedSegment} /\ base' = base /\ chunks' = {}
      BY <1>1, <2>1 DEF CompactSegments
    <3>2. LayeredIn({CompactedSegment}, {}, base, x, x) = LayeredIn(segments, {}, base, x, x)
      BY <1>1, <3>1, CompactReads
    <3>3. QED
      BY <1>1, <3>1, <3>2, Reads
  <2>2. ASSUME FinishRewrite
        PROVE  \/ OutView(x)' = OutView(x)
               \/ Weights # {} /\ OutView(x) = NoWeight /\ OutView(x)' = 1
    <3>1. segments' = {} /\ base' = base /\ chunks' = RewrittenChunks /\ expanding # {}
      BY <2>2 DEF FinishRewrite
    <3>2. LayeredIn({}, RewrittenChunks, base, x, x) \in {OutView(x), WeightInChunk(OutView(x))}
      BY <1>1, <3>1, RewriteReads
    <3>3. OutView(x)' \in {OutView(x), WeightInChunk(OutView(x))}
      BY <3>1, <3>2, Reads
    <3>4. QED
      BY <3>3 DEF WeightInChunk
  <2>3. QED
    BY <2>1, <2>2
<1>2. IInv => [chunks = {} => \A x \in Edges : Unseen(x)]_vars
  BY <1>1
<1>3. QED
  BY <1>2, IInvAlways, PTL DEF CompactionKeepsView

\* ingest_committed_rows_locked keeps an exact read exact, whatever the layers,
\* if its batch changes no row twice: a deleted or redirected relationship is
\* gone, from its source and from its target.
THEOREM IngestExact == Spec => IngestStaysExact
<1>1. IInv => [\A n \in 1..MaxBatch :
                 Ingest(n) /\ NoPhantomEdge /\ Cardinality({log[i].key : i \in 1..n}) = n
                   => NoPhantomEdge']_vars
  BY IngestExactly
<1>2. QED
  BY <1>1, IInvAlways, PTL DEF IngestStaysExact
=============================================================================
