----------------------------- MODULE PathMachines -----------------------------
(***************************************************************************)
(* The resumable path searches of path_finder.rs: breadth-first from the   *)
(* source, breadth-first from both ends, and Dijkstra.  Each first asks    *)
(* for the visibility of its endpoints, then alternates between cutting a  *)
(* batch of candidates and admitting the visible ones, and is a record     *)
(* with operators from machine to machine.                                 *)
(***************************************************************************)
EXTENDS SearchGraph

Only(n, value, other) == [x \in Nodes |-> IF x = n THEN value ELSE other]
Side(root) == [frontier |-> <<root>>, depth |-> Only(root, 0, -1), parent |-> Only(root, root, NoNode)]
Seen(side) == {n \in Nodes : side.depth[n] >= 0}

\* In all three machines: state, the scan, the batch and its kind, and the visibility
\* protocol of the endpoints.
NewSingle(req) ==
    [ state |-> "endpoints", scan |-> Resting, batch |-> <<>>, batchKind |-> "none",
      endpointCursor |-> 0, endpointHidden |-> FALSE, found |-> FALSE,
      tree |-> [Side(req.source) EXCEPT !.frontier = <<>>] ]

NewBidirectional(req) ==
    [ state |-> "endpoints", scan |-> Resting, batch |-> <<>>, batchKind |-> "none",
      endpointCursor |-> 0, endpointHidden |-> FALSE, found |-> FALSE,
      forward |-> Side(req.source), backward |-> Side(req.target), side |-> "none",
      levelRemaining |-> 0, round |-> 0, meet |-> NoNode, best |-> Infinity ]

NewDijkstra(req) ==
    [ state |-> "endpoints", scan |-> Resting, batch |-> <<>>, batchKind |-> "none",
      endpointCursor |-> 0, endpointHidden |-> FALSE, found |-> FALSE,
      dist |-> Only(req.source, 0, Infinity), parent |-> Only(req.source, req.source, NoNode),
      heap |-> {<<0, req.source>>} ]

----------------------------------------------------------------------------
Endpoints(req) == IF req.source = req.target THEN <<req.source>> ELSE <<req.source, req.target>>

\* materialize_endpoint_batch
MaterializeEndpoints(m, req) ==
    LET end == Min({m.endpointCursor + Min({req.page, req.keys}), Len(Endpoints(req))}) IN
    [m EXCEPT !.endpointCursor = end, !.batchKind = "endpoints", !.state = "visibility",
              !.batch = [i \in 1..(end - m.endpointCursor) |->
                           LET n == Endpoints(req)[m.endpointCursor + i]
                           IN  [from |-> n, to |-> n, id |-> 0, w |-> 0]]]

\* finish_path_batch, or progress when the page held no candidate.
Batched(m, batch) ==
    [m EXCEPT !.batch = batch, !.batchKind = "adjacency",
              !.state = IF batch = <<>> THEN "candidates" ELSE "visibility"]

Complete(m) == [m EXCEPT !.state = "complete"]
Found(m)    == [Complete(m) EXCEPT !.found = TRUE]

\* apply_endpoint_verdicts and what the machines do with the outcome.
AdmitEndpoints(m, req, hidden) ==
    LET h    == m.endpointHidden \/ \E i \in DOMAIN m.batch : ~Shown(hidden, m.batch[i])
        next == [m EXCEPT !.endpointHidden = h, !.batch = <<>>, !.batchKind = "none",
                          !.state = "candidates"]
    IN  IF m.endpointCursor < Len(Endpoints(req)) THEN [next EXCEPT !.state = "endpoints"]
        ELSE IF h THEN Complete(next)
        ELSE CASE req.kind = "single" /\ req.source = req.target -> Found(next)
               [] req.kind = "single" /\ req.source # req.target ->
                    IF req.maxDepth <= 0 THEN Complete(next)
                    ELSE [next EXCEPT !.tree.frontier = <<req.source>>]
               [] req.kind = "bidirectional" ->
                    IF req.source = req.target THEN Found([next EXCEPT !.meet = req.source]) ELSE next
               [] req.kind = "dijkstra" -> next

----------------------------------------------------------------------------
(* Single direction *)

\* materialize_single_direction_path_batch; nodes at the depth limit are dropped
\* from the frontier without being read.  A batch ends at the target, and the node
\* is then not done with.
MaterializeSingle(m, req, g) ==
    LET pop     == m.scan.active = NoNode
        within  == Ascending({i \in DOMAIN m.tree.frontier : m.tree.depth[m.tree.frontier[i]] < req.maxDepth})
        queue   == [k \in DOMAIN within |-> m.tree.frontier[within[k]]]
        current == IF pop THEN Head(queue) ELSE m.scan.active
        filled  == Filled(IF pop THEN Opened(current) ELSE m.scan, Adjacency(g, FALSE, current), req.page)
        taken   == TakenCount(filled.pending, req.keys, req.target)
        left    == Leftover(filled, taken)
        batch   == Candidates(filled, taken)
        stopped == batch # <<>> /\ Last(batch).to = req.target
        done    == Exhausted(left) /\ ~stopped
        rest    == IF pop THEN Tail(queue) ELSE m.tree.frontier
        next    == [m EXCEPT !.tree.frontier = rest, !.scan = IF done THEN Resting ELSE left]
    IN  IF pop /\ queue = <<>> THEN Complete(m)
        ELSE IF batch = <<>> /\ done /\ rest = <<>> THEN Complete(next)
        ELSE Batched(next, batch)

Grow(side, c, d) ==
    [side EXCEPT !.depth[c.to] = d, !.parent[c.to] = c.from, !.frontier = Append(@, c.to)]

\* One visible candidate.  The search is over when it is the target.
ReachSingle(m, req, c) ==
    IF m.found \/ c.to \in Seen(m.tree) THEN m
    ELSE [m EXCEPT !.tree = Grow(@, c, m.tree.depth[c.from] + 1), !.found = (c.to = req.target)]

----------------------------------------------------------------------------
(* Both directions, over relationships that are stored at both of their nodes *)

LevelDone(m) == m.side # "none" /\ m.scan.active = NoNode /\ m.levelRemaining = 0

Selected(m) == IF Len(m.forward.frontier) <= Len(m.backward.frontier) THEN "forward" ELSE "backward"

\* materialize_bidirectional_path_batch: a level is completed before its meeting is
\* taken; rounds of both sides count against the depth limit.
MaterializeBidirectional(m, req, g) ==
    LET done    == LevelDone(m)
        round   == IF done THEN m.round + 1 ELSE m.round
        choose  == done \/ m.side = "none"
        side    == IF choose THEN Selected(m) ELSE m.side
        level   == IF choose THEN Len(m[side].frontier) ELSE m.levelRemaining
        pop     == m.scan.active = NoNode
        current == IF pop THEN Head(m[side].frontier) ELSE m.scan.active
        filled  == Filled(IF pop THEN Opened(current) ELSE m.scan, Adjacency(g, TRUE, current), req.page)
        taken   == TakenCount(filled.pending, req.keys, NoNode)
        left    == Leftover(filled, taken)
    IN  IF done /\ m.meet # NoNode THEN Found(m)
        ELSE IF choose /\ (m.forward.frontier = <<>> \/ m.backward.frontier = <<>> \/ round >= req.maxDepth)
        THEN Complete([m EXCEPT !.round = round, !.side = "none"])
        ELSE Batched([m EXCEPT !.round = round, !.side = side,
                               !.levelRemaining = IF pop THEN level - 1 ELSE level,
                               ![side].frontier = IF pop THEN Tail(@) ELSE @,
                               !.scan = IF Exhausted(left) THEN Resting ELSE left],
                     Candidates(filled, taken))

Opposite(side) == IF side = "forward" THEN "backward" ELSE "forward"

\* One visible candidate: it joins this side, and may be where the sides meet.
ReachBoth(m, c) ==
    LET mine     == IF c.to \in Seen(m[m.side]) THEN m[m.side] ELSE Grow(m[m.side], c, m.round + 1)
        other    == m[Opposite(m.side)]
        combined == mine.depth[c.to] + other.depth[c.to]
        meets    == c.to \in Seen(other) /\ combined < m.best
    IN  [m EXCEPT ![m.side] = mine,
                  !.best = IF meets THEN combined ELSE @,
                  !.meet = IF meets THEN c.to ELSE @]

----------------------------------------------------------------------------
(* Dijkstra *)

\* Reverse((cost, node)) order of the heap.
Least(heap) ==
    CHOOSE h \in heap : \A x \in heap : h[1] < x[1] \/ (h[1] = x[1] /\ h[2] <= x[2])

\* materialize_resumable_dijkstra_batch: heap entries above the settled distance
\* are stale and skipped, the target ends the search.
MaterializeDijkstra(m, req, g) ==
    LET pop     == m.scan.active = NoNode
        live    == {h \in m.heap : h[1] <= m.dist[h[2]]}
        current == IF pop THEN Least(live)[2] ELSE m.scan.active
        heap    == IF pop THEN {h \in live : h # Least(live)} ELSE m.heap
        filled  == Filled(IF pop THEN Opened(current) ELSE m.scan, Adjacency(g, FALSE, current), req.page)
        taken   == TakenCount(filled.pending, req.keys, NoNode)
        left    == Leftover(filled, taken)
    IN  IF pop /\ (live = {} \/ current = req.target) THEN Complete([m EXCEPT !.heap = heap])
        ELSE Batched([m EXCEPT !.heap = heap, !.scan = IF Exhausted(left) THEN Resting ELSE left],
                     Candidates(filled, taken))

\* Faulty: the first cost that reaches a node stands.
RelaxedOnce(m, c) ==
    LET cost == m.dist[c.from] + c.w IN
    IF m.dist[c.to] < Infinity THEN m
    ELSE [m EXCEPT !.dist[c.to] = cost, !.parent[c.to] = c.from, !.heap = @ \cup {<<cost, c.to>>}]

Relaxed(m, c) ==
    LET cost == m.dist[c.from] + c.w IN
    IF cost >= m.dist[c.to] THEN m
    ELSE [m EXCEPT !.dist[c.to] = cost, !.parent[c.to] = c.from, !.heap = @ \cup {<<cost, c.to>>}]

----------------------------------------------------------------------------
Reached(m, req, c) ==
    CASE req.kind = "single"        -> ReachSingle(m, req, c)
      [] req.kind = "bidirectional" -> ReachBoth(m, c)
      [] req.kind = "dijkstra"      -> Relaxed(m, c)

\* The machine after each candidate of its batch, hidden ones passed over.
Reaches(m, req, hidden) ==
    LET after[i \in 0..Len(m.batch)] ==
            IF i = 0 THEN m
            ELSE IF Shown(hidden, m.batch[i]) THEN Reached(after[i - 1], req, m.batch[i])
            ELSE after[i - 1]
    IN  after

\* apply_single_direction_path_verdicts, apply_bidirectional_path_verdicts and
\* apply_resumable_dijkstra_verdicts; only the first ends the search here.
AdmitCandidates(m, req, hidden) ==
    LET after == Reaches(m, req, hidden)[Len(m.batch)]
    IN  [after EXCEPT !.batch = <<>>, !.batchKind = "none",
                      !.state = IF after.found THEN "complete" ELSE "candidates"]

----------------------------------------------------------------------------
NoPath == [found |-> FALSE, nodes |-> <<>>, cost |-> Infinity]

\* finish_with: path_from_single_parents, path_from_bidirectional_parents and
\* weighted_path_from_parents.
PathOf(m, req) ==
    LET nodes == CASE req.kind = "single" -> Chain(m.tree.parent, req.source, req.target)
                   [] req.kind = "bidirectional" ->
                        Chain(m.forward.parent, req.source, m.meet)
                          \o Tail(Reverse(Chain(m.backward.parent, req.target, m.meet)))
                   [] req.kind = "dijkstra" -> Chain(m.parent, req.source, req.target)
        found == IF req.kind = "dijkstra"
                 THEN ~m.endpointHidden /\ m.dist[req.target] < Infinity ELSE m.found
    IN  IF ~found THEN NoPath
        ELSE [found |-> TRUE, nodes |-> nodes,
              cost |-> IF req.kind = "dijkstra" THEN m.dist[req.target] ELSE Len(nodes) - 1]

----------------------------------------------------------------------------
(* The eager searches, which know every verdict: one step reads all visible *)
(* rows of a node or, from both sides, of a level.                          *)

ShownRows(g, both, hidden, n) ==
    LET rows == SelectSeq(Adjacency(g, both, n), LAMBDA r : r.ok /\ Shown(hidden, r))
    IN  [i \in DOMAIN rows |-> [from |-> n, to |-> rows[i].to, w |-> rows[i].w]]

\* single_direction_bfs
ExpandSingle(m, req, g, hidden) ==
    LET n    == Head(m.tree.frontier)
        rest == [m EXCEPT !.tree.frontier = Tail(@)]
    IN  IF m.found \/ m.tree.frontier = <<>> THEN m
        ELSE IF m.tree.depth[n] >= req.maxDepth THEN rest
        ELSE FoldLeft(LAMBDA acc, c : ReachSingle(acc, req, c), rest, ShownRows(g, FALSE, hidden, n))

\* bidirectional_bfs
ExpandBoth(m, req, g, hidden) ==
    LET side  == Selected(m)
        level == FlattenSeq([i \in DOMAIN m[side].frontier |->
                               ShownRows(g, TRUE, hidden, m[side].frontier[i])])
        after == FoldLeft(ReachBoth, [m EXCEPT !.side = side, ![side].frontier = <<>>], level)
    IN  IF m.found \/ m.round >= req.maxDepth \/ <<>> \in {m.forward.frontier, m.backward.frontier}
        THEN m
        ELSE [after EXCEPT !.found = (after.meet # NoNode), !.round = @ + 1]

\* weighted_shortest_path_with_neighbors_inner
ExpandDijkstra(m, req, g, hidden) ==
    LET live == {h \in m.heap : h[1] <= m.dist[h[2]]}
        n    == Least(live)[2]
    IN  IF live = {} \/ n = req.target THEN [m EXCEPT !.heap = {}]
        ELSE FoldLeft(Relaxed, [m EXCEPT !.heap = live \ {Least(live)}], ShownRows(g, FALSE, hidden, n))

\* shortest_path_with_neighbors_inner; each step settles a node or ends.
EagerPath(req, g, hidden) ==
    LET start == CASE req.kind = "single"        -> [NewSingle(req) EXCEPT !.tree.frontier = <<req.source>>]
                   [] req.kind = "bidirectional" -> NewBidirectional(req)
                   [] req.kind = "dijkstra"      -> NewDijkstra(req)
        expand(m) == CASE req.kind = "single"        -> ExpandSingle(m, req, g, hidden)
                       [] req.kind = "bidirectional" -> ExpandBoth(m, req, g, hidden)
                       [] req.kind = "dijkstra"      -> ExpandDijkstra(m, req, g, hidden)
        after[k \in 0..2 * NodeCount] ==
            IF k = 0 THEN {start} ELSE {expand(m) : m \in after[k - 1]}
        ends == {<<"node", req.source>>, <<"node", req.target>>}
    IN  IF ends \cap hidden # {} THEN NoPath
        ELSE IF req.source = req.target
        THEN [found |-> TRUE, nodes |-> <<req.source>>, cost |-> 0]
        ELSE PathOf(CHOOSE m \in after[2 * NodeCount] : TRUE, req)
=============================================================================
