--------------------------- MODULE TraversalMachine ---------------------------
(***************************************************************************)
(* ResumableBfsMachine of bfs.rs: breadth-first and depth-first traversal  *)
(* from one seed that stops after every candidate batch, and the eager     *)
(* traversals that answer the same request in one go when visibility was   *)
(* decided beforehand.  A machine is a record, its steps are operators     *)
(* from machine to machine, as the code's are functions of &mut Self.      *)
(***************************************************************************)
EXTENDS SearchGraph

\* try_new_with_strategy
NewTraversal(req) ==
    [ state     |-> IF req.maxDepth <= 0 THEN "complete" ELSE "candidates",
      frontier  |-> IF req.maxDepth <= 0 THEN <<>> ELSE <<req.source>>,
      depth     |-> [n \in Nodes |-> IF n = req.source THEN 0 ELSE -1],
      parent    |-> [n \in Nodes |-> IF n = req.source THEN n ELSE NoNode],
      truncated |-> FALSE,
      scan      |-> Resting,
      batch     |-> <<>> ]

Visited(m) == {n \in Nodes : m.depth[n] >= 0}

\* Admission of one candidate, in apply_visibility_verdicts and in the eager
\* loops; nothing is admitted once a circuit breaker has tripped.
Visit(m, req, c) ==
    LET d        == m.depth[c.from] + 1
        tooMany  == Cardinality(Visited(m)) + 1 >= req.maxNodes
        pushed   == ~tooMany /\ d < req.maxDepth
        frontier == IF pushed THEN Append(m.frontier, c.to) ELSE m.frontier
    IN  IF m.truncated \/ c.to \in Visited(m) THEN m
        ELSE [m EXCEPT !.depth[c.to] = d, !.parent[c.to] = c.from, !.frontier = frontier,
                       !.truncated = tooMany \/ (pushed /\ Len(frontier) >= req.maxFrontier)]

\* next_candidate_limit
CandidateLimit(m, req) ==
    Min({req.page,
         Max({1, req.maxNodes - Cardinality(Visited(m))}),
         Max({1, req.maxFrontier - Len(m.frontier)})})

DepthFirst(req) == req.kind = "dfs"
Rows(req, g, n) ==
    IF DepthFirst(req) THEN Reverse(Adjacency(g, FALSE, n)) ELSE Adjacency(g, FALSE, n)
NextOf(req, frontier) == IF DepthFirst(req) THEN Last(frontier) ELSE Head(frontier)
RestOf(req, frontier) == IF DepthFirst(req) THEN Front(frontier) ELSE Tail(frontier)

\* materialize_bfs_candidate_batch.  A page without candidates is progress; the
\* caller asks again.
MaterializeTraversal(m, req, g) ==
    LET pop     == m.scan.active = NoNode
        current == IF pop THEN NextOf(req, m.frontier) ELSE m.scan.active
        opened  == IF pop THEN Opened(current) ELSE m.scan
        filled  == Filled(opened, Rows(req, g, current), CandidateLimit(m, req))
        taken   == TakenCount(filled.pending, req.keys, NoNode)
        left    == Leftover(filled, taken)
        batch   == Candidates(filled, taken)
    IN  IF pop /\ m.frontier = <<>> THEN [m EXCEPT !.state = "complete"]
        ELSE [m EXCEPT !.frontier = IF pop THEN RestOf(req, @) ELSE @,
                       !.scan = IF Exhausted(left) THEN Resting ELSE left,
                       !.batch = batch,
                       !.state = IF batch = <<>> THEN "candidates" ELSE "visibility"]

\* The machine after each candidate of its batch, hidden ones passed over.
Visits(m, req, hidden) ==
    LET after[i \in 0..Len(m.batch)] ==
            IF i = 0 THEN m
            ELSE IF Shown(hidden, m.batch[i]) THEN Visit(after[i - 1], req, m.batch[i])
            ELSE after[i - 1]
    IN  after

\* apply_visibility_verdicts
AdmitTraversal(m, req, hidden) ==
    LET admitted == Visits(m, req, hidden)[Len(m.batch)]
    IN  [admitted EXCEPT !.batch = <<>>,
                         !.state = IF admitted.truncated THEN "complete" ELSE "candidates"]

\* One pop of execute_with_neighbors_inner or execute_dfs_with_neighbors_inner.
ExpandTraversal(m, req, g, hidden) ==
    LET n     == NextOf(req, m.frontier)
        shown == SelectSeq(Rows(req, g, n), LAMBDA r : r.ok /\ Shown(hidden, r))
    IN  IF m.truncated \/ m.frontier = <<>> THEN m
        ELSE FoldLeft(LAMBDA acc, r : Visit(acc, req, [from |-> n, to |-> r.to]),
                      [m EXCEPT !.frontier = RestOf(req, @)], shown)

\* The states (one each) after k pops; a node is pushed at most once, so NodeCount
\* pops are enough.
Eager(req, g, hidden) ==
    LET after[k \in 0..NodeCount] ==
            IF k = 0 THEN {NewTraversal(req)}
            ELSE {ExpandTraversal(m, req, g, hidden) : m \in after[k - 1]}
    IN  CHOOSE m \in after[NodeCount] : TRUE
=============================================================================
