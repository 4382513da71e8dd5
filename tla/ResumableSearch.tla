---------------------------- MODULE ResumableSearch ----------------------------
(***************************************************************************)
(* The statements that drive a resumable search: traverse(),               *)
(* shortest_path() and weighted_shortest_path() under row security.  The   *)
(* engine is borrowed to cut a batch of candidates and released while      *)
(* PostgreSQL decides which of them the caller may see; it is borrowed     *)
(* again to admit them.  In between the projection may change, which the   *)
(* machine notices by the epoch it was bound to.                           *)
(*                                                                         *)
(* Every verdict holds for the whole statement (one snapshot, and          *)
(* VisibilityStatementCache remembers it).  A node that is tombstoned, of  *)
(* another tenant or filtered out is skipped exactly like a hidden one, so *)
(* hidden stands for all of these.                                         *)
(***************************************************************************)
EXTENDS TraversalMachine, PathMachines

CONSTANTS
    Requests,   \* [kind, source, target, maxDepth, maxNodes, maxFrontier, page, keys]
    Hideable    \* items that PostgreSQL may hide from the caller

\* limits.max_candidates and the key budget are positive; nothing is assumed of the others.
ASSUME RequestAssumption ==
    Requests \subseteq [kind : {"bfs", "dfs", "single", "bidirectional", "dijkstra"},
                        source : Nodes, target : Nodes, maxDepth : Int, maxNodes : Nat,
                        maxFrontier : Nat, page : Nat \ {0}, keys : Nat \ {0}]

VARIABLES
    graph,      \* the relationships of the loaded projection
    epoch,      \* bfs_projection_epoch(): how often the projection has changed
    request,    \* the statement's arguments
    bound,      \* the epoch that the machine is bound to
    machine,    \* the search
    phase,      \* "start", "running", "done", "empty" or "failed"
    decided,    \* items of Hideable that PostgreSQL has decided on
    hidden      \* those of them that it hides

vars == <<graph, epoch, request, bound, machine, phase, decided, hidden>>
visVars == <<decided, hidden>>

Traversals == {"bfs", "dfs"}

NewMachine(req) ==
    CASE req.kind \in Traversals      -> NewTraversal(req)
      [] req.kind = "single"          -> NewSingle(req)
      [] req.kind = "bidirectional"   -> NewBidirectional(req)
      [] req.kind = "dijkstra"        -> NewDijkstra(req)

Materialized(m, req, g) ==
    CASE req.kind \in Traversals    -> MaterializeTraversal(m, req, g)
      [] req.kind \notin Traversals /\ m.state = "endpoints" -> MaterializeEndpoints(m, req)
      [] req.kind = "single" /\ m.state = "candidates"        -> MaterializeSingle(m, req, g)
      [] req.kind = "bidirectional" /\ m.state = "candidates" -> MaterializeBidirectional(m, req, g)
      [] req.kind = "dijkstra" /\ m.state = "candidates"      -> MaterializeDijkstra(m, req, g)

Admitted(m, req, h) ==
    CASE req.kind \in Traversals -> AdmitTraversal(m, req, h)
      [] req.kind \notin Traversals /\ m.batchKind = "endpoints" -> AdmitEndpoints(m, req, h)
      [] req.kind \notin Traversals /\ m.batchKind = "adjacency" -> AdmitCandidates(m, req, h)

Init ==
    /\ graph \in SUBSET DOMAIN Universe
    /\ request \in Requests
    /\ epoch = 0 /\ bound = 0
    /\ machine = NewMachine(request)
    /\ phase = "start"
    /\ decided = {} /\ hidden = {}

\* resolve_bfs_visibility_batch: PostgreSQL decides on what it was not asked before.
Resolve(items) ==
    /\ decided' = decided \cup (items \cap Hideable)
    /\ \E h \in SUBSET ((items \cap Hideable) \ decided) : hidden' = hidden \cup h

\* The seed or the source is proved visible before the search starts; a hidden one
\* gives no rows.
ProveSource ==
    /\ phase = "start"
    /\ Resolve({<<"node", request.source>>})
    /\ phase' = IF <<"node", request.source>> \in hidden' THEN "empty" ELSE "running"
    /\ bound' = epoch
    /\ UNCHANGED <<graph, epoch, request, machine>>

\* Faulty: the machine is used whatever happened to the projection.
EpochAssumed == TRUE

\* require_projection_epoch
EpochUnchanged == bound = epoch

Materialize ==
    /\ phase = "running"
    /\ machine.state \in {"endpoints", "candidates"}
    /\ EpochUnchanged
    /\ machine' = Materialized(machine, request, graph)
    /\ UNCHANGED <<graph, epoch, request, bound, phase, visVars>>

\* The batch is resolved outside the engine and then admitted.
Admit ==
    LET items == UNION {{<<"node", machine.batch[i].to>>, <<"edge", machine.batch[i].id>>} :
                           i \in DOMAIN machine.batch}
    IN
    /\ phase = "running"
    /\ machine.state = "visibility"
    /\ EpochUnchanged
    /\ Resolve(items)
    /\ machine' = Admitted(machine, request, hidden')
    /\ UNCHANGED <<graph, epoch, request, bound, phase>>

Finish ==
    /\ phase = "running"
    /\ machine.state = "complete"
    /\ EpochUnchanged
    /\ phase' = "done"
    /\ UNCHANGED <<graph, epoch, request, bound, machine, visVars>>

\* The epoch check fails: "projection changed ...; retry the graph query".
Reject ==
    /\ phase = "running"
    /\ ~EpochUnchanged
    /\ phase' = "failed"
    /\ UNCHANGED <<graph, epoch, request, bound, machine, visVars>>

\* Code that runs while the engine is not borrowed, a policy's function or an
\* interrupt, changes the projection: here, once, to the other relationships.
ChangeProjection ==
    /\ phase = "running"
    /\ epoch = 0
    /\ epoch' = 1
    /\ graph' = (DOMAIN Universe) \ graph
    /\ UNCHANGED <<request, bound, machine, phase, visVars>>

\* The statement has returned.
Returned ==
    /\ phase \in {"done", "empty", "failed"}
    /\ UNCHANGED vars

Next == ProveSource \/ Materialize \/ Admit \/ Finish \/ Reject \/ ChangeProjection \/ Returned

\* The state predicate ENABLED (Materialize \/ Admit), written out.
Searching ==
    phase = "running" /\ EpochUnchanged /\ machine.state \in {"endpoints", "candidates", "visibility"}

\* The backend that executes the statement keeps running.  The second conjunct is
\* weak fairness of the two search steps, neither of which is ever a stutter, with
\* Searching for their ENABLED.
Fairness ==
    /\ WF_vars(ProveSource \/ Finish \/ Reject)
    /\ []<>(~Searching) \/ []<><<Materialize \/ Admit>>_vars

Spec == Init /\ [][Next]_vars /\ Fairness

----------------------------------------------------------------------------
\* Types; a batch fits its page, and depths and parents agree on what was reached.
TypeOK ==
    /\ graph \subseteq DOMAIN Universe
    /\ epoch \in 0..1 /\ bound \in 0..epoch
    /\ phase \in {"start", "running", "done", "empty", "failed"}
    /\ machine.state \in {"endpoints", "candidates", "visibility", "complete"}
    /\ hidden \subseteq decided /\ decided \subseteq Hideable
    /\ Len(machine.batch) <= Min({request.page, request.keys})
    /\ machine.batch = <<>> <=> machine.state # "visibility"
    /\ machine.scan.active \in Nodes \cup {NoNode}
    /\ request.kind \in Traversals =>
          \A n \in Nodes : machine.depth[n] >= 0 <=> machine.parent[n] \in Nodes

Both == request.kind = "bidirectional"

\* Whatever the page size, the key budget and the moments at which it is suspended,
\* a search returns what the eager search returns that knows every verdict
\* beforehand: a traversal the same nodes with the same depths and parents and the
\* same answer to whether a circuit breaker cut it off, a path search the very
\* same path, so that among paths of equal length paging does not change the choice.
SearchMatchesEager ==
    phase = "done" =>
        IF request.kind \in Traversals
        THEN LET eager == Eager(request, graph, hidden) IN
             /\ machine.depth = eager.depth
             /\ machine.parent = eager.parent
             /\ machine.truncated = eager.truncated
        ELSE PathOf(machine, request) = EagerPath(request, graph, hidden)

\* A breadth-first traversal that is not capped returns exactly the nodes within
\* max_depth visible hops, each at its distance; a depth-first one returns only
\* such nodes, and all that can be reached when the depth limit cannot bind.
TraversalComplete ==
    phase = "done" /\ request.kind \in Traversals =>
        LET reach   == Within(graph, FALSE, hidden, request.source)
            near    == {n \in Nodes : Distance(reach, n) <= request.maxDepth}
            exact   == request.kind = "bfs" \/ request.maxDepth >= NodeCount
        IN  /\ Visited(machine) \subseteq near
            /\ exact /\ ~machine.truncated => Visited(machine) = near
            /\ request.kind = "bfs" =>
                  \A n \in Visited(machine) : machine.depth[n] = Distance(reach, n)
            /\ \A n \in Visited(machine) :
                  machine.depth[n] = Len(Chain(machine.parent, request.source, n)) - 1

\* A path search returns a path of visible nodes over visible relationships that is
\* as short (or as cheap) as any within the depth limit, and returns none only if
\* there is none, although it only ever saw the verdicts it asked for.
PathIsShortest ==
    phase = "done" /\ request.kind \notin Traversals =>
        LET reach  == Within(graph, Both, hidden, request.source)
            path   == PathOf(machine, request)
            costs  == CheapestCosts(graph, FALSE, hidden, request.source)
            least  == IF request.kind = "dijkstra" THEN costs[request.target]
                      ELSE Distance(reach, request.target)
            exists == /\ {<<"node", request.source>>, <<"node", request.target>>} \cap hidden = {}
                      /\ least < Infinity
                      /\ request.kind # "dijkstra" /\ request.source # request.target =>
                            least <= request.maxDepth
        IN  /\ path.found = exists
            /\ path.found =>
                  /\ path.cost = least
                  /\ Head(path.nodes) = request.source /\ Last(path.nodes) = request.target
                  /\ \A i \in 1..(Len(path.nodes) - 1) :
                        Links(graph, Both, hidden, path.nodes[i], path.nodes[i + 1]) # {}

\* A finished search is exact by the definitions of distance and cost, not only by
\* comparison with its eager twin.
SearchIsExact == TraversalComplete /\ PathIsShortest

\* Nothing is expanded before PostgreSQL has shown it: the node being read, like
\* every node waiting to be, is visible and was reached through visible ones.
OnlyVisibleExpanded ==
    LET waiting == CASE request.kind \in Traversals    -> Range(machine.frontier)
                     [] request.kind = "single"        -> Range(machine.tree.frontier)
                     [] request.kind = "bidirectional" ->
                          IF machine.state = "endpoints" \/ machine.batchKind = "endpoints" \/ machine.endpointHidden
                          THEN {} ELSE Range(machine.forward.frontier) \cup Range(machine.backward.frontier)
                     [] request.kind = "dijkstra"      ->
                          IF machine.endpointHidden THEN {} ELSE {h[2] : h \in machine.heap}
    IN  phase \in {"running", "done"} =>
          \A n \in (waiting \cup {machine.scan.active}) \ {NoNode} : <<"node", n>> \notin hidden

\* Every search ends, with a result or an error: no page, stale heap entry or
\* batch of filtered or hidden candidates keeps the statement busy for ever.
SearchTerminates == <>(phase \in {"done", "empty", "failed"})
================================================================================
