------------------------------ MODULE MCSearch ------------------------------
EXTENDS ResumableSearch

Edge(s, t, w) == [s |-> s, t |-> t, w |-> w, ok |-> TRUE]

\* Two routes from 1 to 4, a shortcut, a cycle, a parallel relationship whose type
\* the filter excludes and one that is dearer.
Relationships ==
    << Edge(1, 3, 4), Edge(1, 2, 1), Edge(2, 3, 1), Edge(3, 4, 2),
       Edge(2, 4, 5), Edge(3, 1, 0), Edge(3, 4, 1),
       [Edge(1, 4, 1) EXCEPT !.ok = FALSE] >>

HideableItems == {<<"node", 3>>, <<"node", 4>>, <<"edge", 4>>}

Req(kind, target, depth, nodes, frontier, page, keys) ==
    [kind |-> kind, source |-> 1, target |-> target, maxDepth |-> depth,
     maxNodes |-> nodes, maxFrontier |-> frontier, page |-> page, keys |-> keys]

\* Pages of one and two rows, batches of one and two keys.
Limits == {<<1, 1>>, <<2, 1>>, <<2, 2>>}

SearchRequests ==
    UNION {{ Req("bfs", 1, 2, 9, 9, l[1], l[2]), Req("bfs", 1, 4, 3, 9, l[1], l[2]),
             Req("bfs", 1, 4, 9, 2, l[1], l[2]),
             Req("dfs", 1, 4, 9, 9, l[1], l[2]), Req("dfs", 1, 2, 3, 9, l[1], l[2]),
             Req("single", 4, 2, 9, 9, l[1], l[2]), Req("single", 4, 3, 9, 9, l[1], l[2]),
             Req("bidirectional", 4, 2, 9, 9, l[1], l[2]), Req("bidirectional", 4, 3, 9, 9, l[1], l[2]),
             Req("dijkstra", 4, 0, 9, 9, l[1], l[2]) } : l \in Limits}
    \cup { Req(kind, 1, 0, 9, 9, 2, 2) : kind \in {"bfs", "single", "bidirectional", "dijkstra"} }
    \cup { Req(kind, 4, 0, 9, 9, 2, 2) : kind \in {"single", "bidirectional"} }
=============================================================================
