-------------------------- MODULE TxOverlayReload --------------------------
(***************************************************************************)
(* TxDelta beside another backend that ingests durably: a GQL write first  *)
(* loads the published generation, then runs its DML, whose trigger takes  *)
(* the shared capture lock that ingestion needs exclusively.  Every later  *)
(* read-committed statement of the transaction loads the published         *)
(* generation again; only provisional labels, which this model leaves out, *)
(* refuse that load.                                                       *)
(***************************************************************************)
EXTENDS TxDelta

VARIABLES published,  \* the projection generation other backends published last
          started     \* this backend's statement has loaded its projection

reloadVars == <<vars, published, started>>

ReloadInit == Init /\ published = base /\ started = FALSE

\* ensure_current_graph at the start of a statement.
StartStatement ==
    /\ ~started /\ ~failed
    /\ base' = published
    /\ started' = TRUE
    /\ UNCHANGED <<txVars, rowVars, published>>

\* The statement's DML and record calls, under the projection it loaded.
Finish ==
    /\ started
    /\ started' = FALSE
    /\ \/ \E k \in Keys : CreateNode(k) \/ DetachDelete(k)
       \/ \E r \in Rows, s, t \in Keys : CreateRelationship(r, s, t)
       \/ \E e \in VisibleEdges : DeleteEdge(e)
       \/ UNCHANGED vars
    /\ UNCHANGED published

\* Another backend commits a node row and ingests it into the next free slot.  This
\* transaction must not have written: its capture lock would refuse the ingestion.
IngestElsewhere(k) ==
    LET with(rows) == [rows EXCEPT !.nodes = @ \cup {k}] IN
    /\ delta = NewDelta
    /\ k \notin nodes
    /\ nodes' = nodes \cup {k}
    /\ saved' = [n \in DOMAIN saved |-> with(saved[n])]
    /\ published' = [published EXCEPT !.nodes = Append(@, k)]
    /\ UNCHANGED <<txVars, edges, base, failed, started>>

EndTransaction ==
    /\ ~started
    /\ \/ Abort /\ UNCHANGED published
       \/ Commit /\ published' = base'
    /\ UNCHANGED started

ReloadNext ==
    \/ StartStatement \/ Finish \/ EndTransaction
    \/ \E k \in Keys : IngestElsewhere(k)

ReloadSpec == ReloadInit /\ [][ReloadNext]_reloadVars

----------------------------------------------------------------------------
\* "Within the same transaction, ... statements can read newly created nodes through
\* backend-local temporary graph node indexes" (docs/user_guide/querying.mdx): the
\* temporary index of a node this transaction created denotes that node.
OwnNodesReadBack == \A n \in ToSet(delta.nodes) : KeyOf(n.idx) = n.key

=============================================================================
