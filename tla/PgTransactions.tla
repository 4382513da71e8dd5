----------------------------- MODULE PgTransactions -----------------------------
(***************************************************************************)
(* PostgreSQL transactions and visibility, as the extension relies on      *)
(* them: READ COMMITTED statements see what is committed now, REPEATABLE   *)
(* READ transactions see what was committed at their first statement, both *)
(* see their own writes, and the removal horizon is the oldest xid any     *)
(* live snapshot still considers running.  An xid is assigned at the first *)
(* write.                                                                  *)
(***************************************************************************)
EXTENDS PgXid, Sequences, FiniteSetsExt

CONSTANTS
    Backends,      \* PostgreSQL backends, each running transactions
    NoBackend,     \* nobody holds a lock
    MaxXid         \* bound on assigned transaction ids

ASSUME BackendsAssumption == MaxXid \in Nat /\ NoBackend \notin Backends

VARIABLES
    xact,       \* xid -> "running" | "committed" | "aborted", for every assigned xid
    iso,        \* backend -> "none" | "rc" | "rr", the open transaction
    xid,        \* backend -> xid of the open transaction, NoXid if unassigned
    snap        \* backend -> registered snapshot; xmin 0 when none is held

txVars == <<iso, xid, snap>>

NextXid   == Len(xact) + 1
CommittedXids == {x \in 1..Len(xact) : xact[x] = "committed"}
RunningXids   == {x \in 1..Len(xact) : xact[x] = "running"}
NoSnapshot == [xmin |-> 0, vis |-> {}]

\* The xids whose effects backend b's next query sees.
View(b) ==
    (IF iso[b] = "rr" THEN snap[b].vis ELSE CommittedXids) \cup ({xid[b]} \ {NoXid})

\* The snapshot registered for a statement.  READ COMMITTED queries inside the
\* statement use newer ones, so only its xmin matters there.
StatementSnapshot(b) ==
    IF snap[b].xmin # 0 THEN snap[b]
    ELSE [xmin |-> Min(RunningXids \cup {NextXid}),
          vis  |-> IF iso[b] = "rr" THEN CommittedXids ELSE {}]

\* View(b) once the statement's snapshot is registered.
StatementView(b) ==
    (IF iso[b] = "rr" THEN StatementSnapshot(b).vis ELSE CommittedXids)
        \cup ({xid[b]} \ {NoXid})

\* GetOldestNonRemovableTransactionId: no live snapshot considers an older xid
\* to be running.
OldestNonRemovable ==
    Min(RunningXids \cup {NextXid} \cup ({snap[b].xmin : b \in Backends} \ {0}))

\* The xid of b's transaction after a write, and the xid table with it.
XidOf(b) == IF xid[b] # NoXid THEN xid[b] ELSE NextXid
WithXid(b) == IF xid[b] # NoXid THEN xact ELSE Append(xact, "running")
CanAssignXid(b) == xid[b] # NoXid \/ Len(xact) < MaxXid

AssignXid(b) ==
    /\ CanAssignXid(b)
    /\ xid' = [xid EXCEPT ![b] = XidOf(b)]
    /\ xact' = WithXid(b)

\* A REPEATABLE READ transaction keeps the snapshot of its first statement.
KeepSnapshot(b) ==
    snap' = [snap EXCEPT ![b] = IF iso[b] = "rr" THEN StatementSnapshot(b) ELSE NoSnapshot]

RegisterSnapshot(b) == snap' = [snap EXCEPT ![b] = StatementSnapshot(b)]

\* The transaction ends: its xid is decided and its snapshot released.
FinishXact(b, outcome) ==
    /\ xact' = IF xid[b] = NoXid THEN xact
               ELSE [xact EXCEPT ![xid[b]] = IF outcome = "commit" THEN "committed" ELSE "aborted"]
    /\ iso' = [iso EXCEPT ![b] = "none"]
    /\ xid' = [xid EXCEPT ![b] = NoXid]
    /\ snap' = [snap EXCEPT ![b] = NoSnapshot]

ReleaseLock(lock, b) == IF lock = b THEN NoBackend ELSE lock

TxInit ==
    /\ xact = << >>
    /\ iso = [b \in Backends |-> "none"]
    /\ xid = [b \in Backends |-> NoXid]
    /\ snap = [b \in Backends |-> NoSnapshot]

Xids == 1..MaxXid

TxTypeOK ==
    /\ xact \in Seq({"running", "committed", "aborted"}) /\ Len(xact) <= MaxXid
    /\ iso \in [Backends -> {"none", "rc", "rr"}]
    /\ xid \in [Backends -> Xids \cup {NoXid}]
    /\ \A b \in Backends : snap[b].xmin \in 0..(MaxXid + 1) /\ snap[b].vis \subseteq Xids
================================================================================
