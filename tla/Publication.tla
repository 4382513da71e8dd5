------------------------------ MODULE Publication ------------------------------
(***************************************************************************)
(* Publication of durable generations: the artifact and manifest files of  *)
(* one graph, the pointer file, the transactional head row of              *)
(* graph._projection_heads, garbage collection, and the cleanup of         *)
(* replacements that a PostgreSQL error interrupted.                       *)
(*                                                                         *)
(* Files are not transactional and head rows are: a publication that       *)
(* aborts leaves its files behind, and a reader with an old snapshot still *)
(* needs the files of the generation its snapshot sees.  All publishers,   *)
(* the collector and the cleanup take the graph's build lock, which is     *)
(* held to the end of the transaction.                                     *)
(*                                                                         *)
(* A generation has one private artifact file (its base, segments, chunks  *)
(* and dictionaries in one) and one manifest file, both named by its id.   *)
(* The contents of a file are the number of the attempt that wrote it, so  *)
(* equality of contents is equality of checksums.                          *)
(***************************************************************************)
EXTENDS PgTransactions, FiniteSets

CONSTANTS
    Publishers,        \* backends that build, ingest and compact
    Collectors,        \* backends that run projection_gc()
    Resetters,         \* backends that run reset()
    Fixed,             \* backends that may use REPEATABLE READ
    MaxAttempts,       \* bound on replacement attempts
    RetentionFloor     \* retained_generation_floor of the collector

ASSUME PublicationAssumption ==
    /\ MaxAttempts \in Nat /\ RetentionFloor \in Nat \ {0}
    /\ Publishers \cup Collectors \cup Resetters \cup Fixed \subseteq Backends

VARIABLES
    manifests,   \* generation -> its manifest file, NoManifest if there is none
    artifacts,   \* generation -> contents of its private artifact, 0 if there is none
    pointer,     \* the pointer file projection-current.json
    heads,       \* versions of the head row, in the order they were written
    buildLock,   \* backend holding the build/publish transaction lock
    marker,      \* backend -> REPLACEMENT_RECOVERY entry, NoMarker if there is none
    job,         \* backend -> the replacement it is running, NoJob if none
    attempts     \* replacements started so far

fileVars == <<manifests, artifacts, pointer>>
vars == <<xact, txVars, fileVars, heads, buildLock, marker, job, attempts>>

Generations == 1..MaxAttempts

NoManifest == [by |-> 0, refs |-> {}, obsolete |-> {}, prev |-> 0]
NoMarker   == [expected |-> -1, candidate |-> 0]
NoJob      == [step |-> "none", kind |-> "none", gen |-> 0, by |-> 0, expected |-> 0, manifest |-> NoManifest]

Manifested == {g \in Generations : manifests[g] # NoManifest}

\* References name files; the contents are the checksums stored with them.
Paths(refs) == {r.gen : r \in refs}

\* publication::current: the visible version of the head row; generation 0 is
\* no row, before the first publication or after reset().
NoHead == [gen |-> 0, by |-> 0, xid |-> NoXid, expected |-> 0]
Published(view) ==
    LET visible == {k \in 1..Len(heads) : heads[k].xid \in view}
    IN  IF visible = {} THEN NoHead ELSE heads[Max(visible)]

\* current_generation_id: the manifest file has the checksum of the head row.
ManifestMatches(head) == head.gen \in Manifested /\ manifests[head.gen].by = head.by

\* A generation loads when its manifest and everything it references is there.
Loadable(head) ==
    /\ ManifestMatches(head)
    /\ \A r \in manifests[head.gen].refs : artifacts[r.gen] = r.by

\* Faulty: only manifests reserve ids; one id too far.
NextManifestGeneration == 1 + Max({0} \cup Manifested)
SecondNextGeneration ==
    2 + Max({0} \cup Manifested \cup {g \in Generations : artifacts[g] # 0})

\* next_rebuild_generation_id: above every id that a file in the root reserves.
NextGeneration == 1 + Max({0} \cup Manifested \cup {g \in Generations : artifacts[g] # 0})

----------------------------------------------------------------------------
Init ==
    /\ TxInit
    /\ manifests = [g \in Generations |-> NoManifest]
    /\ artifacts = [g \in Generations |-> 0]
    /\ pointer = [gen |-> 0, by |-> 0]
    /\ heads = << >>
    /\ buildLock = NoBackend
    /\ marker = [b \in Backends |-> NoMarker]
    /\ job = [b \in Backends |-> NoJob]
    /\ attempts = 0

Idle(b) == iso[b] # "none" /\ job[b] = NoJob

\* pg_try_advisory_xact_lock; the faulty one is never refused.
LockIgnored(b) == TRUE
LockAvailable(b) == buildLock \in {NoBackend, b}

\* BEGIN and the first statement, which fixes a REPEATABLE READ snapshot.
Begin(b, level) ==
    /\ iso[b] = "none"
    /\ iso' = [iso EXCEPT ![b] = level]
    /\ snap' = [snap EXCEPT ![b] =
                  IF level = "rr" THEN [xmin |-> Min(RunningXids \cup {NextXid}), vis |-> CommittedXids]
                  ELSE NoSnapshot]
    /\ UNCHANGED <<xact, xid, fileVars, heads, buildLock, marker, job, attempts>>

\* The transaction ends and PostgreSQL drops its locks.  An error or a
\* cancellation at any step of a replacement bypasses the Rust cleanup: files
\* and marker stay as they are.
EndTransaction(b, outcome) ==
    /\ iso[b] # "none"
    /\ outcome = "commit" => Idle(b)
    /\ FinishXact(b, outcome)
    /\ buildLock' = ReleaseLock(buildLock, b)
    /\ job' = [job EXCEPT ![b] = NoJob]

End(b, outcome) ==
    /\ EndTransaction(b, outcome)
    /\ UNCHANGED <<fileVars, heads, marker, attempts>>

\* The backend exits, or the server crashes: the backend-local marker is lost.
Exit(b) ==
    /\ EndTransaction(b, "abort")
    /\ marker' = [marker EXCEPT ![b] = NoMarker]
    /\ UNCHANGED <<fileVars, heads, attempts>>

----------------------------------------------------------------------------
\* Replacements: an ingest adds a segment to the current generation, a compaction
\* merges the segments over the same base, a rebuild writes a base of its own; the
\* last two list the files they supersede.

CandidateManifest(kind, head, gen, by) ==
    LET old      == IF head.gen \in Manifested THEN manifests[head.gen] ELSE NoManifest
        base     == {r \in old.refs : \A q \in old.refs : r.gen <= q.gen}
        keep     == [ingest |-> old.refs, compact |-> base, rebuild |-> {}][kind]
    IN  [ by       |-> by,
          refs     |-> keep \cup {[gen |-> gen, by |-> by]},
          obsolete |-> old.obsolete \cup Paths(old.refs \ keep),
          prev     |-> head.gen ]

\* acquire_build_lock_for_replacement (after Reconcile has dealt with an older
\* marker) and mark_replacement_in_progress.
Plan(b, kind) ==
    LET head == Published(StatementView(b))
        gen  == NextGeneration
        by   == attempts + 1
    IN
    /\ Idle(b)
    /\ iso[b] = "rc"
    /\ LockAvailable(b)
    /\ marker[b] = NoMarker
    /\ attempts < MaxAttempts
    /\ kind # "rebuild" => head.gen # 0
    /\ kind = "compact" => Cardinality(manifests[head.gen].refs) > 1
    /\ head.gen # 0 => Loadable(head)
    /\ attempts' = by
    /\ buildLock' = b
    /\ marker' = [marker EXCEPT ![b] = [expected |-> head.gen, candidate |-> gen]]
    /\ job' = [job EXCEPT ![b] = [step |-> "planned", kind |-> kind, gen |-> gen, by |-> by,
                                  expected |-> head.gen,
                                  manifest |-> CandidateManifest(kind, head, gen, by)]]
    /\ RegisterSnapshot(b)
    /\ UNCHANGED <<xact, iso, xid, fileVars, heads>>

Advance(b, step) == job' = [job EXCEPT ![b].step = step]

\* The candidate's files are hard-linked or created without overwriting.
WriteArtifacts(b) ==
    /\ job[b].step = "planned"
    /\ artifacts[job[b].gen] = 0
    /\ artifacts' = [artifacts EXCEPT ![job[b].gen] = job[b].by]
    /\ Advance(b, "written")
    /\ UNCHANGED <<xact, txVars, manifests, pointer, heads, buildLock, marker, attempts>>

\* publish_if_current: the head is still the expected one, no manifest of that
\* id exists and every reference does.
StageManifest(b) ==
    /\ job[b].step = "written"
    /\ Published(View(b)).gen = job[b].expected
    /\ job[b].gen \notin Manifested
    /\ \A r \in job[b].manifest.refs : artifacts[r.gen] # 0
    /\ manifests' = [manifests EXCEPT ![job[b].gen] = job[b].manifest]
    /\ Advance(b, "staged")
    /\ UNCHANGED <<xact, txVars, artifacts, pointer, heads, buildLock, marker, attempts>>

\* switch_current_generation checks the head again and replaces the pointer
\* file before the head row is written.
SwitchPointer(b) ==
    /\ job[b].step = "staged"
    /\ Published(View(b)).gen = job[b].expected
    /\ pointer' = [gen |-> job[b].gen, by |-> job[b].by]
    /\ Advance(b, "switched")
    /\ UNCHANGED <<xact, txVars, manifests, artifacts, heads, buildLock, marker, attempts>>

\* publication::publish: the upsert waits for other writers of the row.
WriteHead(b) ==
    /\ job[b].step = "switched"
    /\ \A k \in 1..Len(heads) : heads[k].xid \in RunningXids => heads[k].xid = xid[b]
    /\ AssignXid(b)
    /\ heads' = Append(heads, [gen |-> job[b].gen, by |-> job[b].by,
                               xid |-> XidOf(b), expected |-> job[b].expected])
    /\ Advance(b, "published")
    /\ UNCHANGED <<iso, snap, fileVars, buildLock, marker, attempts>>

\* The statement succeeds: clear_replacement_recovery_for.
FinishReplacement(b) ==
    /\ job[b].step = "published"
    /\ job' = [job EXCEPT ![b] = NoJob]
    /\ marker' = [marker EXCEPT ![b] = NoMarker]
    /\ KeepSnapshot(b)
    /\ UNCHANGED <<xact, iso, xid, fileVars, heads, buildLock, attempts>>

\* remove_uncommitted_manifest: only when the pointer file provably names
\* another generation; an unreadable pointer proves nothing.
ProvenNotCurrent(gen) ==
    \/ pointer.gen = 0
    \/ pointer.gen # gen /\ pointer.gen \in Manifested /\ manifests[pointer.gen].by = pointer.by

\* An ordinary error before the head row is written: the candidate's manifest is
\* removed.  Ingest and compaction remove their artifacts once the manifest is
\* gone, a rebuild removes its base unless the head names it; the marker stays.
Fail(b) ==
    LET gen     == job[b].gen
        written == job[b].step # "planned"
        keep    == job[b].step \in {"staged", "switched"} /\ ~ProvenNotCurrent(gen)
    IN
    /\ job[b].step \in {"planned", "written", "staged", "switched"}
    /\ manifests' = IF written /\ ~keep THEN [manifests EXCEPT ![gen] = NoManifest] ELSE manifests
    /\ artifacts' = IF written /\ (job[b].kind = "rebuild" \/ ~keep)
                    THEN [artifacts EXCEPT ![gen] = 0] ELSE artifacts
    /\ EndTransaction(b, "abort")
    /\ UNCHANGED <<pointer, heads, marker, attempts>>

----------------------------------------------------------------------------
\* Faulty: whatever the candidate references goes with it.
CleanupReferences(gen) ==
    /\ manifests' = [manifests EXCEPT ![gen] = NoManifest]
    /\ artifacts' = [g \in Generations |->
                       IF g \in {gen} \cup Paths(manifests[gen].refs) THEN 0 ELSE artifacts[g]]

\* cleanup_interrupted_replacement: the candidate's manifest, what it references
\* and its artifacts, except for files that other manifests reference.
CleanupCandidate(gen) ==
    LET protected  == UNION {Paths(manifests[g].refs) : g \in Manifested \ {gen}}
        candidates == {gen} \cup Paths(manifests[gen].refs)
    IN
    /\ manifests' = [manifests EXCEPT ![gen] = NoManifest]
    /\ artifacts' = [g \in Generations |-> IF g \in candidates \ protected THEN 0 ELSE artifacts[g]]

\* reconcile_interrupted_replacement, at the entry of every graph statement in
\* any isolation level.  A busy build lock defers the cleanup: nothing changes.
\* The reload that follows the cleanup may fail, which keeps the marker.
Reconcile(b) ==
    LET unchanged == Published(StatementView(b)).gen = marker[b].expected IN
    /\ Idle(b)
    /\ marker[b] # NoMarker
    /\ IF unchanged
       THEN LockAvailable(b) /\ CleanupCandidate(marker[b].candidate)
       ELSE UNCHANGED <<manifests, artifacts>>
    /\ \/ /\ marker' = [marker EXCEPT ![b] = NoMarker]
          /\ buildLock' = IF unchanged THEN b ELSE buildLock
          /\ UNCHANGED <<xact, txVars, job>>
       \/ /\ EndTransaction(b, "abort")
          /\ UNCHANGED marker
    /\ UNCHANGED <<pointer, heads, attempts>>

----------------------------------------------------------------------------
\* Faulty: does not ask for the removal horizon.
RequiredByOwnSnapshot(b, head) == iso[b] = "rr" \/ head = NoHead

\* historical_generations_required: some live snapshot may not see the head.
HistoricalGenerationsRequired(b, head) ==
    iso[b] = "rr" \/ head = NoHead \/ OldestNonRemovable <= head.xid

\* retained_generation_ids: the current generation and its recorded
\* predecessors, up to the floor and to the first missing manifest.
Retained(gen) ==
    {g \in Manifested : \E n \in 0..(RetentionFloor - 1) : \E line \in [0..n -> 0..MaxAttempts] :
        /\ line[0] = gen /\ line[n] = g
        /\ \A i \in 0..(n - 1) : line[i] \in Manifested /\ line[i + 1] = manifests[line[i]].prev}

\* collect_projection_garbage: active is the set of generations that readers'
\* heartbeats name.  Superseded and abandoned files go unless a protected
\* manifest references them; so do unprotected manifests, except for those that
\* still list a superseded file that could not be deleted yet.
Collect(b, active) ==
    LET head      == Published(StatementView(b))
        protected == Retained(head.gen) \cup active
        paths     == UNION {Paths(manifests[g].refs) : g \in protected}
        dropped   == Manifested \ protected
        garbage   == UNION {manifests[g].obsolete : g \in Manifested}
                        \cup UNION {Paths(manifests[g].refs) : g \in dropped}
        intents   == {g \in dropped : \E p \in manifests[g].obsolete : p \in paths /\ artifacts[p] # 0}
    IN
    /\ Idle(b)
    /\ LockAvailable(b)
    /\ head.gen # 0
    /\ ManifestMatches(head)
    /\ ~HistoricalGenerationsRequired(b, head)
    /\ artifacts' = [g \in Generations |-> IF g \in garbage \ paths THEN 0 ELSE artifacts[g]]
    /\ manifests' = [g \in Generations |-> IF g \in dropped \ intents THEN NoManifest ELSE manifests[g]]
    /\ buildLock' = b
    /\ UNCHANGED <<xact, txVars, pointer, heads, marker, job, attempts>>

\* reset(): the head row is deleted, the files stay.  Under a fixed snapshot a
\* row that has since been replaced makes the DELETE fail.
Reset(b) ==
    LET head == Published(StatementView(b)) IN
    /\ Idle(b)
    /\ LockAvailable(b)
    /\ head.gen # 0
    /\ head = Published(CommittedXids \cup {xid[b]})
    /\ Len(heads) < 2 * MaxAttempts
    /\ AssignXid(b)
    /\ heads' = Append(heads, [gen |-> 0, by |-> 0, xid |-> XidOf(b), expected |-> head.gen])
    /\ marker' = [marker EXCEPT ![b] = NoMarker]
    /\ buildLock' = b
    /\ UNCHANGED <<iso, snap, fileVars, job, attempts>>

Replacement(b) ==
    \/ \E kind \in {"ingest", "compact", "rebuild"} : Plan(b, kind)
    \/ WriteArtifacts(b) \/ StageManifest(b) \/ SwitchPointer(b) \/ WriteHead(b)
    \/ FinishReplacement(b)
    \/ Fail(b)

Next ==
    \/ \E b \in Backends : Begin(b, "rc") \/ Exit(b) \/ Reconcile(b)
    \/ \E b \in Backends : \E outcome \in {"commit", "abort"} : End(b, outcome)
    \/ \E b \in Fixed : Begin(b, "rr")
    \/ \E b \in Publishers : Replacement(b)
    \/ \E b \in Collectors : \E active \in SUBSET Manifested : Collect(b, active)
    \/ \E b \in Resetters : Reset(b)

Spec == Init /\ [][Next]_vars

----------------------------------------------------------------------------
ManifestType == [by : 0..MaxAttempts, refs : SUBSET [gen : Generations, by : 1..MaxAttempts],
                 obsolete : SUBSET Generations, prev : 0..MaxAttempts]

\* Types of the files, the head versions and the backend-local state.
TypeOK ==
    /\ TxTypeOK
    /\ manifests \in [Generations -> ManifestType]
    /\ artifacts \in [Generations -> 0..MaxAttempts]
    /\ pointer \in [gen : 0..MaxAttempts, by : 0..MaxAttempts]
    /\ \A k \in 1..Len(heads) :
          heads[k] \in [gen : 0..MaxAttempts, by : 0..MaxAttempts, xid : Xids, expected : 0..MaxAttempts]
    /\ buildLock \in Backends \cup {NoBackend}
    /\ marker \in [Backends -> {NoMarker} \cup [expected : 0..MaxAttempts, candidate : Generations]]
    /\ \A b \in Backends :
          /\ job[b].step \in {"none", "planned", "written", "staged", "switched", "published"}
          /\ job[b].manifest \in ManifestType
    /\ attempts \in 0..MaxAttempts

\* The published generation loads: its manifest has the contents the head row
\* was committed with, and every file it references is there unchanged, whatever
\* was aborted, interrupted, cleaned up, collected or given the same id since.
CurrentLoadable ==
    LET head == Published(CommittedXids) IN head.gen # 0 => Loadable(head)

\* A committed reset replaced the head that an older snapshot still sees.
ResetSince(view) ==
    LET seen(k) == heads[k].xid \in view IN
    \E k \in 1..Len(heads) :
        /\ heads[k].gen = 0 /\ heads[k].xid \in CommittedXids
        /\ \A j \in 1..Len(heads) : seen(j) => j < k

\* So does the generation that each open transaction sees, however old its
\* snapshot is, until the graph is reset: no file goes while somebody can still
\* ask for it.
VisibleHeadsLoadable ==
    \A b \in Backends :
        Published(View(b)).gen # 0 /\ ~ResetSince(View(b)) => Loadable(Published(View(b)))

\* After a reset too, publications, failures and garbage collection keep what an
\* older snapshot reads ("Both reset forms retain immutable files for transactions
\* that can still see the previous publication", user_guide/build-and-persistence).
\* The exception is the cleanup of a replacement that another backend planned
\* before the first publication: after the reset its expected head is back.
ResetKeepsFiles ==
    [][\A b \in Backends :
          LET head == Published(View(b)) IN
          iso[b] = "rr" /\ snap'[b] = snap[b] /\ head.gen # 0 /\ Loadable(head)
          => \/ Loadable(head)'
             \/ \E c \in Backends : marker[c].expected = 0 /\ Reconcile(c)]_vars

\* A planned candidate can always be created: no file left by an aborted or
\* interrupted attempt has its id, so that one failure never blocks the next
\* publication.
CandidateUnreserved ==
    \A b \in Backends :
        /\ job[b].step = "planned" => artifacts[job[b].gen] = 0
        /\ job[b].step \in {"planned", "written"} => job[b].gen \notin Manifested

\* No publication is lost: every committed head replaced the head that was
\* committed (or written by the same transaction) right before it, the one its
\* contents were derived from.
NoLostPublication ==
    LET committed == {k \in 1..Len(heads) : heads[k].xid \in CommittedXids} IN
    \A k \in committed :
        LET earlier == {j \in committed : j < k} IN
        heads[k].expected = IF earlier = {} THEN 0 ELSE heads[Max(earlier)].gen
================================================================================
