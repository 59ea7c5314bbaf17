------------------------- MODULE ProjectionReconcile -------------------------
(***************************************************************************)
(* The thread projections and the work deferred to after the commit        *)
(* (apps/server/src/orchestration/Layers/ProjectionPipeline.ts and         *)
(* projection/ProjectionReconciler.ts).                                    *)
(*                                                                         *)
(* A commit updates the thread's row in projection_threads in its own      *)
(* transaction and, for events with an impact, enqueues a reconciliation   *)
(* job with it.  After the commit the shard worker awaits a drain, which   *)
(* one worker at a time runs outside every other lock: it reads all jobs,  *)
(* recomputes the shell summary of their threads (a read of the whole row, *)
(* a read of the source tables, and an upsert of the whole row), deletes   *)
(* the attachment files no message refers to, and completes the jobs it    *)
(* read.  Other workers commit between any two of these steps.  Errors of  *)
(* a drain are ignored; a restart drains again.                            *)
(*                                                                         *)
(* Abstractions.  Every thread is on a shard of its own.  A commit has one *)
(* number for the sequences of all its events, and one job for all their   *)
(* impacts.  A column is the number of the last commit it accounts for.    *)
(* Of a row, message is latestUserMessageAt and turn is latestTurnId: the  *)
(* commits write both themselves, and a drain writes both back.  summary   *)
(* is what only a drain computes, from the tables and the turn that it     *)
(* writes with it; meta is any other column.                               *)
(***************************************************************************)
EXTENDS Integers, FiniteSets

CONSTANTS
  Threads,
  Nobody,       \* no worker drains
  Startup,      \* the bootstrap drains
  Subtree,      \* Threads -> the thread and its descendants
  Files,        \* attachments that clients upload
  ThreadOf,     \* Files -> Threads, the thread segment of the attachment id
  MaxCommits,   \* bound on the commits of a behaviour
  MaxFailures,  \* bound on the drains that fail
  MaxCrashes    \* bound on the restarts

ASSUME ReconcileConstants ==
  /\ Nobody \notin Threads /\ Startup \notin Threads /\ Nobody # Startup
  /\ Subtree \in [Threads -> SUBSET Threads]
  /\ \A t \in Threads : t \in Subtree[t]
  /\ ThreadOf \in [Files -> Threads]
  /\ MaxCommits \in Nat /\ MaxFailures \in Nat /\ MaxCrashes \in Nat

VARIABLES
  commits,   \* durable: the number of the last commit
  row,       \* durable: projection_threads
  source,    \* durable: the last commit whose impact is a thread's summary
  sent,      \* durable: projection_thread_messages, the user's last message
  turned,    \* history: the last commit that set latestTurnId
  refs,      \* durable: which table refers to a file, if any
  jobs,      \* durable: projection_reconciliation_jobs
  disk,      \* the files in attachmentsDir
  upload,    \* how far the command that brings a file has got
  unknown,   \* the threads that the in-memory read model does not have
  deleted,   \* history: the threads that were deleted
  awaits,    \* the commit whose reconcile a thread's worker awaits, or 0
  settled,   \* history: the last commit whose reconcile was awaited with success
  drainer,   \* holder of drainLock
  listed,    \* the jobs the drain has read
  stage,     \* refreshShellSummary, per thread
  snap,      \* the row it has read
  got,       \* the source state it has read, and the last user message
  fileTodo,  \* the threads left for reconcileAttachments
  sweep,     \* reconcileAttachments of one thread
  up, failures, crashes

tables  == <<commits, row, source, sent, refs, jobs>>
clients == <<upload, unknown, deleted>>
workers == <<awaits, settled, turned>>
drain   == <<drainer, listed, stage, snap, got, fileTodo, sweep>>
process == <<up, failures, crashes>>
vars == <<tables, disk, clients, workers, drain, process>>

NoRow   == [exists |-> FALSE, meta |-> 0, message |-> 0, turn |-> 0, summary |-> 0]
Nothing == [source |-> 0, sent |-> 0]
NoSweep == [thread |-> Nobody, step |-> "idle", files |-> {}]

Init ==
  /\ commits = 0
  /\ row = [t \in Threads |-> [NoRow EXCEPT !.exists = TRUE]]
  /\ source = [t \in Threads |-> 0]
  /\ sent = [t \in Threads |-> 0]
  /\ turned = [t \in Threads |-> 0]
  /\ refs = [f \in Files |-> "none"]
  /\ jobs = {}
  /\ disk = {}
  /\ upload = [f \in Files |-> "none"]
  /\ unknown = {} /\ deleted = {}
  /\ awaits = [t \in Threads |-> 0]
  /\ settled = [t \in Threads |-> 0]
  /\ drainer = Nobody
  /\ listed = {}
  /\ stage = [t \in Threads |-> "none"]
  /\ snap = [t \in Threads |-> NoRow]
  /\ got = [t \in Threads |-> Nothing]
  /\ fileTodo = {}
  /\ sweep = NoSweep
  /\ up = TRUE /\ failures = 0 /\ crashes = 0

-----------------------------------------------------------------------------
(* Commits.  The worker of thread t handles a command; it is free when its  *)
(* previous command has been answered.                                      *)

\* A deleted thread stays in the read model, as a tombstone that commands can
\* still address, until the process restarts.
Free(t) == up /\ t \notin unknown /\ awaits[t] = 0 /\ commits < MaxCommits

FilesOf(ts) == {f \in Files : ThreadOf[f] \in ts}

\* A row that exists is read and upserted inside the transaction.
Write(t, r) == row' = IF row[t].exists THEN [row EXCEPT ![t] = r] ELSE row

\* The same for all rows of ts, in columns that no summary is made from.
Touch(ts) ==
  row' = [t \in Threads |->
            IF t \in ts /\ row[t].exists THEN [row[t] EXCEPT !.meta = commits + 1] ELSE row[t]]

\* Fault: the job is filed under the sequence of the next commit.
EnqueueNext(t, shell, files) ==
  /\ jobs' = jobs \cup {[seq |-> commits + 2, shell |-> shell, files |-> files]}
  /\ awaits' = [awaits EXCEPT ![t] = commits + 1]

\* reconciliationJobs.enqueue, in the same transaction; then the reconcile of
\* the commit's projection receipt is awaited.
Enqueue(t, shell, files) ==
  /\ jobs' = jobs \cup {[seq |-> commits + 1, shell |-> shell, files |-> files]}
  /\ awaits' = [awaits EXCEPT ![t] = commits + 1]

\* An approval, user-input, plan or validation event: the sources change.
CommitSummary(t) ==
  /\ Free(t)
  /\ commits' = commits + 1
  /\ Touch({t})
  /\ source' = [source EXCEPT ![t] = commits + 1]
  /\ Enqueue(t, {t}, {})
  /\ UNCHANGED <<sent, refs, disk, clients, settled, turned, drain, process>>

\* thread.session-set of an active turn, thread.turn-diff-completed: the turn
\* that the plans are compared with is another one.
CommitTurn(t) ==
  /\ Free(t)
  /\ commits' = commits + 1
  /\ Write(t, [row[t] EXCEPT !.meta = commits + 1, !.turn = commits + 1])
  /\ source' = [source EXCEPT ![t] = commits + 1]
  /\ turned' = [turned EXCEPT ![t] = commits + 1]
  /\ Enqueue(t, {t}, {})
  /\ UNCHANGED <<sent, refs, disk, clients, settled, drain, process>>

\* thread.archive: the rows of the subtree change, whatever their shards do.
\* An event without impact has nothing to reconcile.
CommitArchive(t) ==
  /\ Free(t)
  /\ commits' = commits + 1
  /\ Touch(Subtree[t])
  /\ UNCHANGED <<source, sent, refs, jobs, disk, clients, workers, drain, process>>

\* thread.message-sent of a user: the message is a source of the summary, and
\* the row takes its time in the same transaction.  No job, nothing to await.
SendMessage(t) ==
  /\ commits' = commits + 1
  /\ Write(t, [row[t] EXCEPT !.meta = commits + 1, !.message = commits + 1])
  /\ sent' = [sent EXCEPT ![t] = commits + 1]

\* thread.turn.start without an attachment.
CommitMessage(t) ==
  /\ Free(t)
  /\ SendMessage(t)
  /\ UNCHANGED <<source, refs, jobs, disk, clients, workers, drain, process>>

\* thread.revert.complete: the messages of later turns are trimmed, and the
\* thread has no latest turn.  The time of its last message is left to the job.
CommitRevert(t) ==
  /\ Free(t)
  /\ commits' = commits + 1
  /\ Write(t, [row[t] EXCEPT !.meta = commits + 1, !.turn = commits + 1])
  /\ source' = [source EXCEPT ![t] = commits + 1]
  /\ sent' = [sent EXCEPT ![t] = commits + 1]
  /\ turned' = [turned EXCEPT ![t] = commits + 1]
  /\ \E trimmed \in SUBSET {f \in FilesOf({t}) : refs[f] = "message"} :
       refs' = [f \in Files |-> IF f \in trimmed THEN "none" ELSE refs[f]]
  /\ Enqueue(t, {t}, {t})
  /\ UNCHANGED <<disk, clients, settled, drain, process>>

\* Fault: thread.deleted has no attachment impact.
CommitDeleteWithoutImpact(t) ==
  /\ Free(t)
  /\ commits' = commits + 1
  /\ row' = [u \in Threads |-> IF u \in Subtree[t] THEN NoRow ELSE row[u]]
  /\ refs' = [f \in Files |-> IF f \in FilesOf(Subtree[t]) THEN "none" ELSE refs[f]]
  /\ deleted' = deleted \cup Subtree[t]
  /\ UNCHANGED <<source, sent, jobs, disk, upload, unknown, workers, drain, process>>

\* thread.delete: every row of the subtree is purged, archived and tombstoned
\* descendants included.
CommitDelete(t) ==
  /\ Free(t)
  /\ commits' = commits + 1
  /\ row' = [u \in Threads |-> IF u \in Subtree[t] THEN NoRow ELSE row[u]]
  /\ refs' = [f \in Files |-> IF f \in FilesOf(Subtree[t]) THEN "none" ELSE refs[f]]
  /\ deleted' = deleted \cup Subtree[t]
  /\ Enqueue(t, {}, Subtree[t])
  /\ UNCHANGED <<source, sent, disk, upload, unknown, settled, turned, drain, process>>

\* Normalizer: the file is written before the command is dispatched.
Upload(f) ==
  /\ up /\ upload[f] = "none"
  /\ disk' = disk \cup {f}
  /\ upload' = [upload EXCEPT ![f] = "sent"]
  /\ UNCHANGED <<tables, unknown, deleted, workers, drain, process>>

\* thread.turn.start commits with the attachment.
CommitSend(f) ==
  /\ Free(ThreadOf[f])
  /\ upload[f] = "sent"
  /\ SendMessage(ThreadOf[f])
  /\ refs' = [refs EXCEPT ![f] = "message"]
  /\ upload' = [upload EXCEPT ![f] = "committed"]
  /\ UNCHANGED <<source, jobs, disk, unknown, deleted, workers, drain, process>>

\* thread.queued-turn.create commits with the attachment: no message yet.
CommitQueue(f) ==
  /\ Free(ThreadOf[f])
  /\ upload[f] = "sent"
  /\ commits' = commits + 1
  /\ Touch({ThreadOf[f]})
  /\ refs' = [refs EXCEPT ![f] = "queued"]
  /\ upload' = [upload EXCEPT ![f] = "committed"]
  /\ UNCHANGED <<source, sent, jobs, disk, unknown, deleted, workers, drain, process>>

\* thread.queued-turn.dispatch: the queued turn becomes a message.
CommitDispatchQueued(f) ==
  /\ Free(ThreadOf[f])
  /\ refs[f] = "queued"
  /\ SendMessage(ThreadOf[f])
  /\ refs' = [refs EXCEPT ![f] = "message"]
  /\ UNCHANGED <<source, jobs, disk, clients, workers, drain, process>>

\* thread.queued-turn.delete: the row of the queue goes, and no event has an
\* impact on attachments.
CommitUnqueue(f) ==
  /\ Free(ThreadOf[f])
  /\ refs[f] = "queued"
  /\ commits' = commits + 1
  /\ Touch({ThreadOf[f]})
  /\ refs' = [refs EXCEPT ![f] = "unqueued"]
  /\ UNCHANGED <<source, sent, jobs, disk, clients, workers, drain, process>>

-----------------------------------------------------------------------------
(* The drain *)

Idle(u) == stage[u] = "none"

ShellOf(js) == UNION {j.shell : j \in js}
AttachmentsOf(js) == UNION {j.files : j \in js}

\* drainLock is taken and the pending jobs are listed.
List(who) ==
  /\ listed' = jobs
  /\ stage' = [t \in Threads |-> IF t \in ShellOf(jobs) THEN "row" ELSE "none"]
  /\ fileTodo' = AttachmentsOf(jobs)
  /\ drainer' = who
  /\ UNCHANGED <<snap, got, sweep>>

\* The awaited reconcile ends; on success the dispatch resolves "after
\* fully-reconciled state", on an error it resolves as well.
Answer(t, ok) ==
  /\ awaits' = [awaits EXCEPT ![t] = 0]
  /\ settled' = IF ok THEN [settled EXCEPT ![t] = awaits[t]] ELSE settled
  /\ UNCHANGED turned

\* Fault: a worker does not wait for a drain that is already running.
JoinRunningDrain(t) ==
  /\ up /\ awaits[t] > 0 /\ drainer # t
  /\ IF drainer # Nobody \/ jobs = {}
     THEN Answer(t, TRUE) /\ UNCHANGED drain
     ELSE List(t) /\ UNCHANGED workers
  /\ UNCHANGED <<tables, disk, clients, process>>

StartDrain(t) ==
  /\ up /\ awaits[t] > 0 /\ drainer = Nobody
  /\ IF jobs = {}
     THEN Answer(t, TRUE) /\ UNCHANGED drain
     ELSE List(t) /\ UNCHANGED workers
  /\ UNCHANGED <<tables, disk, clients, process>>

\* refreshShellSummary: threads.getById
ReadRow(u) ==
  /\ drainer # Nobody /\ stage[u] = "row"
  /\ IF row[u].exists
     THEN /\ snap' = [snap EXCEPT ![u] = row[u]]
          /\ stage' = [stage EXCEPT ![u] = "sources"]
     ELSE /\ stage' = [stage EXCEPT ![u] = "none"]
          /\ UNCHANGED snap
  /\ UNCHANGED <<drainer, listed, got, fileTodo, sweep, tables, disk, clients, workers, process>>

\* The targeted summary reads, the time of the last user message among them.
ReadSources(u) ==
  /\ drainer # Nobody /\ stage[u] = "sources"
  /\ got' = [got EXCEPT ![u] = [source |-> source[u], sent |-> sent[u]]]
  /\ stage' = [stage EXCEPT ![u] = "upsert"]
  /\ UNCHANGED <<drainer, listed, snap, fileTodo, sweep, tables, disk, clients, workers, process>>

\* Fault: the summary that was read with the row is written back.
UpsertOldSummary(u) ==
  /\ drainer # Nobody /\ stage[u] = "upsert"
  /\ row' = [row EXCEPT ![u] = snap[u]]
  /\ stage' = [stage EXCEPT ![u] = "none"]
  /\ UNCHANGED <<commits, source, sent, refs, jobs, drainer, listed, snap, got, fileTodo, sweep,
                 disk, clients, workers, process>>

\* threads.upsert({...existing, summary}): every column is written, latestTurnId
\* as it was read with the row, and the flag of the plans derived from it.
Upsert(u) ==
  /\ drainer # Nobody /\ stage[u] = "upsert"
  /\ row' = [row EXCEPT ![u] = [snap[u] EXCEPT !.summary = got[u].source,
                                                !.message = got[u].sent]]
  /\ stage' = [stage EXCEPT ![u] = "none"]
  /\ UNCHANGED <<commits, source, sent, refs, jobs, drainer, listed, snap, got, fileTodo, sweep,
                 disk, clients, workers, process>>

\* reconcileAttachments: the files that the messages of the thread refer to.
ReadRefs(u) ==
  /\ drainer # Nobody /\ \A t \in Threads : Idle(t)
  /\ u \in fileTodo /\ sweep = NoSweep
  /\ sweep' = [thread |-> u, step |-> "list", files |->
       IF row[u].exists THEN {f \in FilesOf({u}) : refs[f] = "message"} ELSE {}]
  /\ UNCHANGED <<drainer, listed, stage, snap, got, fileTodo, tables, disk, clients, workers, process>>

\* The directory is read; every other file of the thread is to be removed.
ListDirectory ==
  /\ drainer # Nobody /\ sweep.step = "list"
  /\ sweep' = [sweep EXCEPT !.step = "remove",
                            !.files = (disk \cap FilesOf({sweep.thread})) \ sweep.files]
  /\ UNCHANGED <<drainer, listed, stage, snap, got, fileTodo, tables, disk, clients, workers, process>>

RemoveFile(f) ==
  /\ drainer # Nobody /\ sweep.step = "remove"
  /\ f \in sweep.files
  /\ disk' = disk \ {f}
  /\ sweep' = [sweep EXCEPT !.files = @ \ {f}]
  /\ UNCHANGED <<drainer, listed, stage, snap, got, fileTodo, tables, clients, workers, process>>

FilesDone ==
  /\ drainer # Nobody /\ sweep.step = "remove" /\ sweep.files = {}
  /\ fileTodo' = fileTodo \ {sweep.thread}
  /\ sweep' = NoSweep
  /\ UNCHANGED <<drainer, listed, stage, snap, got, tables, disk, clients, workers, process>>

\* projections.snapshot: the read model is what the tables hold.
LoadReadModel ==
  /\ up' = TRUE
  /\ unknown' = {t \in Threads : ~row[t].exists}

\* The drain is over and drainLock is free; a bootstrap that drained is done.
EndDrain(ok) ==
  /\ drainer' = Nobody
  /\ listed' = {}
  /\ stage' = [t \in Threads |-> "none"]
  /\ fileTodo' = {}
  /\ sweep' = NoSweep
  /\ IF drainer = Startup
     THEN LoadReadModel /\ UNCHANGED workers
     ELSE Answer(drainer, ok) /\ UNCHANGED <<up, unknown>>
  /\ UNCHANGED <<snap, got>>

\* Fault: all jobs are completed, those that came after the listing included.
CompleteAll(js) == {}

\* completeThrough: the jobs up to the last one that was listed.
CompleteThrough(js) == {j \in js : \A l \in listed : l.seq < j.seq}

Complete ==
  /\ drainer # Nobody
  /\ \A t \in Threads : Idle(t)
  /\ fileTodo = {}
  /\ jobs' = CompleteThrough(jobs)
  /\ EndDrain(TRUE)
  /\ UNCHANGED <<commits, row, source, sent, refs, disk, upload, deleted, failures, crashes>>

\* A query or a file operation fails: the jobs stay.  The bootstrap survives a
\* failing file operation only; it has no other work than files left then.
DrainFails ==
  /\ drainer # Nobody
  /\ failures < MaxFailures
  /\ failures' = failures + 1
  /\ drainer = Startup => sweep # NoSweep
  /\ EndDrain(FALSE)
  /\ UNCHANGED <<tables, disk, upload, deleted, crashes>>

-----------------------------------------------------------------------------
(* Crash and start *)

Crash ==
  /\ up \/ drainer = Startup
  /\ crashes < MaxCrashes
  /\ crashes' = crashes + 1
  /\ up' = FALSE
  /\ drainer' = Nobody
  /\ listed' = {}
  /\ stage' = [t \in Threads |-> "none"]
  /\ snap' = [t \in Threads |-> NoRow]
  /\ got' = [t \in Threads |-> Nothing]
  /\ fileTodo' = {}
  /\ sweep' = NoSweep
  /\ awaits' = [t \in Threads |-> 0]
  /\ upload' = [f \in Files |-> IF upload[f] = "sent" THEN "lost" ELSE upload[f]]
  /\ UNCHANGED <<tables, disk, unknown, deleted, settled, turned, failures>>

\* bootstrap: every event is projected already; the pending jobs are drained.
Bootstrap ==
  /\ ~up /\ drainer = Nobody
  /\ IF jobs = {}
     THEN LoadReadModel /\ UNCHANGED drain
     ELSE List(Startup) /\ UNCHANGED <<up, unknown>>
  /\ UNCHANGED <<tables, disk, upload, deleted, workers, failures, crashes>>

Commit ==
  \/ \E t \in Threads :
       \/ CommitSummary(t) \/ CommitTurn(t) \/ CommitMessage(t)
       \/ CommitArchive(t) \/ CommitRevert(t) \/ CommitDelete(t)
  \/ \E f \in Files :
       \/ Upload(f)
       \/ CommitSend(f)
       \/ CommitQueue(f)
       \/ CommitDispatchQueued(f)
       \/ CommitUnqueue(f)

DrainStep ==
  \/ \E u \in Threads : ReadRow(u) \/ ReadSources(u) \/ Upsert(u) \/ ReadRefs(u)
  \/ ListDirectory
  \/ \E f \in Files : RemoveFile(f)
  \/ FilesDone
  \/ Complete

Next ==
  \/ Commit
  \/ \E t \in Threads : StartDrain(t)
  \/ DrainStep
  \/ DrainFails
  \/ Crash
  \/ Bootstrap

Spec == Init /\ [][Next]_vars

-----------------------------------------------------------------------------
(* Properties *)

Row == [exists : BOOLEAN, meta : Nat, message : Nat, turn : Nat, summary : Nat]

\* Every variable stays in its domain.
TypeOK ==
  /\ commits \in Nat
  /\ row \in [Threads -> Row]
  /\ source \in [Threads -> Nat]
  /\ sent \in [Threads -> Nat] /\ turned \in [Threads -> Nat]
  /\ refs \in [Files -> {"none", "message", "queued", "unqueued"}]
  /\ jobs \subseteq [seq : 1..commits, shell : SUBSET Threads, files : SUBSET Threads]
  /\ disk \subseteq Files
  /\ upload \in [Files -> {"none", "sent", "committed", "lost"}]
  /\ unknown \subseteq deleted /\ deleted \subseteq Threads
  /\ awaits \in [Threads -> Nat]
  /\ settled \in [Threads -> Nat]
  /\ drainer \in Threads \cup {Nobody, Startup}
  /\ listed \subseteq jobs
  /\ stage \in [Threads -> {"none", "row", "sources", "upsert"}]
  /\ snap \in [Threads -> Row]
  /\ got \in [Threads -> [source : Nat, sent : Nat]]
  /\ fileTodo \subseteq Threads
  /\ sweep \in [thread : Threads \cup {Nobody}, step : {"idle", "list", "remove"},
                files : SUBSET Files]
  /\ up \in BOOLEAN
  /\ failures \in Nat /\ crashes \in Nat

\* What only a drain computes, the counts of requests and the flag of the
\* plans, lags behind its sources.
Behind(t) == row[t].summary < source[t]

\* What commits write themselves, the time of the last user message and the
\* latest turn, is not what the last of them wrote.
Overwritten(t) == row[t].message # sent[t] \/ row[t].turn # turned[t]

\* A sidebar summary that lags behind its sources is never forgotten: a pending
\* job names the thread, also after failed drains, crashes, and commits that
\* came while a drain was under way.  A drain that writes back an older row than
\* a commit left has no job to repair it; that can happen only after a drain has
\* failed, for its job is drained while the thread's worker is free.
StaleSummaryHasJob ==
  \A t \in Threads \ deleted :
    Behind(t) \/ (failures = 0 /\ Overwritten(t)) => \E j \in jobs : t \in j.shell

\* When a dispatch resolved after a successful reconcile, the summary accounts
\* for its commit, and keeps doing so.  A dispatch that sends a message resolves
\* without a reconcile: while no drain has failed, the row of a thread whose
\* worker is free has the last message and the last turn, whatever drains write.
AnsweredIsReconciled ==
  \A t \in Threads \ deleted :
    /\ settled[t] <= row[t].summary
    /\ up /\ failures = 0 /\ awaits[t] = 0 => ~Overwritten(t)

\* A file whose message was trimmed or whose thread was deleted is never left
\* behind: while it is on disk a pending job names the thread.  (The file of a
\* queued turn that was deleted has no job; the thread's next one removes it.)
UnreferencedFileHasJob ==
  \A f \in disk : upload[f] = "committed" /\ refs[f] = "none" =>
    \E j \in jobs : ThreadOf[f] \in j.files

\* Work that a commit deferred is never forgotten: neither the summary nor the
\* files, whatever drains fail, jobs come meanwhile, or crashes come between.
NothingForgotten == StaleSummaryHasJob /\ UnreferencedFileHasJob

\* The bootstrap resumes what is pending: no start leaves a summary behind its
\* sources, not even one whose file cleanup fails; and unless a drain has failed
\* no restart loses the time of a message or a turn.
StartReconciles ==
  [][~up /\ up' => \A t \in Threads \ deleted :
        /\ row'[t].summary = source'[t]
        /\ failures' = 0 => ~Overwritten(t)']_vars

\* ProjectionPipeline.ts:773 "the conversation is gone, not tombstoned": the row
\* of a deleted thread does not come back.  A drain that read it writes it back.
DeletedStaysGone == \A t \in deleted : ~row[t].exists

=============================================================================
