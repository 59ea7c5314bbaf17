---------------------- MODULE ProjectionReconcile_proofs ----------------------
(***************************************************************************)
(* Proofs about ProjectionReconcile, for any threads, files and bounds:    *)
(* work deferred to after the commit is never forgotten, a dispatch that   *)
(* was answered after a reconcile is reconciled, and so is every start.    *)
(***************************************************************************)
EXTENDS ProjectionReconcile, TLAPS

\* A job enqueued after the drain listed its jobs; completeThrough spares it.
IsNew(j) == j \in jobs /\ \A l \in listed : l.seq < j.seq

\* A job that the running drain does not complete names the thread's summary.
SummaryComes(t) == \E j \in jobs : t \in j.shell /\ IsNew(j)

\* A job that the running drain does not complete names the thread's files.
FilesCome(t) == \E j \in jobs : t \in j.files /\ IsNew(j)

\* The running drain has yet to remove the file: its thread was not swept, or
\* the sweep does not take the file for a referenced one.
IsToBeRemoved(f) ==
  /\ ThreadOf[f] \in fileTodo
  /\ sweep.thread = ThreadOf[f] =>
       \/ sweep.step = "list" /\ f \notin sweep.files
       \/ sweep.step = "remove" /\ f \in sweep.files

\* Summaries only grow, and never beyond their sources.
SummariesGrow ==
  \A t \in Threads :
    /\ t \notin deleted => row[t].exists
    /\ row[t].summary <= source[t] /\ source[t] <= commits
    /\ stage[t] \in {"sources", "upsert"} => snap[t].exists
    /\ stage[t] = "upsert" => row[t].summary <= got[t].source /\ got[t].source <= source[t]

\* A drain works off what it listed, threads first and files after them.
DrainWorksOffJobs ==
  /\ drainer = Nobody => listed = {} /\ fileTodo = {}
  /\ \A t \in Threads : ~Idle(t) => t \in ShellOf(listed)
  /\ fileTodo \subseteq AttachmentsOf(listed)
  /\ sweep # NoSweep =>
       /\ sweep.thread \in fileTodo /\ sweep.step # "idle"
       /\ \A t \in Threads : Idle(t)

\* Who drains: the bootstrap, with nobody else about, or the worker of a thread
\* that cannot commit before the drain is over.
DrainersAreAwaiting ==
  /\ drainer \in Threads => up /\ awaits[drainer] > 0 /\ ~SummaryComes(drainer)
  /\ drainer = Startup => ~up /\ listed = jobs

\* A stale summary is to be read by the running drain or named by a later job.
SummariesInHand ==
  \A t \in Threads \ deleted :
    /\ Idle(t) /\ row[t].summary < source[t] => SummaryComes(t)
    /\ stage[t] = "upsert" /\ got[t].source < source[t] => SummaryComes(t)

\* A file without a message is to be removed or named by a later job.
FilesInHand ==
  \A f \in disk : upload[f] = "committed" /\ refs[f] = "none" =>
    IsToBeRemoved(f) \/ FilesCome(ThreadOf[f])

\* The commit that is awaited is one to the thread's sources, or its deletion.
AwaitedIsInSources == \A t \in Threads \ deleted : awaits[t] <= source[t]

\* What a drain computes is current, or a job is to make it so; a dispatch that
\* was answered after a reconcile is in it.
BehindHasJob == \A t \in Threads \ deleted : Behind(t) => \E j \in jobs : t \in j.shell
WorkHasJob == BehindHasJob /\ UnreferencedFileHasJob
SettledInSummary == \A t \in Threads \ deleted : settled[t] <= row[t].summary

\* The inductive invariant behind the deferred work.
ReconcileInv ==
  /\ TypeOK
  /\ SummariesGrow
  /\ DrainWorksOffJobs
  /\ DrainersAreAwaiting
  /\ SummariesInHand
  /\ FilesInHand
  /\ AwaitedIsInSources
  /\ SettledInSummary

-----------------------------------------------------------------------------
(* Types *)

\* The type of the tables, of the drain, and of the rest.
Job(n) == [seq : 1..n, shell : SUBSET Threads, files : SUBSET Threads]

TablesTyped ==
  /\ commits \in Nat
  /\ row \in [Threads -> Row]
  /\ source \in [Threads -> Nat]
  /\ sent \in [Threads -> Nat]
  /\ refs \in [Files -> {"none", "message", "queued", "unqueued"}]
  /\ jobs \subseteq Job(commits)

ClientsTyped ==
  /\ disk \subseteq Files
  /\ upload \in [Files -> {"none", "sent", "committed", "lost"}]
  /\ unknown \subseteq deleted /\ deleted \subseteq Threads
  /\ awaits \in [Threads -> Nat]
  /\ settled \in [Threads -> Nat]
  /\ turned \in [Threads -> Nat]
  /\ up \in BOOLEAN
  /\ failures \in Nat /\ crashes \in Nat

DrainTyped ==
  /\ drainer \in Threads \cup {Nobody, Startup}
  /\ listed \subseteq jobs
  /\ stage \in [Threads -> {"none", "row", "sources", "upsert"}]
  /\ snap \in [Threads -> Row]
  /\ got \in [Threads -> [source : Nat, sent : Nat]]
  /\ fileTodo \subseteq Threads
  /\ sweep \in [thread : Threads \cup {Nobody}, step : {"idle", "list", "remove"},
                files : SUBSET Files]

LEMMA TypeParts == TypeOK <=> TablesTyped /\ ClientsTyped /\ DrainTyped
BY DEF TypeOK, TablesTyped, ClientsTyped, DrainTyped, Job

LEMMA Typed ==
  ASSUME TablesTyped', ClientsTyped', DrainTyped'
  PROVE  TypeOK'
BY DEF TypeOK, TablesTyped, ClientsTyped, DrainTyped, Job

\* A job may be added with every commit.
LEMMA JobsTyped ==
  ASSUME TablesTyped, commits' = commits + 1,
         \/ jobs' = jobs
         \/ \E shell, files \in SUBSET Threads :
              jobs' = jobs \cup {[seq |-> commits + 1, shell |-> shell, files |-> files]}
  PROVE  jobs' \subseteq Job(commits)' /\ commits' \in Nat /\ commits + 1 \in Nat
<1>1. commits \in Nat /\ Job(commits) \subseteq Job(commits)'
  BY DEF TablesTyped, Job
<1>2. ASSUME NEW shell \in SUBSET Threads, NEW files \in SUBSET Threads
      PROVE  [seq |-> commits + 1, shell |-> shell, files |-> files] \in Job(commits)'
  BY <1>1 DEF Job
<1> QED
  BY <1>1, <1>2 DEF TablesTyped

\* The rows after Touch.
LEMMA Touched ==
  ASSUME TablesTyped, NEW ts, Touch(ts)
  PROVE  /\ row' \in [Threads -> Row]
         /\ \A u \in Threads : row'[u].exists = row[u].exists /\ row'[u].summary = row[u].summary
<1>1. commits + 1 \in Nat /\ \A u \in Threads : row[u] \in Row
  BY DEF TablesTyped
<1>2. ASSUME NEW u \in Threads
      PROVE  /\ row'[u] \in Row
             /\ row'[u].exists = row[u].exists /\ row'[u].summary = row[u].summary
  <2>1. row'[u] = row[u] \/ row'[u] = [row[u] EXCEPT !.meta = commits + 1]
    BY DEF Touch
  <2> QED
    BY <1>1, <2>1 DEF Row
<1>3. row' = [u \in Threads |-> row'[u]]
  BY DEF Touch
<1> QED
  BY <1>2, <1>3

\* The rows after a commit that wrote its time or its turn.
LEMMA Written ==
  ASSUME TablesTyped, NEW t \in Threads,
         \/ Write(t, [row[t] EXCEPT !.meta = commits + 1, !.turn = commits + 1])
         \/ Write(t, [row[t] EXCEPT !.meta = commits + 1, !.message = commits + 1])
  PROVE  /\ row' \in [Threads -> Row]
         /\ \A u \in Threads : row'[u].exists = row[u].exists /\ row'[u].summary = row[u].summary
<1>1. commits + 1 \in Nat /\ row \in [Threads -> Row] /\ row[t] \in Row
  BY DEF TablesTyped
<1> DEFINE turn == [row[t] EXCEPT !.meta = commits + 1, !.turn = commits + 1]
           message == [row[t] EXCEPT !.meta = commits + 1, !.message = commits + 1]
<1>2. /\ turn \in Row /\ turn.exists = row[t].exists /\ turn.summary = row[t].summary
      /\ message \in Row /\ message.exists = row[t].exists /\ message.summary = row[t].summary
  BY <1>1 DEF Row
<1>3. PICK r \in Row : Write(t, r) /\ r.exists = row[t].exists /\ r.summary = row[t].summary
  BY <1>2
<1> QED
  BY <1>1, <1>3 DEF Write

\* The rows after a deletion.
LEMMA Deleted ==
  ASSUME TablesTyped, NEW ts, row' = [u \in Threads |-> IF u \in ts THEN NoRow ELSE row[u]]
  PROVE  /\ row' \in [Threads -> Row]
         /\ \A u \in Threads : row'[u] = NoRow \/ (row'[u] = row[u] /\ u \notin ts)
         /\ NoRow.summary = 0
BY DEF TablesTyped, Row, NoRow

\* Commits are typed.
LEMMA CommitTyped ==
  ASSUME TypeOK, Commit
  PROVE  TypeOK'
<1>0. TablesTyped /\ ClientsTyped /\ DrainTyped
  BY TypeParts
<1>1. ASSUME NEW t \in Threads,
             \/ CommitSummary(t) \/ CommitTurn(t) \/ CommitMessage(t)
             \/ CommitArchive(t) \/ CommitRevert(t) \/ CommitDelete(t)
      PROVE  TypeOK'
  <2>0. Subtree[t] \subseteq Threads /\ {t} \subseteq Threads /\ {} \subseteq Threads
    BY ReconcileConstants
  <2>1. commits' = commits + 1 /\ UNCHANGED drain
    BY <1>1 DEF CommitSummary, CommitTurn, CommitMessage, SendMessage, CommitArchive, CommitRevert,
       CommitDelete
  <2>2. \/ jobs' = jobs
        \/ \E shell, files \in SUBSET Threads :
             jobs' = jobs \cup {[seq |-> commits + 1, shell |-> shell, files |-> files]}
    BY <1>1, <2>0 DEF CommitSummary, CommitTurn, CommitMessage, CommitArchive, CommitRevert,
       CommitDelete, Enqueue
  <2>3. jobs' \subseteq Job(commits)' /\ commits' \in Nat /\ commits + 1 \in Nat
    BY <1>0, <2>1, <2>2, JobsTyped
  <2>4. row' \in [Threads -> Row]
    <3>1. CASE CommitDelete(t)
      BY <1>0, <3>1, Deleted DEF CommitDelete
    <3> QED
      BY <1>0, <1>1, <3>1, Touched, Written
         DEF CommitSummary, CommitTurn, CommitMessage, SendMessage, CommitArchive, CommitRevert
  <2>5. TablesTyped'
    BY <1>0, <1>1, <2>3, <2>4
       DEF TablesTyped, CommitSummary, CommitTurn, CommitMessage, SendMessage, CommitArchive,
           CommitRevert, CommitDelete
  <2>6. ClientsTyped'
    BY <1>0, <1>1, <2>0, <2>3 DEF ClientsTyped, CommitSummary, CommitTurn, CommitMessage,
       CommitArchive, CommitRevert, CommitDelete, Enqueue, clients, workers, process
  <2>7. DrainTyped'
    BY <1>0, <2>1, <2>2 DEF DrainTyped, drain
  <2> QED
    BY <2>5, <2>6, <2>7, Typed
<1>2. ASSUME NEW f \in Files,
             CommitSend(f) \/ CommitQueue(f) \/ CommitDispatchQueued(f) \/ CommitUnqueue(f)
      PROVE  TypeOK'
  <2>1. commits' = commits + 1 /\ jobs' = jobs /\ UNCHANGED <<drain, source, disk, workers, process>>
    BY <1>2 DEF CommitSend, CommitQueue, CommitDispatchQueued, CommitUnqueue, SendMessage
  <2>2. jobs' \subseteq Job(commits)' /\ commits' \in Nat
    BY <1>0, <2>1, JobsTyped
  <2>3. row' \in [Threads -> Row]
    BY <1>0, <1>2, Touched, Written, ReconcileConstants
       DEF CommitSend, CommitQueue, CommitDispatchQueued, CommitUnqueue, SendMessage
  <2>4. TablesTyped'
    BY <1>0, <1>2, <2>1, <2>2, <2>3
       DEF TablesTyped, CommitSend, CommitQueue, CommitDispatchQueued, CommitUnqueue, SendMessage
  <2>5. ClientsTyped'
    BY <1>0, <1>2, <2>1
       DEF ClientsTyped, CommitSend, CommitQueue, CommitDispatchQueued, CommitUnqueue, clients,
           workers, process
  <2>6. DrainTyped'
    BY <1>0, <2>1 DEF DrainTyped, drain
  <2> QED
    BY <2>4, <2>5, <2>6, Typed
<1>3. ASSUME NEW f \in Files, Upload(f) PROVE TypeOK'
  BY <1>0, <1>3, Typed DEF Upload, TablesTyped, ClientsTyped, DrainTyped, Job,
     tables, workers, drain, process
<1> QED
  BY <1>1, <1>2, <1>3 DEF Commit

\* The listing of the jobs is typed.
LEMMA ListTyped ==
  ASSUME TypeOK, NEW who \in Threads \cup {Startup}, List(who), UNCHANGED <<tables, disk, upload, deleted>>,
         ClientsTyped'
  PROVE  TypeOK'
<1>0. TablesTyped /\ DrainTyped
  BY TypeParts
<1>1. AttachmentsOf(jobs) \subseteq Threads
  BY <1>0 DEF TablesTyped, Job, AttachmentsOf
<1>2. DrainTyped'
  BY <1>0, <1>1 DEF DrainTyped, List, tables
<1>3. TablesTyped'
  BY <1>0 DEF TablesTyped, tables, Job
<1> QED
  BY <1>2, <1>3, Typed

\* The end of a drain is typed.
LEMMA EndTyped ==
  ASSUME TypeOK, SummariesGrow, drainer # Nobody, NEW ok, EndDrain(ok), jobs' \subseteq jobs,
         UNCHANGED <<commits, row, source, sent, refs, disk, upload, deleted>>,
         failures' \in Nat, crashes' \in Nat
  PROVE  TypeOK'
<1>0. TablesTyped /\ ClientsTyped /\ DrainTyped
  BY TypeParts
<1>1. TablesTyped'
  BY <1>0 DEF TablesTyped, Job
<1>2. DrainTyped'
  BY <1>0 DEF DrainTyped, EndDrain, NoSweep
<1>3. ClientsTyped'
  <2>1. CASE drainer = Startup
    BY <1>0, <2>1 DEF ClientsTyped, EndDrain, LoadReadModel, SummariesGrow, workers
  <2>2. CASE drainer # Startup
    <3>1. drainer \in Threads /\ awaits[drainer] \in Nat /\ Answer(drainer, ok)
      BY <1>0, <2>2 DEF DrainTyped, ClientsTyped, EndDrain
    <3> QED
      BY <1>0, <2>2, <3>1 DEF ClientsTyped, EndDrain, Answer
  <2> QED
    BY <2>1, <2>2
<1> QED
  BY <1>1, <1>2, <1>3, Typed

\* The steps of a drain are typed.
LEMMA DrainStepTyped ==
  ASSUME TypeOK, SummariesGrow, DrainStep
  PROVE  TypeOK'
<1>0. TablesTyped /\ ClientsTyped /\ DrainTyped
  BY TypeParts
<1>1. ASSUME NEW u \in Threads, ReadRow(u) \/ ReadSources(u) \/ Upsert(u) PROVE TypeOK'
  <2>1. /\ snap[u] \in Row /\ got[u] \in [source : Nat, sent : Nat] /\ row[u] \in Row
        /\ [source |-> source[u], sent |-> sent[u]] \in [source : Nat, sent : Nat]
    BY <1>0 DEF DrainTyped, TablesTyped
  <2>2. [snap[u] EXCEPT !.summary = got[u].source, !.message = got[u].sent] \in Row
    BY <2>1 DEF Row
  <2>3. TablesTyped'
    BY <1>0, <1>1, <2>2 DEF TablesTyped, ReadRow, ReadSources, Upsert, tables, Job
  <2>4. DrainTyped'
    BY <1>0, <1>1, <2>1 DEF DrainTyped, ReadRow, ReadSources, Upsert, tables
  <2>5. ClientsTyped'
    BY <1>0, <1>1 DEF ClientsTyped, ReadRow, ReadSources, Upsert, clients, workers, process
  <2> QED
    BY <2>3, <2>4, <2>5, Typed
<1>2. ASSUME \/ \E u \in Threads : ReadRefs(u)
             \/ ListDirectory \/ FilesDone \/ \E f \in Files : RemoveFile(f)
      PROVE  TypeOK'
  <2>1. DrainTyped'
    <3>1. UNCHANGED <<drainer, listed, jobs, stage, snap, got>> /\ fileTodo' \subseteq Threads
      BY <1>0, <1>2 DEF DrainTyped, ReadRefs, ListDirectory, FilesDone, RemoveFile, tables
    <3>2. sweep' \in [thread : Threads \cup {Nobody}, step : {"idle", "list", "remove"},
                      files : SUBSET Files]
      <4>1. ASSUME NEW u \in Threads, ReadRefs(u)
            PROVE  \E fs \in SUBSET Files : sweep' = [thread |-> u, step |-> "list", files |-> fs]
        BY <4>1 DEF ReadRefs, FilesOf
      <4>2. CASE ListDirectory \/ \E f \in Files : RemoveFile(f)
        BY <1>0, <4>2 DEF DrainTyped, ListDirectory, RemoveFile, FilesOf
      <4>3. CASE FilesDone
        BY <4>3 DEF FilesDone, NoSweep
      <4> QED
        BY <1>2, <4>1, <4>2, <4>3
    <3> QED
      BY <1>0, <3>1, <3>2 DEF DrainTyped
  <2>2. TablesTyped'
    BY <1>0, <1>2 DEF TablesTyped, ReadRefs, ListDirectory, FilesDone, RemoveFile, tables, Job
  <2>3. ClientsTyped'
    BY <1>0, <1>2
       DEF ClientsTyped, ReadRefs, ListDirectory, FilesDone, RemoveFile, clients, workers, process
  <2> QED
    BY <2>1, <2>2, <2>3, Typed
<1>3. ASSUME Complete PROVE TypeOK'
  BY <1>0, <1>3, EndTyped DEF Complete, CompleteThrough, ClientsTyped
<1> QED
  BY <1>1, <1>2, <1>3 DEF DrainStep

\* Every step is typed.
LEMMA TypeStep ==
  ASSUME TypeOK, SummariesGrow, [Next]_vars
  PROVE  TypeOK'
<1>0. TablesTyped /\ ClientsTyped /\ DrainTyped
  BY TypeParts
<1>1. ASSUME NEW t \in Threads, StartDrain(t) PROVE TypeOK'
  <2>1. UNCHANGED <<tables, disk, clients, process>>
    BY <1>1 DEF StartDrain
  <2>2. CASE UNCHANGED workers
    BY <1>0, <1>1, <2>1, <2>2, ListTyped, Typed DEF StartDrain, ClientsTyped, TablesTyped,
       DrainTyped, Job, clients, workers, process, tables, drain
  <2>3. CASE Answer(t, TRUE) /\ UNCHANGED drain
    BY <1>0, <2>1, <2>3, Typed DEF Answer, ClientsTyped, TablesTyped, DrainTyped, Job, clients,
       process, tables, drain
  <2> QED
    BY <1>1, <2>2, <2>3 DEF StartDrain
<1>2. ASSUME DrainFails PROVE TypeOK'
  <2>1. /\ drainer # Nobody /\ EndDrain(FALSE) /\ jobs' = jobs
        /\ UNCHANGED <<commits, row, source, sent, refs, disk, upload, deleted>>
    BY <1>2 DEF DrainFails, tables
  <2>2. failures' \in Nat /\ crashes' \in Nat
    BY <1>0, <1>2 DEF DrainFails, ClientsTyped
  <2> QED
    BY <2>1, <2>2, EndTyped
<1>3. ASSUME Crash PROVE TypeOK'
  <2>1. TablesTyped' /\ DrainTyped'
    BY <1>0, <1>3 DEF Crash, TablesTyped, DrainTyped, tables, Job, NoRow, NoSweep, Nothing, Row
  <2>2. ClientsTyped'
    <3>1. upload' \in [Files -> {"none", "sent", "committed", "lost"}]
      BY <1>0, <1>3 DEF Crash, ClientsTyped
    <3>2. awaits' \in [Threads -> Nat] /\ up' \in BOOLEAN
      BY <1>3 DEF Crash
    <3> QED
      BY <1>0, <1>3, <3>1, <3>2 DEF Crash, ClientsTyped
  <2> QED
    BY <2>1, <2>2, Typed
<1>4. ASSUME Bootstrap PROVE TypeOK'
  <2>1. ClientsTyped'
    BY <1>0, <1>4 DEF Bootstrap, LoadReadModel, ClientsTyped, SummariesGrow, workers
  <2>2. CASE jobs = {}
    BY <1>0, <1>4, <2>1, <2>2, Typed
       DEF Bootstrap, TablesTyped, DrainTyped, tables, drain, Job
  <2>3. CASE jobs # {}
    BY <1>4, <2>1, <2>3, ListTyped DEF Bootstrap
  <2> QED
    BY <2>2, <2>3
<1>5. ASSUME UNCHANGED vars PROVE TypeOK'
  BY <1>0, <1>5, Typed DEF vars, tables, clients, workers, drain, process, TablesTyped,
     ClientsTyped, DrainTyped, Job
<1> QED
  BY <1>1, <1>2, <1>3, <1>4, <1>5, CommitTyped, DrainStepTyped DEF Next

-----------------------------------------------------------------------------
(* Jobs and drains *)

\* Jobs are numbered by commits that happened.
LEMMA JobNumbers ==
  ASSUME TypeOK
  PROVE  /\ commits \in Nat
         /\ \A j \in jobs : j.seq \in Nat /\ j.seq <= commits
         /\ listed \subseteq jobs
BY DEF TypeOK

\* An enqueued job is new to the drain that runs.
LEMMA EnqueuedIsNew ==
  ASSUME TypeOK, NEW t \in Threads, NEW shell, NEW files, Enqueue(t, shell, files),
         UNCHANGED listed
  PROVE  /\ \A u \in shell : SummaryComes(u)'
         /\ \A u \in files : FilesCome(u)'
         /\ \A u : SummaryComes(u) => SummaryComes(u)'
         /\ \A u : FilesCome(u) => FilesCome(u)'
         /\ \A u : SummaryComes(u)' => SummaryComes(u) \/ u \in shell
<1>1. PICK new : /\ jobs' = jobs \cup {new}
                 /\ new.seq = commits + 1 /\ new.shell = shell /\ new.files = files
  <2> DEFINE n == [seq |-> commits + 1, shell |-> shell, files |-> files]
  <2>1. jobs' = jobs \cup {n} /\ n.seq = commits + 1 /\ n.shell = shell /\ n.files = files
    BY DEF Enqueue
  <2> HIDE DEF n
  <2> QED
    BY <2>1
<1>2. /\ new \in jobs' /\ \A l \in listed : l.seq < new.seq
      /\ jobs \subseteq jobs'
  <2>1. commits \in Nat /\ \A l \in listed : l.seq \in Nat /\ l.seq <= commits
    BY JobNumbers
  <2> QED
    BY <1>1, <2>1
<1> QED
  BY <1>1, <1>2 DEF SummaryComes, FilesCome, IsNew

\* Where jobs and the listing stay, so does what is new.
LEMMA SameJobs ==
  ASSUME UNCHANGED <<jobs, listed>>
  PROVE  \A u : SummaryComes(u)' = SummaryComes(u) /\ FilesCome(u)' = FilesCome(u)
BY DEF SummaryComes, FilesCome, IsNew

\* A job is on its way or listed.
LEMMA ListedOrNew ==
  ASSUME TypeOK, NEW u
  PROVE  /\ SummaryComes(u) => \E j \in jobs : u \in j.shell
         /\ FilesCome(u) => \E j \in jobs : u \in j.files
         /\ u \in ShellOf(listed) => \E j \in jobs : u \in j.shell
         /\ u \in AttachmentsOf(listed) => \E j \in jobs : u \in j.files
BY DEF TypeOK, SummaryComes, FilesCome, ShellOf, AttachmentsOf

\* With nothing listed every job is new; with everything listed none is.
LEMMA AllOrNone ==
  ASSUME NEW u
  PROVE  /\ listed = {} => (SummaryComes(u) <=> \E j \in jobs : u \in j.shell)
         /\ listed = {} => (FilesCome(u) <=> \E j \in jobs : u \in j.files)
         /\ TypeOK /\ listed = jobs => ~SummaryComes(u) /\ ~FilesCome(u)
<1>1. ASSUME TypeOK, listed = jobs, NEW j \in jobs PROVE ~IsNew(j)
  BY <1>1, JobNumbers DEF IsNew
<1> QED
  BY <1>1 DEF SummaryComes, FilesCome, IsNew

\* What no drain has in hand is named by a pending job.
LEMMA InHand ==
  ASSUME ReconcileInv
  PROVE  /\ \A t \in Threads \ deleted : row[t].summary < source[t] => \E j \in jobs : t \in j.shell
         /\ \A f \in disk : upload[f] = "committed" /\ refs[f] = "none" =>
              \E j \in jobs : ThreadOf[f] \in j.files
<1>1. ASSUME NEW t \in Threads \ deleted, row[t].summary < source[t]
      PROVE  \E j \in jobs : t \in j.shell
  BY <1>1, ListedOrNew DEF ReconcileInv, SummariesInHand, DrainWorksOffJobs
<1>2. ASSUME NEW f \in disk, upload[f] = "committed", refs[f] = "none"
      PROVE  \E j \in jobs : ThreadOf[f] \in j.files
  BY <1>2, ListedOrNew DEF ReconcileInv, FilesInHand, DrainWorksOffJobs, IsToBeRemoved
<1> QED
  BY <1>1, <1>2

\* The safety properties follow from the invariant.
LEMMA InvImplies == ReconcileInv => TypeOK /\ WorkHasJob /\ SettledInSummary
BY InHand DEF ReconcileInv, WorkHasJob, BehindHasJob, Behind, UnreferencedFileHasJob

\* A drain that has nothing left to read leaves every summary as new as its
\* sources or named by a later job.
LEMMA DrainedIsCurrent ==
  ASSUME ReconcileInv, \A t \in Threads : Idle(t), NEW t \in Threads \ deleted, ~SummaryComes(t)
  PROVE  row[t].summary = source[t]
<1>1. row[t].summary <= source[t] /\ ~(row[t].summary < source[t])
  BY DEF ReconcileInv, SummariesGrow, SummariesInHand
<1>2. row[t].summary \in Nat /\ source[t] \in Nat
  BY DEF ReconcileInv, TypeOK, Row
<1> QED
  BY <1>1, <1>2

\* The invariant holds initially.
LEMMA ReconcileInit == Init => ReconcileInv
<1> SUFFICES ASSUME Init PROVE ReconcileInv
  OBVIOUS
<1>1. TypeOK
  BY ReconcileConstants DEF Init, TypeOK, Row, NoRow, NoSweep, Nothing
<1>2. SummariesGrow /\ SummariesInHand /\ AwaitedIsInSources /\ SettledInSummary /\ FilesInHand
  BY DEF Init, SummariesGrow, SummariesInHand, AwaitedIsInSources, SettledInSummary,
         FilesInHand, NoRow
<1>3. DrainWorksOffJobs /\ DrainersAreAwaiting
  BY ReconcileConstants DEF Init, DrainWorksOffJobs, DrainersAreAwaiting, Idle
<1> QED
  BY <1>1, <1>2, <1>3 DEF ReconcileInv

-----------------------------------------------------------------------------
(* Commits *)

\* The worker of t commits: what the drain has in hand stays, sources only move
\* with a job for the summary, and files lose their message only with a job for
\* the files of their thread.
CommitBy(t, shell, files) ==
  /\ up /\ awaits[t] = 0 /\ commits' = commits + 1
  /\ deleted \subseteq deleted'
  /\ \A u \in Threads : u \notin deleted' =>
       row'[u].exists = row[u].exists /\ row'[u].summary = row[u].summary
  /\ \A u \in Threads : row'[u].summary = row[u].summary \/ row'[u].summary = 0
  /\ \/ shell = {} /\ files = {} /\ UNCHANGED <<jobs, awaits, source>>
     \/ /\ Enqueue(t, shell, files)
        /\ \/ shell = {t} /\ source' = [source EXCEPT ![t] = commits + 1]
           \/ shell = {} /\ source' = source /\ t \in deleted'
  /\ \A f \in Files : upload'[f] = "committed" /\ refs'[f] = "none" =>
       (upload[f] = "committed" /\ refs[f] = "none") \/ ThreadOf[f] \in files
  /\ UNCHANGED <<disk, settled, drain, process>>

LEMMA SummaryIsCommit ==
  ASSUME TablesTyped, NEW t \in Threads, CommitSummary(t)
  PROVE  CommitBy(t, {t}, {})
BY Touched DEF CommitSummary, CommitBy, Free, clients, TablesTyped

LEMMA TurnIsCommit ==
  ASSUME TablesTyped, NEW t \in Threads, CommitTurn(t)
  PROVE  CommitBy(t, {t}, {})
BY Written DEF CommitTurn, CommitBy, Free, clients, TablesTyped

LEMMA MessageIsCommit ==
  ASSUME TablesTyped, NEW t \in Threads, CommitMessage(t)
  PROVE  CommitBy(t, {}, {})
BY Written DEF CommitMessage, SendMessage, CommitBy, Free, clients, workers

LEMMA ArchiveIsCommit ==
  ASSUME TablesTyped, NEW t \in Threads, CommitArchive(t)
  PROVE  CommitBy(t, {}, {})
BY Touched DEF CommitArchive, CommitBy, Free, clients, workers

LEMMA RevertIsCommit ==
  ASSUME TablesTyped, NEW t \in Threads, CommitRevert(t)
  PROVE  CommitBy(t, {t}, {t})
<1>1. ASSUME NEW f \in Files, upload'[f] = "committed", refs'[f] = "none"
      PROVE  (upload[f] = "committed" /\ refs[f] = "none") \/ ThreadOf[f] = t
  BY <1>1 DEF CommitRevert, clients, FilesOf
<1> QED
  BY <1>1, Written DEF CommitRevert, CommitBy, Free, clients

LEMMA DeleteIsCommit ==
  ASSUME TablesTyped, NEW t \in Threads, CommitDelete(t)
  PROVE  CommitBy(t, {}, Subtree[t])
<1>1. t \in deleted'
  BY ReconcileConstants DEF CommitDelete
<1>2. ASSUME NEW f \in Files, upload'[f] = "committed", refs'[f] = "none"
      PROVE  (upload[f] = "committed" /\ refs[f] = "none") \/ ThreadOf[f] \in Subtree[t]
  BY <1>2 DEF CommitDelete, FilesOf
<1>3. \A u \in Threads : row'[u] = NoRow \/ (row'[u] = row[u] /\ u \notin Subtree[t])
  BY Deleted DEF CommitDelete
<1>4. \A u \in Threads : u \notin deleted' => row'[u] = row[u]
  BY <1>3 DEF CommitDelete
<1> QED
  BY <1>1, <1>2, <1>3, <1>4 DEF CommitDelete, CommitBy, Free, NoRow

LEMMA FileIsCommit ==
  ASSUME TypeOK, TablesTyped, NEW f \in Files,
         CommitSend(f) \/ CommitQueue(f) \/ CommitDispatchQueued(f) \/ CommitUnqueue(f)
  PROVE  CommitBy(ThreadOf[f], {}, {})
<1>1. \A u \in Threads : row'[u].exists = row[u].exists /\ row'[u].summary = row[u].summary
  BY Touched, Written, ReconcileConstants
     DEF CommitSend, CommitQueue, CommitDispatchQueued, CommitUnqueue, SendMessage
<1>2. ASSUME NEW g \in Files, upload'[g] = "committed", refs'[g] = "none"
      PROVE  upload[g] = "committed" /\ refs[g] = "none"
  BY <1>2 DEF CommitSend, CommitQueue, CommitDispatchQueued, CommitUnqueue, clients, TypeOK
<1> QED
  BY <1>1, <1>2 DEF CommitSend, CommitQueue, CommitDispatchQueued, CommitUnqueue, SendMessage,
     CommitBy, Free, clients, workers

\* A commit keeps the invariant, its types aside.
LEMMA CommitKeeps ==
  ASSUME ReconcileInv, TypeOK', NEW t \in Threads, NEW shell, NEW files, CommitBy(t, shell, files)
  PROVE  ReconcileInv'
<1> USE DEF ReconcileInv
<1>1. /\ UNCHANGED <<drainer, listed, stage, snap, got, fileTodo, sweep, settled, disk, up>>
      /\ \A u \in Threads : u \notin deleted' => u \notin deleted
      /\ \A u \in Threads : Idle(u)' = Idle(u)
  BY DEF CommitBy, drain, process, Idle
<1>2. /\ commits \in Nat /\ source \in [Threads -> Nat] /\ source' \in [Threads -> Nat]
      /\ \A u \in Threads : row[u].summary \in Nat /\ row'[u].summary \in Nat /\ got[u].source \in Nat
      /\ awaits \in [Threads -> Nat]
  <2>1. /\ \A u \in Threads : row[u] \in Row /\ row'[u] \in Row
        /\ got \in [Threads -> [source : Nat, sent : Nat]]
    BY DEF TypeOK
  <2>2. commits \in Nat /\ source \in [Threads -> Nat] /\ source' \in [Threads -> Nat]
        /\ awaits \in [Threads -> Nat]
    BY DEF TypeOK
  <2> QED
    BY <2>1, <2>2 DEF Row
<1>3. \A u \in Threads :
        source'[u] = source[u] \/ (u = t /\ source'[u] = commits + 1 /\ shell = {t})
  BY <1>2 DEF CommitBy
<1>4. /\ \A u : SummaryComes(u) => SummaryComes(u)'
      /\ \A u : FilesCome(u) => FilesCome(u)'
      /\ \A u \in shell : SummaryComes(u)'
      /\ \A u \in files : FilesCome(u)'
      /\ \A u : SummaryComes(u)' => SummaryComes(u) \/ u \in shell
  <2>1. CASE Enqueue(t, shell, files)
    BY <1>1, <2>1, EnqueuedIsNew
  <2>2. CASE shell = {} /\ files = {} /\ UNCHANGED jobs
    BY <1>1, <2>2, SameJobs
  <2> QED
    BY <2>1, <2>2 DEF CommitBy
<1>5. SummariesGrow'
  <2> SUFFICES ASSUME NEW u \in Threads
               PROVE  /\ u \notin deleted' => row'[u].exists
                      /\ row'[u].summary <= source'[u] /\ source'[u] <= commits'
                      /\ stage'[u] \in {"sources", "upsert"} => snap'[u].exists
                      /\ stage'[u] = "upsert" => row'[u].summary <= got'[u].source /\ got'[u].source <= source'[u]
    BY DEF SummariesGrow
  <2>1. row'[u].summary = row[u].summary \/ row'[u].summary = 0
    BY DEF CommitBy
  <2>2. commits' = commits + 1 /\ (u \notin deleted' => row'[u].exists = row[u].exists)
    BY DEF CommitBy
  <2>3. row[u].summary <= source[u] /\ source[u] <= commits
    BY DEF SummariesGrow
  <2> QED
    BY <1>1, <1>2, <1>3, <2>1, <2>2, <2>3 DEF SummariesGrow
<1>6. DrainWorksOffJobs'
  BY <1>1 DEF DrainWorksOffJobs
<1>7. DrainersAreAwaiting'
  <2>1. CASE drainer = Startup
    BY <1>1, <2>1, ReconcileConstants DEF DrainersAreAwaiting, CommitBy
  <2>2. CASE drainer \in Threads
    <3>1. awaits[drainer] > 0 /\ drainer # t
      BY <2>2 DEF DrainersAreAwaiting, CommitBy
    <3>2. awaits'[drainer] = awaits[drainer]
      BY <1>2, <2>2, <3>1 DEF CommitBy, Enqueue
    <3>3. drainer \notin shell
      BY <3>1 DEF CommitBy
    <3> QED
      BY <1>1, <1>4, <2>2, <3>1, <3>2, <3>3, ReconcileConstants DEF DrainersAreAwaiting
  <2>3. CASE drainer \notin Threads /\ drainer # Startup
    BY <1>1, <2>3 DEF DrainersAreAwaiting
  <2> QED
    BY <2>1, <2>2, <2>3
<1>8. SummariesInHand'
  <2> SUFFICES ASSUME NEW u \in Threads, u \notin deleted', ~SummaryComes(u)'
               PROVE  /\ Idle(u)' => ~(row'[u].summary < source'[u])
                      /\ stage'[u] = "upsert" => ~(got'[u].source < source'[u])
    BY DEF SummariesInHand
  <2>1. u \notin shell /\ ~SummaryComes(u) /\ source'[u] = source[u]
    BY <1>3, <1>4
  <2>2. row'[u].summary = row[u].summary
    BY DEF CommitBy
  <2> QED
    BY <1>1, <2>1, <2>2 DEF SummariesInHand
<1>9. FilesInHand'
  <2> SUFFICES ASSUME NEW f \in disk', upload'[f] = "committed", refs'[f] = "none"
               PROVE  IsToBeRemoved(f)' \/ FilesCome(ThreadOf[f])'
    BY DEF FilesInHand
  <2>1. f \in disk /\ f \in Files
    BY <1>1 DEF TypeOK
  <2>2. IsToBeRemoved(f)' = IsToBeRemoved(f)
    BY <1>1 DEF IsToBeRemoved
  <2>3. (upload[f] = "committed" /\ refs[f] = "none") \/ ThreadOf[f] \in files
    BY <2>1 DEF CommitBy
  <2> QED
    BY <1>4, <2>1, <2>2, <2>3 DEF FilesInHand
<1>10. AwaitedIsInSources'
  <2> SUFFICES ASSUME NEW u \in Threads, u \notin deleted'
               PROVE  awaits'[u] <= source'[u]
    BY DEF AwaitedIsInSources
  <2>1. awaits[u] <= source[u]
    BY <1>1 DEF AwaitedIsInSources
  <2>2. CASE u = t
    BY <1>2, <2>1, <2>2 DEF CommitBy, Enqueue
  <2>3. CASE u # t
    <3>1. awaits'[u] = awaits[u] /\ source'[u] = source[u]
      BY <1>2, <1>3, <2>3 DEF CommitBy, Enqueue
    <3> QED
      BY <2>1, <3>1
  <2> QED
    BY <2>2, <2>3
<1>11. SettledInSummary'
  BY <1>1 DEF SettledInSummary, CommitBy
<1> QED
  BY <1>5, <1>6, <1>7, <1>8, <1>9, <1>10, <1>11

\* An upload brings a file that no commit knows yet.
LEMMA UploadKeeps ==
  ASSUME ReconcileInv, TypeOK', NEW f \in Files, Upload(f)
  PROVE  ReconcileInv'
<1> USE DEF ReconcileInv
<1>1. /\ UNCHANGED <<commits, row, source, sent, refs, jobs, deleted, awaits, settled,
                     drainer, listed, stage, snap, got, fileTodo, sweep, up>>
      /\ \A u : Idle(u)' = Idle(u)
  BY DEF Upload, tables, workers, drain, process, Idle
<1>2. \A u : SummaryComes(u)' = SummaryComes(u) /\ FilesCome(u)' = FilesCome(u)
  BY <1>1, SameJobs
<1>3. SummariesGrow' /\ AwaitedIsInSources' /\ SettledInSummary'
  BY <1>1 DEF SummariesGrow, AwaitedIsInSources, SettledInSummary
<1>4. DrainWorksOffJobs' /\ SummariesInHand'
  BY <1>1, <1>2 DEF DrainWorksOffJobs, SummariesInHand
<1>5. DrainersAreAwaiting'
  BY <1>1, <1>2 DEF DrainersAreAwaiting
<1>6. FilesInHand'
  <2> SUFFICES ASSUME NEW g \in disk', upload'[g] = "committed", refs'[g] = "none"
               PROVE  IsToBeRemoved(g)' \/ FilesCome(ThreadOf[g])'
    BY DEF FilesInHand
  <2>1. g \in disk /\ upload[g] = "committed"
    BY DEF Upload, TypeOK
  <2> QED
    BY <1>1, <1>2, <2>1 DEF FilesInHand, IsToBeRemoved
<1> QED
  BY <1>3, <1>4, <1>5, <1>6

\* What clients and workers commit keeps the invariant.
LEMMA CommitsKeep ==
  ASSUME ReconcileInv, TypeOK', Commit
  PROVE  ReconcileInv'
<1>1. TypeOK /\ TablesTyped
  BY TypeParts DEF ReconcileInv
<1>2. ASSUME NEW t \in Threads,
             \/ CommitSummary(t) \/ CommitTurn(t) \/ CommitMessage(t)
             \/ CommitArchive(t) \/ CommitRevert(t) \/ CommitDelete(t)
      PROVE  ReconcileInv'
  BY <1>1, <1>2, SummaryIsCommit, TurnIsCommit, MessageIsCommit, ArchiveIsCommit, RevertIsCommit,
     DeleteIsCommit, CommitKeeps
<1>3. ASSUME NEW f \in Files,
             CommitSend(f) \/ CommitQueue(f) \/ CommitDispatchQueued(f) \/ CommitUnqueue(f)
      PROVE  ReconcileInv'
  <2>1. ThreadOf[f] \in Threads
    BY ReconcileConstants
  <2>2. CommitBy(ThreadOf[f], {}, {})
    BY <1>1, <1>3, FileIsCommit
  <2> QED
    BY <2>1, <2>2, CommitKeeps
<1> QED
  BY <1>2, <1>3, UploadKeeps DEF Commit

-----------------------------------------------------------------------------
(* The drain *)

\* The steps of a drain that leave jobs, clients and commits alone.
DrainFrame ==
  UNCHANGED <<commits, source, refs, jobs, upload, deleted, awaits, settled, drainer, listed, up>>

\* What a step of the drain needs to show.
LEMMA DrainKeeps ==
  ASSUME ReconcileInv, TypeOK', DrainFrame, SummariesGrow', DrainWorksOffJobs',
         \A t \in Threads \ deleted : row'[t].summary >= row[t].summary,
         \A t \in Threads \ deleted : ~SummaryComes(t) =>
           /\ Idle(t)' => ~(row'[t].summary < source[t])
           /\ stage'[t] = "upsert" => ~(got'[t].source < source[t]),
         disk' \subseteq disk,
         \A f \in disk' : upload[f] = "committed" /\ refs[f] = "none" /\ IsToBeRemoved(f) =>
           IsToBeRemoved(f)'
  PROVE  ReconcileInv'
<1> USE DEF ReconcileInv, DrainFrame
<1>1. \A u : SummaryComes(u)' = SummaryComes(u) /\ FilesCome(u)' = FilesCome(u)
  BY SameJobs
<1>2. DrainersAreAwaiting'
  BY <1>1 DEF DrainersAreAwaiting
<1>3. SummariesInHand'
  BY <1>1 DEF SummariesInHand
<1>4. FilesInHand'
  <2> SUFFICES ASSUME NEW f \in disk', upload'[f] = "committed", refs'[f] = "none"
               PROVE  IsToBeRemoved(f)' \/ FilesCome(ThreadOf[f])'
    BY DEF FilesInHand
  <2> QED
    BY <1>1 DEF FilesInHand
<1>5. AwaitedIsInSources'
  BY DEF AwaitedIsInSources
<1>6. SettledInSummary'
  <2> SUFFICES ASSUME NEW t \in Threads \ deleted
               PROVE  settled[t] <= row'[t].summary
    BY DEF SettledInSummary
  <2>1. settled[t] <= row[t].summary /\ row'[t].summary >= row[t].summary
    BY DEF SettledInSummary
  <2>2. settled[t] \in Nat /\ row[t] \in Row /\ row'[t] \in Row
    BY DEF TypeOK
  <2> QED
    BY <2>1, <2>2 DEF Row
<1> QED
  BY <1>2, <1>3, <1>4, <1>5, <1>6

\* The summary of u: the steps of refreshShellSummary.
LEMMA RefreshKeeps ==
  ASSUME ReconcileInv, TypeOK', NEW u \in Threads, ReadRow(u) \/ ReadSources(u) \/ Upsert(u)
  PROVE  ReconcileInv'
<1> USE DEF ReconcileInv
<1>1. DrainFrame /\ UNCHANGED <<disk, fileTodo, sweep>>
  BY DEF DrainFrame, ReadRow, ReadSources, Upsert, tables, clients, workers, process
<1>2. /\ ~Idle(u) /\ sweep = NoSweep /\ drainer # Nobody
      /\ \A t \in Threads : t # u => stage'[t] = stage[t]
      /\ stage \in [Threads -> {"none", "row", "sources", "upsert"}]
  <2>1. ~Idle(u) /\ drainer # Nobody
    BY DEF ReadRow, ReadSources, Upsert, Idle
  <2>2. stage \in [Threads -> {"none", "row", "sources", "upsert"}]
    BY DEF TypeOK
  <2>3. \A t \in Threads : t # u => stage'[t] = stage[t]
    BY <2>2 DEF ReadRow, ReadSources, Upsert
  <2> QED
    BY <2>1, <2>2, <2>3 DEF DrainWorksOffJobs
<1>3. \A t \in Threads : /\ row[t] \in Row /\ row'[t] \in Row /\ snap[t] \in Row
                         /\ source[t] \in Nat /\ got[t].source \in Nat
                         /\ row[t].summary <= source[t] /\ source[t] <= commits
  BY DEF TypeOK, SummariesGrow
<1>4. \A t \in Threads : t # u => row'[t] = row[t] /\ snap'[t] = snap[t] /\ got'[t] = got[t]
  <2>1. row \in [Threads -> Row] /\ snap \in [Threads -> Row] /\ got \in [Threads -> [source : Nat, sent : Nat]]
    BY DEF TypeOK
  <2> QED
    BY <2>1 DEF ReadRow, ReadSources, Upsert, tables
<1>5. /\ u \notin deleted => ~Idle(u)' \/ Upsert(u)
      /\ u \notin deleted => row'[u].exists
      /\ row'[u].summary >= row[u].summary
      /\ row'[u].summary <= source[u]
      /\ stage'[u] \in {"sources", "upsert"} => snap'[u].exists
      /\ stage'[u] = "upsert" => row'[u].summary <= got'[u].source /\ got'[u].source = source[u]
      /\ Upsert(u) => row'[u].summary = got[u].source /\ stage[u] = "upsert" /\ Idle(u)'
  <2>1. CASE ReadRow(u)
    BY <1>2, <1>3, <2>1 DEF ReadRow, SummariesGrow, tables, Idle, Row, TypeOK, Upsert
  <2>2. CASE ReadSources(u)
    BY <1>2, <1>3, <2>2 DEF ReadSources, SummariesGrow, tables, Idle, Row, TypeOK, Upsert
  <2>3. CASE Upsert(u)
    <3>1. /\ row'[u] = [snap[u] EXCEPT !.summary = got[u].source, !.message = got[u].sent]
          /\ stage[u] = "upsert" /\ stage'[u] = "none"
      BY <2>3 DEF Upsert, TypeOK
    <3>2. snap[u].exists /\ row[u].summary <= got[u].source /\ got[u].source <= source[u]
      BY <3>1 DEF SummariesGrow
    <3>3. row'[u].summary = got[u].source /\ row'[u].exists
      BY <1>3, <3>1, <3>2 DEF Row
    <3> QED
      BY <1>3, <2>3, <3>1, <3>2, <3>3 DEF Row, Idle
  <2> QED
    BY <2>1, <2>2, <2>3
<1>6. SummariesGrow'
  <2> SUFFICES ASSUME NEW t \in Threads
               PROVE  /\ t \notin deleted => row'[t].exists
                      /\ row'[t].summary <= source[t] /\ source[t] <= commits
                      /\ stage'[t] \in {"sources", "upsert"} => snap'[t].exists
                      /\ stage'[t] = "upsert" => row'[t].summary <= got'[t].source /\ got'[t].source <= source[t]
    BY <1>1 DEF SummariesGrow, DrainFrame
  <2>1. CASE t = u
    BY <1>3, <1>5, <2>1
  <2>2. CASE t # u
    BY <1>2, <1>3, <1>4, <2>2 DEF SummariesGrow
  <2> QED
    BY <2>1, <2>2
<1>7. DrainWorksOffJobs'
  <2>1. \A t \in Threads : ~Idle(t)' => t \in ShellOf(listed)
    BY <1>2 DEF DrainWorksOffJobs, Idle
  <2> QED
    BY <1>1, <1>2, <2>1 DEF DrainWorksOffJobs, DrainFrame
<1>8. \A t \in Threads \ deleted : row'[t].summary >= row[t].summary
  BY <1>3, <1>4, <1>5 DEF Row
<1>9. ASSUME NEW t \in Threads \ deleted, ~SummaryComes(t)
      PROVE  /\ Idle(t)' => ~(row'[t].summary < source[t])
             /\ stage'[t] = "upsert" => ~(got'[t].source < source[t])
  <2>1. CASE t = u
    BY <1>3, <1>5, <1>9, <2>1 DEF SummariesInHand
  <2>2. CASE t # u
    BY <1>2, <1>4, <1>9, <2>2 DEF SummariesInHand, Idle
  <2> QED
    BY <2>1, <2>2
<1>10. \A f \in disk' : IsToBeRemoved(f) => IsToBeRemoved(f)'
  BY <1>1 DEF IsToBeRemoved
<1> QED
  BY <1>1, <1>6, <1>7, <1>8, <1>9, <1>10, DrainKeeps

\* The files of a thread: the steps of reconcileAttachments.
LEMMA SweepKeeps ==
  ASSUME ReconcileInv, TypeOK',
         \/ \E u \in Threads : ReadRefs(u)
         \/ ListDirectory \/ FilesDone \/ \E f \in Files : RemoveFile(f)
  PROVE  ReconcileInv'
<1> USE DEF ReconcileInv
<1>1. DrainFrame /\ UNCHANGED <<row, stage, snap, got>> /\ drainer # Nobody /\ disk' \subseteq disk
  BY DEF DrainFrame, ReadRefs, ListDirectory, FilesDone, RemoveFile, tables, clients, workers, process
<1>2. \A u : Idle(u)' = Idle(u)
  BY <1>1 DEF Idle
<1>3. sweep # NoSweep => sweep.thread \in fileTodo /\ \A t \in Threads : Idle(t)
  BY DEF DrainWorksOffJobs
<1>4. /\ fileTodo \subseteq Threads /\ disk \subseteq Files /\ Nobody \notin Threads
      /\ \A f \in Files : ThreadOf[f] \in Threads
      /\ sweep \in [thread : Threads \cup {Nobody}, step : {"idle", "list", "remove"},
                    files : SUBSET Files]
  BY ReconcileConstants DEF TypeOK
<1> DEFINE Post ==
         /\ fileTodo' \subseteq fileTodo
         /\ sweep' # NoSweep =>
              /\ sweep'.thread \in fileTodo' /\ sweep'.step # "idle"
              /\ \A t \in Threads : Idle(t)
         /\ \A f \in disk' : upload[f] = "committed" /\ refs[f] = "none" /\ IsToBeRemoved(f) =>
              IsToBeRemoved(f)'
<1>5. ASSUME NEW u \in Threads, ReadRefs(u) PROVE Post
  <2>1. /\ sweep'.thread = u /\ sweep'.step = "list" /\ fileTodo' = fileTodo /\ u \in fileTodo
        /\ \A f \in sweep'.files : refs[f] = "message"
        /\ \A t \in Threads : Idle(t)
    BY <1>5 DEF ReadRefs
  <2>2. ASSUME NEW f \in disk', refs[f] = "none", IsToBeRemoved(f) PROVE IsToBeRemoved(f)'
    BY <2>1, <2>2 DEF IsToBeRemoved
  <2> QED
    BY <2>1, <2>2
<1>6. ASSUME ListDirectory PROVE Post
  <2>1. /\ sweep.step = "list" /\ sweep'.step = "remove" /\ sweep'.thread = sweep.thread
        /\ sweep'.files = (disk \cap FilesOf({sweep.thread})) \ sweep.files
        /\ UNCHANGED <<fileTodo, disk>> /\ sweep # NoSweep
    BY <1>4, <1>6 DEF ListDirectory, NoSweep
  <2>2. ASSUME NEW f \in disk', IsToBeRemoved(f) PROVE IsToBeRemoved(f)'
    BY <1>4, <2>1, <2>2 DEF IsToBeRemoved, FilesOf
  <2> QED
    BY <1>3, <2>1, <2>2
<1>7. ASSUME NEW g \in Files, RemoveFile(g) PROVE Post
  <2>1. /\ sweep.step = "remove" /\ sweep'.step = "remove" /\ sweep'.thread = sweep.thread
        /\ sweep'.files = sweep.files \ {g} /\ fileTodo' = fileTodo
        /\ disk' = disk \ {g} /\ sweep # NoSweep
    BY <1>4, <1>7 DEF RemoveFile, NoSweep
  <2>2. ASSUME NEW f \in disk', IsToBeRemoved(f) PROVE IsToBeRemoved(f)'
    BY <2>1, <2>2 DEF IsToBeRemoved
  <2> QED
    BY <1>3, <2>1, <2>2
<1>8. ASSUME FilesDone PROVE Post
  <2>1. /\ sweep.step = "remove" /\ sweep.files = {} /\ fileTodo' = fileTodo \ {sweep.thread}
        /\ sweep' = NoSweep /\ disk' = disk
    BY <1>8 DEF FilesDone
  <2>2. ASSUME NEW f \in disk', IsToBeRemoved(f) PROVE IsToBeRemoved(f)'
    <3>1. ThreadOf[f] \in fileTodo /\ sweep.thread # ThreadOf[f]
      BY <2>1, <2>2 DEF IsToBeRemoved
    <3>2. ThreadOf[f] # Nobody
      BY <1>4, <3>1
    <3> QED
      BY <2>1, <3>1, <3>2 DEF IsToBeRemoved, NoSweep
  <2> QED
    BY <2>1, <2>2
<1>9. Post
  BY <1>5, <1>6, <1>7, <1>8
<1>10. DrainWorksOffJobs'
  BY <1>1, <1>2, <1>9 DEF DrainWorksOffJobs, DrainFrame
<1>11. SummariesGrow'
  BY <1>1 DEF SummariesGrow, DrainFrame
<1>12. \A t \in Threads \ deleted : row'[t].summary >= row[t].summary
  <2>1. \A t \in Threads : row[t] \in Row
    BY DEF TypeOK
  <2> QED
    BY <1>1, <2>1 DEF Row
<1>13. ASSUME NEW t \in Threads \ deleted, ~SummaryComes(t)
       PROVE  /\ Idle(t)' => ~(row'[t].summary < source[t])
              /\ stage'[t] = "upsert" => ~(got'[t].source < source[t])
  BY <1>1, <1>2, <1>13 DEF SummariesInHand
<1> QED
  BY <1>1, <1>9, <1>10, <1>11, <1>12, <1>13, DrainKeeps

\* Between drains every pending job is new.
LEMMA BetweenDrains ==
  ASSUME TypeOK', SummariesGrow', AwaitedIsInSources', SettledInSummary', WorkHasJob',
         drainer' = Nobody, listed' = {}, fileTodo' = {}, sweep' = NoSweep,
         \A t \in Threads : stage'[t] = "none"
  PROVE  ReconcileInv'
<1>1. DrainWorksOffJobs' /\ DrainersAreAwaiting'
  BY ReconcileConstants DEF DrainWorksOffJobs, DrainersAreAwaiting, Idle
<1>2. \A j \in jobs' : IsNew(j)'
  BY DEF IsNew
<1>3. SummariesInHand'
  BY <1>2 DEF SummariesInHand, WorkHasJob, BehindHasJob, Behind, SummaryComes, IsNew
<1>4. FilesInHand'
  BY <1>2 DEF FilesInHand, WorkHasJob, UnreferencedFileHasJob, FilesCome, IsNew
<1> QED
  BY <1>1, <1>3, <1>4 DEF ReconcileInv

\* The rows' part of the invariant when no refresh is under way any more.
LEMMA GrowStays ==
  ASSUME SummariesGrow, UNCHANGED <<row, source, commits, deleted>>,
         \A t \in Threads : stage'[t] \in {"none", "row"}
  PROVE  SummariesGrow'
BY DEF SummariesGrow

\* A drain starts: everything pending is listed.
LEMMA ListKeeps ==
  ASSUME ReconcileInv, TypeOK', NEW who \in Threads \cup {Startup}, drainer = Nobody, List(who),
         who \in Threads => up /\ awaits[who] > 0,
         who = Startup => ~up,
         UNCHANGED <<tables, disk, clients, workers, process>>
  PROVE  ReconcileInv'
<1> USE DEF ReconcileInv
<1>1. /\ UNCHANGED <<commits, row, source, sent, refs, jobs, upload, deleted, awaits, settled, up>>
      /\ UNCHANGED <<disk, snap, got, sweep>> /\ listed' = jobs /\ drainer' = who
      /\ fileTodo' = AttachmentsOf(jobs)
      /\ \A t \in Threads : stage'[t] = IF t \in ShellOf(jobs) THEN "row" ELSE "none"
  BY DEF List, tables, clients, workers, process
<1>2. \A u : ~SummaryComes(u)'
  BY <1>1, AllOrNone, JobNumbers DEF SummaryComes, IsNew, TypeOK
<1>3. SummariesGrow' /\ AwaitedIsInSources' /\ SettledInSummary'
  BY <1>1, GrowStays DEF AwaitedIsInSources, SettledInSummary
<1>4. fileTodo = {} /\ sweep = NoSweep
  BY DEF DrainWorksOffJobs
<1>5. DrainWorksOffJobs'
  BY <1>1, <1>4, ReconcileConstants DEF DrainWorksOffJobs, Idle
<1>6. DrainersAreAwaiting'
  BY <1>1, <1>2, ReconcileConstants DEF DrainersAreAwaiting
<1>7. SummariesInHand'
  <2> SUFFICES ASSUME NEW t \in Threads \ deleted, t \notin ShellOf(jobs)
               PROVE  ~(row[t].summary < source[t])
    BY <1>1 DEF SummariesInHand, Idle
  <2> QED
    BY InHand DEF ShellOf
<1>8. FilesInHand'
  <2> SUFFICES ASSUME NEW f \in disk, upload[f] = "committed", refs[f] = "none"
               PROVE  IsToBeRemoved(f)'
    BY <1>1 DEF FilesInHand
  <2>1. ThreadOf[f] \in AttachmentsOf(jobs) /\ ThreadOf[f] # Nobody
    BY InHand, ReconcileConstants DEF AttachmentsOf, TypeOK
  <2> QED
    BY <1>1, <1>4, <2>1 DEF IsToBeRemoved, NoSweep
<1> QED
  BY <1>3, <1>5, <1>6, <1>7, <1>8

\* A dispatch resolves: its commit is accounted for if the reconcile succeeded.
LEMMA AnswerKeeps ==
  ASSUME TypeOK, AwaitedIsInSources, SettledInSummary, UNCHANGED <<row, source, deleted>>,
         NEW t \in Threads, NEW ok, Answer(t, ok),
         ok /\ t \notin deleted => row[t].summary = source[t]
  PROVE  AwaitedIsInSources' /\ SettledInSummary'
<1>1. /\ awaits \in [Threads -> Nat] /\ settled \in [Threads -> Nat] /\ source \in [Threads -> Nat]
  BY DEF TypeOK
<1>2. AwaitedIsInSources'
  BY <1>1 DEF AwaitedIsInSources, Answer
<1>3. SettledInSummary'
  <2> SUFFICES ASSUME NEW u \in Threads \ deleted PROVE settled'[u] <= row[u].summary
    BY DEF SettledInSummary
  <2>1. CASE u = t /\ ok
    BY <1>1, <2>1 DEF Answer, AwaitedIsInSources
  <2>2. CASE ~(u = t /\ ok)
    BY <1>1, <2>2 DEF Answer, SettledInSummary
  <2> QED
    BY <2>1, <2>2
<1> QED
  BY <1>2, <1>3

\* A worker starts a drain, or finds nothing to reconcile.
LEMMA StartKeeps ==
  ASSUME ReconcileInv, TypeOK', NEW t \in Threads, StartDrain(t)
  PROVE  ReconcileInv'
<1>1. CASE jobs # {}
  BY <1>1, ListKeeps, ReconcileConstants DEF StartDrain
<1>2. CASE jobs = {}
  <2>1. /\ Answer(t, TRUE) /\ drainer = Nobody
        /\ UNCHANGED <<commits, row, source, sent, refs, jobs, deleted, disk, upload>>
        /\ UNCHANGED <<drainer, listed, stage, fileTodo, sweep>>
    BY <1>2 DEF StartDrain, drain, tables, clients
  <2>2. listed = {} /\ fileTodo = {} /\ sweep = NoSweep /\ \A u \in Threads : Idle(u)
    BY <2>1 DEF ReconcileInv, DrainWorksOffJobs, ShellOf
  <2>3. ~SummaryComes(t)
    BY <1>2 DEF SummaryComes
  <2>4. t \notin deleted => row[t].summary = source[t]
    BY <2>2, <2>3, DrainedIsCurrent
  <2>5. AwaitedIsInSources' /\ SettledInSummary'
    BY <2>1, <2>4, AnswerKeeps DEF ReconcileInv
  <2>6. SummariesGrow'
    BY <2>1, <2>2, GrowStays DEF ReconcileInv, Idle
  <2>7. WorkHasJob'
    BY <2>1, InHand DEF WorkHasJob, BehindHasJob, Behind, UnreferencedFileHasJob
  <2>8. /\ \A u \in Threads : stage'[u] = "none"
        /\ drainer' = Nobody /\ listed' = {} /\ fileTodo' = {} /\ sweep' = NoSweep
    BY <2>1, <2>2 DEF Idle
  <2> QED
    BY <2>5, <2>6, <2>7, <2>8, BetweenDrains
<1> QED
  BY <1>1, <1>2

\* A drain is over, on whose account ever.
LEMMA EndKeeps ==
  ASSUME ReconcileInv, TypeOK', NEW ok, EndDrain(ok), drainer # Nobody, jobs' \subseteq jobs,
         WorkHasJob',
         ok => \A t \in Threads : Idle(t),
         UNCHANGED <<commits, row, source, sent, refs, disk, upload, deleted>>
  PROVE  ReconcileInv'
<1>1. /\ drainer' = Nobody /\ listed' = {} /\ fileTodo' = {} /\ sweep' = NoSweep
      /\ \A t \in Threads : stage'[t] = "none"
  BY DEF EndDrain
<1>2. SummariesGrow'
  BY <1>1, GrowStays DEF ReconcileInv
<1>3. AwaitedIsInSources' /\ SettledInSummary'
  <2>1. CASE drainer = Startup
    BY <2>1 DEF EndDrain, workers, ReconcileInv, AwaitedIsInSources, SettledInSummary
  <2>2. CASE drainer # Startup
    <3>1. drainer \in Threads /\ Answer(drainer, ok) /\ ~SummaryComes(drainer)
      BY <2>2 DEF EndDrain, ReconcileInv, TypeOK, DrainersAreAwaiting
    <3>2. ok /\ drainer \notin deleted => row[drainer].summary = source[drainer]
      BY <3>1, DrainedIsCurrent
    <3> QED
      BY <3>1, <3>2, AnswerKeeps DEF ReconcileInv
  <2> QED
    BY <2>1, <2>2
<1> QED
  BY <1>1, <1>2, <1>3, BetweenDrains

\* A drain that worked everything off completes its jobs, and only them.
LEMMA CompleteKeeps ==
  ASSUME ReconcileInv, TypeOK', Complete
  PROVE  ReconcileInv'
<1>1. /\ jobs' = {j \in jobs : IsNew(j)} /\ EndDrain(TRUE) /\ drainer # Nobody
      /\ fileTodo = {} /\ \A t \in Threads : Idle(t)
      /\ UNCHANGED <<commits, row, source, sent, refs, disk, upload, deleted>>
  BY DEF Complete, CompleteThrough, IsNew
<1>2. \A t \in Threads \ deleted : row[t].summary < source[t] => SummaryComes(t)
  BY <1>1 DEF ReconcileInv, SummariesInHand
<1>3. \A f \in disk : upload[f] = "committed" /\ refs[f] = "none" => FilesCome(ThreadOf[f])
  BY <1>1 DEF ReconcileInv, FilesInHand, IsToBeRemoved
<1>4. WorkHasJob'
  BY <1>1, <1>2, <1>3 DEF WorkHasJob, BehindHasJob, Behind, UnreferencedFileHasJob,
                          SummaryComes, FilesCome
<1> QED
  BY <1>1, <1>4, EndKeeps

\* A failed drain leaves its jobs.
LEMMA FailKeeps ==
  ASSUME ReconcileInv, TypeOK', DrainFails
  PROVE  ReconcileInv'
<1>1. /\ EndDrain(FALSE) /\ drainer # Nobody /\ jobs' = jobs
      /\ UNCHANGED <<commits, row, source, sent, refs, disk, upload, deleted>>
  BY DEF DrainFails, tables
<1>2. WorkHasJob'
  BY <1>1, InHand DEF WorkHasJob, BehindHasJob, Behind, UnreferencedFileHasJob
<1> QED
  BY <1>1, <1>2, EndKeeps

\* A crash forgets the drain and the callers, not the jobs.
LEMMA CrashKeeps ==
  ASSUME ReconcileInv, TypeOK', Crash
  PROVE  ReconcileInv'
<1>1. /\ UNCHANGED <<commits, row, source, sent, refs, jobs, disk, deleted, settled>>
      /\ drainer' = Nobody /\ listed' = {} /\ fileTodo' = {} /\ sweep' = NoSweep
      /\ \A t \in Threads : stage'[t] = "none" /\ awaits'[t] = 0
      /\ \A f \in Files : upload'[f] = "committed" => upload[f] = "committed"
  BY DEF Crash, tables
<1>2. SummariesGrow'
  BY <1>1, GrowStays DEF ReconcileInv
<1>3. AwaitedIsInSources' /\ SettledInSummary'
  <2>1. \A t \in Threads : source[t] \in Nat
    BY DEF ReconcileInv, TypeOK
  <2> QED
    BY <1>1, <2>1 DEF ReconcileInv, AwaitedIsInSources, SettledInSummary
<1>4. WorkHasJob'
  <2>1. disk \subseteq Files
    BY DEF ReconcileInv, TypeOK
  <2> QED
    BY <1>1, <2>1, InHand DEF WorkHasJob, BehindHasJob, Behind, UnreferencedFileHasJob
<1> QED
  BY <1>1, <1>2, <1>3, <1>4, BetweenDrains

\* The process starts, at once or by way of a drain.
LEMMA BootstrapKeeps ==
  ASSUME ReconcileInv, TypeOK', Bootstrap
  PROVE  ReconcileInv'
<1>1. CASE jobs # {}
  BY <1>1, ListKeeps, ReconcileConstants DEF Bootstrap, process, clients
<1>2. CASE jobs = {}
  <2>1. /\ UNCHANGED <<commits, row, source, sent, refs, jobs, disk, upload, deleted, awaits, settled>>
        /\ UNCHANGED <<drainer, listed, stage, fileTodo, sweep>> /\ drainer = Nobody
    BY <1>2 DEF Bootstrap, tables, workers, drain
  <2>2. listed = {} /\ fileTodo = {} /\ sweep = NoSweep /\ \A u \in Threads : Idle(u)
    BY <2>1 DEF ReconcileInv, DrainWorksOffJobs, ShellOf
  <2>3. \A u \in Threads : stage'[u] = "none"
    BY <2>1, <2>2 DEF Idle
  <2>4. SummariesGrow' /\ AwaitedIsInSources' /\ SettledInSummary'
    BY <2>1, <2>3, GrowStays DEF ReconcileInv, AwaitedIsInSources, SettledInSummary
  <2>5. WorkHasJob'
    BY <2>1, InHand DEF WorkHasJob, BehindHasJob, Behind, UnreferencedFileHasJob
  <2> QED
    BY <2>1, <2>2, <2>3, <2>4, <2>5, BetweenDrains
<1> QED
  BY <1>1, <1>2

-----------------------------------------------------------------------------
(* The invariant and what follows from it *)

\* The invariant of the deferred work is inductive.
LEMMA ReconcileStep == ReconcileInv /\ [Next]_vars => ReconcileInv'
<1> SUFFICES ASSUME ReconcileInv, [Next]_vars PROVE ReconcileInv'
  OBVIOUS
<1>1. TypeOK'
  BY TypeStep DEF ReconcileInv
<1>2. ASSUME DrainStep PROVE ReconcileInv'
  BY <1>1, <1>2, RefreshKeeps, SweepKeeps, CompleteKeeps DEF DrainStep
<1>3. ASSUME UNCHANGED vars PROVE ReconcileInv'
  <2>1. /\ UNCHANGED <<commits, row, source, sent, refs, jobs, upload, deleted, awaits, settled,
                       drainer, listed, up>>
        /\ UNCHANGED <<disk, stage, snap, got, fileTodo, sweep>>
    BY <1>3 DEF vars, tables, clients, workers, drain, process
  <2>2. \A u : SummaryComes(u)' = SummaryComes(u) /\ FilesCome(u)' = FilesCome(u)
    BY <2>1, SameJobs
  <2>3. SummariesGrow' /\ DrainWorksOffJobs'
    BY <2>1 DEF ReconcileInv, SummariesGrow, DrainWorksOffJobs, Idle
  <2>4. DrainersAreAwaiting' /\ SummariesInHand'
    BY <2>1, <2>2 DEF ReconcileInv, DrainersAreAwaiting, SummariesInHand, Idle
  <2>5. FilesInHand'
    BY <2>1, <2>2 DEF ReconcileInv, FilesInHand, IsToBeRemoved
  <2>6. AwaitedIsInSources' /\ SettledInSummary'
    BY <2>1 DEF ReconcileInv, AwaitedIsInSources, SettledInSummary
  <2> QED
    BY <1>1, <2>3, <2>4, <2>5, <2>6 DEF ReconcileInv
<1> QED
  BY <1>1, <1>2, <1>3, CommitsKeep, StartKeeps, FailKeeps, CrashKeeps, BootstrapKeeps DEF Next

\* Deferred work is in the hands of a drain or of a later job in every
\* reachable state.
THEOREM ReconcileInvariance == Spec => []ReconcileInv
BY ReconcileInit, ReconcileStep, PTL DEF Spec

\* Every variable stays in its domain.
THEOREM TypeCorrect == Spec => []TypeOK
BY ReconcileInvariance, InvImplies, PTL

-----------------------------------------------------------------------------
(* What commits write themselves *)

\* While no drain has failed, a job names only threads whose worker awaits its
\* drain, and so cannot commit beside it: what a drain has read of a row and of
\* the messages is the last that was written, and only a revert, which has a
\* job, leaves the time of the last message to a drain.
RowsKept ==
  failures = 0 =>
    /\ up => \A j \in jobs : \A t \in j.shell : awaits[t] > 0
    /\ \A t \in Threads \ deleted :
         /\ row[t].turn = turned[t]
         /\ row[t].message # sent[t] => Behind(t)
         /\ stage[t] \in {"sources", "upsert"} => snap[t].turn = turned[t]
         /\ stage[t] = "upsert" => got[t].sent = sent[t]

\* The drain has nothing of a thread in hand whose worker can commit.
LEMMA FreeIsIdle ==
  ASSUME ReconcileInv, RowsKept, failures = 0, up, NEW t \in Threads, awaits[t] = 0
  PROVE  stage[t] = "none" /\ \A j \in jobs : t \notin j.shell
<1>1. \A j \in jobs : t \notin j.shell
  BY DEF RowsKept
<1>2. listed \subseteq jobs
  BY JobNumbers DEF ReconcileInv
<1> QED
  BY <1>1, <1>2 DEF ReconcileInv, DrainWorksOffJobs, ShellOf, Idle

\* A commit of t writes columns of its row, and the sources with them.
WrittenBy(t) ==
  /\ up /\ awaits[t] = 0 /\ deleted \subseteq deleted'
  /\ UNCHANGED <<stage, snap, got, up, failures>>
  /\ \/ UNCHANGED <<jobs, awaits>>
     \/ \E shell, files : shell \subseteq {t} /\ Enqueue(t, shell, files)
  /\ \A u \in Threads : u \notin deleted' =>
       /\ row'[u].summary = row[u].summary
       /\ u # t => /\ row'[u].turn = row[u].turn /\ row'[u].message = row[u].message
                   /\ UNCHANGED <<turned[u], sent[u], source[u]>>
  /\ t \notin deleted' =>
       /\ \/ row'[t].turn = row[t].turn /\ turned'[t] = turned[t]
          \/ row'[t].turn = turned'[t]
       /\ \/ row'[t].message = row[t].message /\ sent'[t] = sent[t] /\ source'[t] >= source[t]
          \/ row'[t].message = sent'[t]
          \/ source'[t] = commits + 1

LEMMA WritersKeep ==
  ASSUME ReconcileInv, RowsKept, TypeOK', NEW t \in Threads, WrittenBy(t)
  PROVE  RowsKept'
<1> SUFFICES ASSUME failures = 0 PROVE RowsKept'
  BY DEF RowsKept, WrittenBy
<1>1. up /\ stage[t] = "none" /\ \A j \in jobs : t \notin j.shell
  BY FreeIsIdle DEF WrittenBy
<1>2. \A j \in jobs' : \A u \in j.shell : awaits'[u] > 0
  <2>1. CASE UNCHANGED <<jobs, awaits>>
    BY <1>1, <2>1 DEF RowsKept
  <2>2. ASSUME NEW shell, NEW files, shell \subseteq {t}, Enqueue(t, shell, files)
        PROVE  \A j \in jobs' : \A u \in j.shell : awaits'[u] > 0
    <3>1. awaits' = [awaits EXCEPT ![t] = commits + 1] /\ commits \in Nat
          /\ awaits \in [Threads -> Nat]
      BY <2>2 DEF Enqueue, ReconcileInv, TypeOK
    <3>2. ASSUME NEW j \in jobs', NEW u \in j.shell PROVE (j \in jobs /\ u # t) \/ u = t
      BY <1>1, <2>2, <3>2 DEF Enqueue
    <3>3. \A j \in jobs : j.shell \subseteq Threads
      BY DEF ReconcileInv, TypeOK
    <3> QED
      BY <1>1, <3>1, <3>2, <3>3 DEF RowsKept
  <2> QED
    BY <2>1, <2>2 DEF WrittenBy
<1>3. ASSUME NEW u \in Threads, u \notin deleted'
      PROVE  /\ row'[u].turn = turned'[u]
             /\ row'[u].message # sent'[u] => row'[u].summary < source'[u]
             /\ stage'[u] \in {"sources", "upsert"} => snap'[u].turn = turned'[u]
             /\ stage'[u] = "upsert" => got'[u].sent = sent'[u]
  <2>1. /\ u \notin deleted /\ row'[u].summary = row[u].summary
        /\ row[u].summary <= source[u] /\ source[u] <= commits
    BY <1>3 DEF WrittenBy, ReconcileInv, SummariesGrow
  <2>2. /\ row[u].summary \in Nat /\ source[u] \in Nat /\ commits \in Nat /\ source'[u] \in Nat
        /\ row[u].turn = turned[u] /\ (row[u].message # sent[u] => row[u].summary < source[u])
    BY <2>1 DEF ReconcileInv, TypeOK, Row, RowsKept, Behind
  <2>3. CASE u = t
    <3>1. stage'[u] = "none"
      BY <1>1, <2>3 DEF WrittenBy
    <3> QED
      BY <1>3, <2>1, <2>2, <2>3, <3>1 DEF WrittenBy
  <2>4. CASE u # t
    BY <1>3, <2>1, <2>2, <2>4 DEF WrittenBy, RowsKept
  <2> QED
    BY <2>3, <2>4
<1> QED
  BY <1>2, <1>3 DEF RowsKept, Behind

\* The rows after the commits that write a column.
LEMMA Columns ==
  ASSUME TypeOK, NEW t \in Threads, row[t].exists
  PROVE  /\ Write(t, [row[t] EXCEPT !.meta = commits + 1, !.turn = commits + 1]) =>
              /\ row'[t].turn = commits + 1 /\ row'[t].message = row[t].message
              /\ \A u \in Threads : row'[u].summary = row[u].summary /\ (u # t => row'[u] = row[u])
         /\ Write(t, [row[t] EXCEPT !.meta = commits + 1, !.message = commits + 1]) =>
              /\ row'[t].message = commits + 1 /\ row'[t].turn = row[t].turn
              /\ \A u \in Threads : row'[u].summary = row[u].summary /\ (u # t => row'[u] = row[u])
<1>1. row \in [Threads -> Row] /\ row[t] \in Row
  BY DEF TypeOK
<1> DEFINE turn == [row[t] EXCEPT !.meta = commits + 1, !.turn = commits + 1]
           message == [row[t] EXCEPT !.meta = commits + 1, !.message = commits + 1]
<1>2. /\ turn.turn = commits + 1 /\ turn.message = row[t].message /\ turn.summary = row[t].summary
      /\ message.message = commits + 1 /\ message.turn = row[t].turn
      /\ message.summary = row[t].summary
  BY <1>1 DEF Row
<1> HIDE DEF turn, message
<1>3. ASSUME NEW r, r.summary = row[t].summary, Write(t, r)
      PROVE  /\ row'[t] = r
             /\ \A u \in Threads : row'[u].summary = row[u].summary /\ (u # t => row'[u] = row[u])
  BY <1>1, <1>3 DEF Write
<1> QED
  BY <1>2, <1>3 DEF turn, message

LEMMA TouchedColumns ==
  ASSUME TypeOK, NEW ts, Touch(ts)
  PROVE  \A u \in Threads : /\ row'[u].turn = row[u].turn /\ row'[u].message = row[u].message
                            /\ row'[u].summary = row[u].summary
<1> SUFFICES ASSUME NEW u \in Threads
             PROVE  /\ row'[u].turn = row[u].turn /\ row'[u].message = row[u].message
                    /\ row'[u].summary = row[u].summary
  OBVIOUS
<1>1. row[u] \in Row
  BY DEF TypeOK
<1>2. row'[u] = row[u] \/ row'[u] = [row[u] EXCEPT !.meta = commits + 1]
  BY DEF Touch
<1> QED
  BY <1>1, <1>2 DEF Row

\* Every commit is one of these.
LEMMA CommitsWrite ==
  ASSUME ReconcileInv, NEW t \in Threads,
         \/ CommitSummary(t) \/ CommitTurn(t) \/ CommitMessage(t)
         \/ CommitArchive(t) \/ CommitRevert(t) \/ CommitDelete(t)
         \/ \E f \in Files :
              /\ ThreadOf[f] = t
              /\ CommitSend(f) \/ CommitQueue(f) \/ CommitDispatchQueued(f) \/ CommitUnqueue(f)
  PROVE  WrittenBy(t)
<1>0. /\ TypeOK /\ (t \notin deleted => row[t].exists)
      /\ source \in [Threads -> Nat] /\ sent \in [Threads -> Nat] /\ turned \in [Threads -> Nat]
      /\ commits \in Nat /\ source[t] <= commits
  BY DEF ReconcileInv, SummariesGrow, TypeOK
<1>1. ASSUME CommitSummary(t) PROVE WrittenBy(t)
  BY <1>0, <1>1, TouchedColumns DEF CommitSummary, Free, WrittenBy, clients, drain, process
<1>2. ASSUME CommitTurn(t) PROVE WrittenBy(t)
  <2>1. CASE t \in deleted
    <3>1. \A u \in Threads : u \notin deleted => row'[u] = row[u]
      BY <1>2, <2>1 DEF CommitTurn, Write, ReconcileInv, TypeOK
    <3> QED
      BY <1>0, <1>2, <2>1, <3>1 DEF CommitTurn, Free, WrittenBy, clients, drain, process
  <2>2. CASE t \notin deleted
    BY <1>0, <1>2, <2>2, Columns DEF CommitTurn, Free, WrittenBy, clients, drain, process
  <2> QED
    BY <2>1, <2>2
<1>3. ASSUME SendMessage(t), Free(t), deleted' = deleted,
             UNCHANGED <<source, jobs, workers, drain, process>>
      PROVE  WrittenBy(t)
  <2>1. CASE t \in deleted
    <3>1. \A u \in Threads : u \notin deleted => row'[u] = row[u]
      BY <1>3, <2>1 DEF SendMessage, Write, ReconcileInv, TypeOK
    <3> QED
      BY <1>0, <1>3, <2>1, <3>1 DEF SendMessage, Free, WrittenBy, workers, drain, process
  <2>2. CASE t \notin deleted
    BY <1>0, <1>3, <2>2, Columns DEF SendMessage, Free, WrittenBy, workers, drain, process
  <2> QED
    BY <2>1, <2>2
<1>4. ASSUME Touch({t}) \/ Touch(Subtree[t]), Free(t), deleted' = deleted,
             UNCHANGED <<source, sent, jobs, workers, drain, process>>
      PROVE  WrittenBy(t)
  BY <1>0, <1>4, TouchedColumns DEF Free, WrittenBy, workers, drain, process
<1>5. ASSUME CommitRevert(t) PROVE WrittenBy(t)
  <2>1. CASE t \in deleted
    <3>1. \A u \in Threads : u \notin deleted => row'[u] = row[u]
      BY <1>5, <2>1 DEF CommitRevert, Write, ReconcileInv, TypeOK
    <3> QED
      BY <1>0, <1>5, <2>1, <3>1 DEF CommitRevert, Free, WrittenBy, clients, drain, process
  <2>2. CASE t \notin deleted
    BY <1>0, <1>5, <2>2, Columns DEF CommitRevert, Free, WrittenBy, clients, drain, process
  <2> QED
    BY <2>1, <2>2
<1>6. ASSUME CommitDelete(t) PROVE WrittenBy(t)
  <2>1. t \in deleted' /\ \A u \in Threads : u \notin deleted' => row'[u] = row[u]
    BY <1>6, ReconcileConstants DEF CommitDelete
  <2> QED
    BY <1>0, <1>6, <2>1 DEF CommitDelete, Free, WrittenBy, drain, process
<1>7. ASSUME CommitMessage(t) \/ CommitArchive(t) PROVE WrittenBy(t)
  BY <1>3, <1>4, <1>7 DEF CommitMessage, CommitArchive, clients
<1>8. ASSUME NEW f \in Files, ThreadOf[f] = t,
             CommitSend(f) \/ CommitQueue(f) \/ CommitDispatchQueued(f) \/ CommitUnqueue(f)
      PROVE  WrittenBy(t)
  BY <1>3, <1>4, <1>8 DEF CommitSend, CommitQueue, CommitDispatchQueued, CommitUnqueue, clients
<1> QED
  BY <1>1, <1>2, <1>5, <1>6, <1>7, <1>8

\* A refresh writes back what the last commit left.
LEMMA RefreshKeepsRows ==
  ASSUME ReconcileInv, RowsKept, TypeOK', NEW u \in Threads, ReadRow(u) \/ ReadSources(u) \/ Upsert(u)
  PROVE  RowsKept'
<1> SUFFICES ASSUME failures = 0 PROVE RowsKept'
  BY DEF RowsKept, ReadRow, ReadSources, Upsert, process
<1>1. UNCHANGED <<jobs, awaits, up, failures, deleted, source, sent, turned>>
  BY DEF ReadRow, ReadSources, Upsert, tables, clients, workers, process
<1>2. /\ row \in [Threads -> Row] /\ snap \in [Threads -> Row]
      /\ got \in [Threads -> [source : Nat, sent : Nat]]
      /\ stage \in [Threads -> {"none", "row", "sources", "upsert"}]
  BY DEF ReconcileInv, TypeOK
<1>3. \A t \in Threads : t # u => /\ row'[t] = row[t] /\ snap'[t] = snap[t] /\ got'[t] = got[t]
                                  /\ stage'[t] = stage[t]
  BY <1>2 DEF ReadRow, ReadSources, Upsert, tables
<1>4. ASSUME u \notin deleted
      PROVE  /\ row'[u].turn = turned[u]
             /\ row'[u].message # sent[u] => row'[u].summary < source[u]
             /\ stage'[u] \in {"sources", "upsert"} => snap'[u].turn = turned[u]
             /\ stage'[u] = "upsert" => got'[u].sent = sent[u]
  <2>1. CASE ReadRow(u)
    BY <1>2, <1>4, <2>1 DEF ReadRow, RowsKept, Behind, tables
  <2>2. CASE ReadSources(u)
    BY <1>2, <1>4, <2>2 DEF ReadSources, RowsKept, Behind, tables
  <2>3. CASE Upsert(u)
    <3>1. /\ row'[u] = [snap[u] EXCEPT !.summary = got[u].source, !.message = got[u].sent]
          /\ stage[u] = "upsert" /\ stage'[u] = "none"
      BY <1>2, <2>3 DEF Upsert
    <3>2. row'[u].turn = snap[u].turn /\ row'[u].message = got[u].sent
      BY <1>2, <3>1 DEF Row
    <3> QED
      BY <1>4, <3>1, <3>2 DEF RowsKept
  <2> QED
    BY <2>1, <2>2, <2>3
<1> QED
  BY <1>1, <1>3, <1>4 DEF RowsKept, Behind

\* No other step writes rows.
RowsStay == UNCHANGED <<row, source, sent, turned, deleted>>

\* Steps that leave the refreshes alone, or begin or drop them.
LEMMA OthersKeepRows ==
  ASSUME RowsKept, RowsStay, failures' = 0 => failures = 0,
         failures' = 0 /\ up' => \A j \in jobs' : \A t \in j.shell : awaits'[t] > 0,
         \/ UNCHANGED <<stage, snap, got>>
         \/ \A t \in Threads : stage'[t] \in {"none", "row"}
  PROVE  RowsKept'
BY DEF RowsKept, RowsStay, Behind

\* The end of a drain that completed its jobs.
LEMMA CompleteKeepsRows ==
  ASSUME ReconcileInv, RowsKept, Complete
  PROVE  RowsKept'
<1>1. /\ jobs' = {j \in jobs : IsNew(j)} /\ EndDrain(TRUE) /\ drainer # Nobody
      /\ failures' = failures /\ UNCHANGED <<row, source, sent, deleted>>
      /\ \A t \in Threads : stage'[t] = "none"
  BY DEF Complete, CompleteThrough, IsNew, EndDrain
<1>2. CASE drainer = Startup
  <2>1. listed = jobs /\ TypeOK /\ turned' = turned
    BY <1>1, <1>2 DEF ReconcileInv, DrainersAreAwaiting, EndDrain, workers
  <2>2. \A j \in jobs : ~IsNew(j)
    BY <2>1, JobNumbers DEF IsNew
  <2> QED
    BY <1>1, <2>1, <2>2, OthersKeepRows DEF RowsStay
<1>3. CASE drainer # Startup
  <2>1. /\ drainer \in Threads /\ up /\ up' = up /\ turned' = turned
        /\ awaits' = [awaits EXCEPT ![drainer] = 0] /\ ~SummaryComes(drainer)
        /\ awaits \in [Threads -> Nat] /\ \A j \in jobs : j.shell \subseteq Threads
    BY <1>1, <1>3 DEF ReconcileInv, DrainersAreAwaiting, EndDrain, Answer, TypeOK
  <2>2. ASSUME failures = 0, NEW j \in jobs', NEW t \in j.shell PROVE awaits'[t] > 0
    <3>1. j \in jobs /\ IsNew(j) /\ t \in Threads /\ t # drainer
      BY <1>1, <2>1, <2>2 DEF SummaryComes
    <3> QED
      BY <2>1, <2>2, <3>1 DEF RowsKept
  <2> QED
    BY <1>1, <2>1, <2>2, OthersKeepRows DEF RowsStay
<1> QED
  BY <1>2, <1>3

\* While no drain has failed no step loses what a commit wrote.
LEMMA RowsStep ==
  ASSUME ReconcileInv, RowsKept, TypeOK', [Next]_vars
  PROVE  RowsKept'
<1>1. ASSUME Commit PROVE RowsKept'
  <2>1. ASSUME NEW f \in Files, Upload(f) PROVE RowsKept'
    BY <2>1, OthersKeepRows DEF Upload, RowsKept, RowsStay, tables, workers, drain, process
  <2>2. ASSUME NEW f \in Files,
               CommitSend(f) \/ CommitQueue(f) \/ CommitDispatchQueued(f) \/ CommitUnqueue(f)
        PROVE  RowsKept'
    <3>1. ThreadOf[f] \in Threads
      BY ReconcileConstants
    <3> QED
      BY <2>2, <3>1, CommitsWrite, WritersKeep
  <2>3. ASSUME NEW t \in Threads,
               \/ CommitSummary(t) \/ CommitTurn(t) \/ CommitMessage(t)
               \/ CommitArchive(t) \/ CommitRevert(t) \/ CommitDelete(t)
        PROVE  RowsKept'
    BY <2>3, CommitsWrite, WritersKeep
  <2> QED
    BY <1>1, <2>1, <2>2, <2>3 DEF Commit
<1>2. ASSUME NEW t \in Threads, StartDrain(t) PROVE RowsKept'
  <2>1. /\ UNCHANGED <<row, source, sent, jobs, deleted, up, failures>>
        /\ \/ jobs = {} /\ UNCHANGED <<turned, stage, snap, got>>
           \/ /\ UNCHANGED <<awaits, turned>>
              /\ \A u \in Threads : stage'[u] \in {"none", "row"}
    BY <1>2 DEF StartDrain, Answer, List, tables, clients, workers, drain, process
  <2> QED
    BY <2>1, OthersKeepRows DEF RowsKept, RowsStay
<1>3. ASSUME NEW u \in Threads, ReadRefs(u) PROVE RowsKept'
  BY <1>3, OthersKeepRows DEF ReadRefs, RowsKept, RowsStay, tables, clients, workers, process
<1>4. ASSUME \/ ListDirectory \/ FilesDone \/ \E f \in Files : RemoveFile(f) PROVE RowsKept'
  BY <1>4, OthersKeepRows
     DEF ListDirectory, FilesDone, RemoveFile, RowsKept, RowsStay, tables, clients, workers, process
<1>5. ASSUME DrainStep PROVE RowsKept'
  BY <1>3, <1>4, <1>5, RefreshKeepsRows, CompleteKeepsRows DEF DrainStep
<1>6. ASSUME DrainFails PROVE RowsKept'
  BY <1>6 DEF DrainFails, RowsKept, ReconcileInv, TypeOK
<1>7. ASSUME Crash PROVE RowsKept'
  BY <1>7, OthersKeepRows DEF Crash, RowsStay, tables
<1>8. ASSUME Bootstrap PROVE RowsKept'
  <2>1. /\ UNCHANGED <<row, source, sent, turned, jobs, deleted, awaits, failures>>
        /\ \/ jobs = {} /\ UNCHANGED <<stage, snap, got>>
           \/ ~up' /\ \A u \in Threads : stage'[u] \in {"none", "row"}
    BY <1>8 DEF Bootstrap, List, tables, workers, drain
  <2> QED
    BY <2>1, OthersKeepRows DEF RowsStay
<1>9. ASSUME UNCHANGED vars PROVE RowsKept'
  BY <1>9 DEF vars, tables, clients, workers, drain, process, RowsKept, Behind
<1> QED
  BY <1>1, <1>2, <1>5, <1>6, <1>7, <1>8, <1>9 DEF Next

LEMMA RowsInit == Init => RowsKept
BY DEF Init, RowsKept, NoRow, Behind

\* As long as no drain has failed, none writes back an older turn or message.
THEOREM RowsAreKept == Spec => []RowsKept
<1>1. ReconcileInv /\ ReconcileInv' /\ RowsKept /\ [Next]_vars => RowsKept'
  BY RowsStep, InvImplies DEF ReconcileInv
<1> QED
  BY ReconcileInvariance, RowsInit, <1>1, PTL DEF Spec

-----------------------------------------------------------------------------
(* The properties *)

\* A row that lost what a commit wrote is behind its sources, unless a drain has
\* failed.
LEMMA OverwrittenIsBehind ==
  ASSUME RowsKept, failures = 0, NEW t \in Threads \ deleted, Overwritten(t)
  PROVE  Behind(t)
BY DEF RowsKept, Overwritten

LEMMA NothingForgottenHolds == ReconcileInv /\ RowsKept => NothingForgotten
BY InvImplies, OverwrittenIsBehind
   DEF WorkHasJob, BehindHasJob, NothingForgotten, StaleSummaryHasJob

\* However commits, failed drains and crashes fall, a stale summary and an
\* unreferenced file keep a pending job.
THEOREM DeferredIsRemembered == Spec => []NothingForgotten
BY ReconcileInvariance, RowsAreKept, NothingForgottenHolds, PTL

LEMMA AnsweredHolds == ReconcileInv /\ RowsKept => AnsweredIsReconciled
<1> SUFFICES ASSUME ReconcileInv, RowsKept PROVE AnsweredIsReconciled
  OBVIOUS
<1>1. ASSUME NEW t \in Threads \ deleted, up, failures = 0, awaits[t] = 0
      PROVE  ~Overwritten(t)
  BY <1>1, FreeIsIdle, OverwrittenIsBehind, InvImplies DEF WorkHasJob, BehindHasJob
<1> QED
  BY <1>1, InvImplies DEF AnsweredIsReconciled, SettledInSummary

\* A dispatch answered after a successful reconcile is in the summary for good,
\* and the last message and turn of a free worker's thread are in its row, unless
\* a drain has failed.
THEOREM AnswersAreReconciled == Spec => []AnsweredIsReconciled
BY ReconcileInvariance, RowsAreKept, AnsweredHolds, PTL

\* A start finds or leaves every summary current.
LEMMA StartStep ==
  ASSUME ReconcileInv, Next, ~up, up'
  PROVE  \A t \in Threads \ deleted : row'[t].summary = source'[t]
<1> SUFFICES ASSUME NEW t \in Threads \ deleted PROVE row'[t].summary = source'[t]
  OBVIOUS
<1>1. CASE Bootstrap
  <2>1. jobs = {} /\ drainer = Nobody /\ row' = row /\ source' = source
    BY <1>1 DEF Bootstrap, tables
  <2>2. \A u \in Threads : Idle(u)
    BY <2>1 DEF ReconcileInv, DrainWorksOffJobs, ShellOf
  <2> QED
    BY <2>1, <2>2, DrainedIsCurrent DEF SummaryComes
<1>2. CASE Complete \/ DrainFails
  <2>1. drainer = Startup /\ row' = row /\ source' = source /\ \A u \in Threads : Idle(u)
    BY <1>2 DEF Complete, DrainFails, EndDrain, tables, ReconcileInv, DrainWorksOffJobs
  <2>2. ~SummaryComes(t)
    BY <2>1, AllOrNone DEF ReconcileInv, DrainersAreAwaiting
  <2> QED
    BY <2>1, <2>2, DrainedIsCurrent
<1>3. Bootstrap \/ Complete \/ DrainFails
  <2>1. ~Commit
    BY DEF Commit, CommitSummary, CommitTurn, CommitMessage, CommitArchive, CommitRevert,
           CommitDelete, Upload, CommitSend, CommitQueue, CommitDispatchQueued, CommitUnqueue, Free
  <2>2. DrainStep => Complete
    BY DEF DrainStep, ReadRow, ReadSources, Upsert, ReadRefs, ListDirectory, RemoveFile, FilesDone,
           process
  <2> QED
    BY <2>1, <2>2 DEF Next, StartDrain, Crash
<1> QED
  BY <1>1, <1>2, <1>3

\* Nothing is deleted by a start, and what it leaves is not behind.
LEMMA StartKeepsRows ==
  ASSUME ReconcileInv, TypeOK', RowsKept', Next, ~up, up'
  PROVE  \A t \in Threads \ deleted :
           row'[t].summary = source'[t] /\ (failures' = 0 => ~Overwritten(t)')
<1> SUFFICES ASSUME NEW t \in Threads, t \notin deleted
             PROVE  row'[t].summary = source'[t] /\ (failures' = 0 => ~Overwritten(t)')
  OBVIOUS
<1>1. row'[t].summary = source'[t]
  BY StartStep
<1>2. deleted' = deleted
  BY DEF Next, Commit, CommitSummary, CommitTurn, CommitMessage, CommitArchive, CommitRevert,
         CommitDelete, Upload, CommitSend, CommitQueue, CommitDispatchQueued, CommitUnqueue, Free,
         StartDrain, DrainStep, ReadRow, ReadSources, Upsert, ReadRefs, ListDirectory, RemoveFile,
         FilesDone, Complete, DrainFails, Crash, Bootstrap, process, clients
<1>3. source'[t] \in Nat
  BY DEF TypeOK
<1> QED
  BY <1>1, <1>2, <1>3 DEF RowsKept, Overwritten, Behind

\* No start leaves a summary behind its sources, not even one whose cleanup of
\* files fails, nor a message or a turn lost, unless a drain has failed.
THEOREM StartsReconcile == Spec => StartReconciles
<1>1. ReconcileInv /\ ReconcileInv' /\ RowsKept' /\ [Next]_vars =>
        [~up /\ up' => \A t \in Threads \ deleted :
            /\ row'[t].summary = source'[t]
            /\ failures' = 0 => ~Overwritten(t)']_vars
  BY StartKeepsRows, InvImplies DEF ReconcileInv
<1> QED
  BY ReconcileInvariance, RowsAreKept, <1>1, PTL DEF Spec, StartReconciles
====
