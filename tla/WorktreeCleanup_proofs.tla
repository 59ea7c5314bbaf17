------------------------ MODULE WorktreeCleanup_proofs ------------------------
(***************************************************************************)
(* Proofs about WorktreeCleanup, for any threads and bounds: the variables *)
(* are typed, a path is reserved exactly while the removal of its job      *)
(* runs, and from the last look of the cleanup to its rename nobody comes  *)
(* to use the path but by a late move.                                     *)
(***************************************************************************)
EXTENDS WorktreeCleanup, SequenceTheorems, TLAPS

Sources == {"archive", "idle", "delete"}
Events == [kind : {"archived", "unarchived", "deleted", "purged"}, thread : Threads]

(* The operators on jobs keep their types, and neither begin nor end a removal. *)

LEMMA EnqueuedKeeps ==
  ASSUME NEW js \in [Threads -> Jobs], NEW t \in Threads, NEW source \in Sources,
         NEW mayReset \in BOOLEAN
  PROVE  /\ Enqueued(js, t, source, mayReset) \in [Threads -> Jobs]
         /\ \A u \in Threads : Enqueued(js, t, source, mayReset)[u].state = "removing"
                               <=> js[u].state = "removing"
<1> DEFINE waiting == [state |-> "waiting", source |-> source]
           sourced == [js[t] EXCEPT !.source = source]
<1>1. waiting \in Jobs /\ waiting.state # "removing"
  BY DEF Jobs, Sources
<1>2. js[t].state = "attention" => sourced \in Jobs /\ sourced.state = "attention"
  BY DEF Jobs, Sources, NoJob
<1>3. \/ Enqueued(js, t, source, mayReset) = js
      \/ /\ Enqueued(js, t, source, mayReset) = [js EXCEPT ![t] = waiting]
         /\ js[t].state # "removing"
      \/ /\ Enqueued(js, t, source, mayReset) = [js EXCEPT ![t] = sourced]
         /\ js[t].state = "attention"
  BY DEF Enqueued
<1> HIDE DEF waiting, sourced
<1> QED
  BY <1>1, <1>2, <1>3

LEMMA CancelledKeeps ==
  ASSUME NEW js \in [Threads -> Jobs], NEW S
  PROVE  /\ Cancelled(js, S) \in [Threads -> Jobs]
         /\ \A u \in Threads : Cancelled(js, S)[u].state = "removing"
                               <=> js[u].state = "removing"
<1>1. \A u \in Threads : js[u].state \in {"waiting", "attention"} =>
        /\ [js[u] EXCEPT !.state = "cancelled"] \in Jobs
        /\ [js[u] EXCEPT !.state = "cancelled"].state = "cancelled"
  BY DEF Jobs, NoJob
<1>2. \A u \in Threads :
        \/ Cancelled(js, S)[u] = js[u]
        \/ /\ Cancelled(js, S)[u] = [js[u] EXCEPT !.state = "cancelled"]
           /\ js[u].state \in {"waiting", "attention"}
  BY DEF Cancelled
<1>3. Cancelled(js, S) = [u \in Threads |-> Cancelled(js, S)[u]]
  BY DEF Cancelled
<1>4. \A u \in Threads : Cancelled(js, S)[u] \in Jobs
  BY <1>1, <1>2
<1> QED
  BY <1>1, <1>2, <1>3, <1>4

LEMMA IdleCancelledKeeps ==
  ASSUME NEW js \in [Threads -> Jobs], NEW t \in Threads
  PROVE  /\ IdleCancelled(js, t) \in [Threads -> Jobs]
         /\ \A u \in Threads : IdleCancelled(js, t)[u].state = "removing"
                               <=> js[u].state = "removing"
BY CancelledKeeps DEF IdleCancelled

LEMMA ArchiveFiledKeeps ==
  ASSUME TypeOK, NEW t \in Threads, NEW mayReset \in BOOLEAN
  PROVE  /\ ArchiveFiled(t, mayReset) \in [Threads -> Jobs]
         /\ \A u \in Threads : ArchiveFiled(t, mayReset)[u].state = "removing"
                               <=> job[u].state = "removing"
<1>1. job \in [Threads -> Jobs] /\ "archive" \in Sources
  BY DEF TypeOK, Sources
<1>2. /\ Enqueued(job, t, "archive", mayReset) \in [Threads -> Jobs]
      /\ \A u \in Threads : Enqueued(job, t, "archive", mayReset)[u].state = "removing"
                            <=> job[u].state = "removing"
  BY <1>1, EnqueuedKeeps
<1> QED
  BY <1>1, <1>2 DEF ArchiveFiled

\* A job that has a source moves to any state.
LEMMA MovedKeeps ==
  ASSUME NEW js \in [Threads -> Jobs], NEW t, t \in Threads => js[t].state # "none",
         NEW state \in {"waiting", "removing", "attention", "completed", "cancelled"}
  PROVE  /\ Moved(js, t, state) \in [Threads -> Jobs]
         /\ \A u \in Threads : Moved(js, t, state)[u].state = IF u = t THEN state ELSE js[u].state
<1>1. CASE t \in Threads
  <2>1. [js[t] EXCEPT !.state = state] \in Jobs /\ [js[t] EXCEPT !.state = state].state = state
    BY <1>1 DEF Jobs, NoJob
  <2>2. Moved(js, t, state) = [js EXCEPT ![t] = [js[t] EXCEPT !.state = state]]
    BY <1>1 DEF Moved
  <2> QED
    BY <1>1, <2>1, <2>2
<1>2. CASE t \notin Threads
  BY <1>2 DEF Moved
<1> QED
  BY <1>1, <1>2

\* A removal that ends gives its reservation back.
LEMMA SettleKeeps ==
  ASSUME TypeOK, ReservationsMatchJobs, NEW t \in Threads, job[t].state = "removing",
         NEW state \in {"waiting", "attention", "completed", "cancelled"}, Settle(t, state)
  PROVE  /\ job' \in [Threads -> Jobs] /\ reserved' = NoThread
         /\ ReservationsMatchJobs'
<1>1. reserved = t
  BY DEF ReservationsMatchJobs
<1>2. /\ job' \in [Threads -> Jobs]
      /\ \A u \in Threads : job'[u].state = IF u = t THEN state ELSE job[u].state
  <2>1. job \in [Threads -> Jobs] /\ job' = Moved(job, t, state)
    BY DEF Settle, TypeOK
  <2> QED
    BY <2>1, MovedKeeps
<1>3. reserved' = NoThread
  BY <1>1 DEF Settle, Unreserved
<1> QED
  BY <1>1, <1>2, <1>3, WorktreeConstants DEF ReservationsMatchJobs

\* What a thread's subtree is told is a sequence of events.
LEMMA ToldIsEvents ==
  ASSUME NEW S \in SUBSET Threads,
         NEW kind \in [S -> {"archived", "unarchived", "deleted", "purged"}]
  PROVE  Told(kind, S) \in Seq(Events)
<1> DEFINE told(t) == [kind |-> kind[t], thread |-> t]
           rest == S \ {Source}
           tail == IF rest = {} THEN <<>> ELSE <<told(CHOOSE t \in rest : TRUE)>>
<1>1. \A t \in S : told(t) \in Events
  BY DEF Events
<1>2. rest # {} => (CHOOSE t \in rest : TRUE) \in S
  OBVIOUS
<1>3. tail \in Seq(Events)
  <2>1. CASE rest # {}
    <3>1. told(CHOOSE t \in rest : TRUE) \in Events
      BY <1>1, <1>2, <2>1
    <3> HIDE DEF told, rest
    <3> QED
      BY <2>1, <3>1
  <2>2. CASE rest = {}
    BY <2>2
  <2> QED
    BY <2>1, <2>2
<1>4. (IF Source \in S THEN <<told(Source)>> ELSE <<>>) \in Seq(Events)
  BY <1>1
<1>5. (IF Source \in S THEN <<told(Source)>> ELSE <<>>) \o tail \in Seq(Events)
  BY <1>3, <1>4, ConcatProperties
<1> QED
  BY <1>5 DEF Told

-----------------------------------------------------------------------------
(* Jobs and reservations.                                                   *)

JobsHold ==
  /\ job \in [Threads -> Jobs] /\ reserved \in Threads \cup {NoThread}
  /\ ReservationsMatchJobs

\* A step that neither begins nor ends a removal keeps them in accord.
LEMMA AccordKept ==
  ASSUME CleanupInv, job' \in [Threads -> Jobs], reserved' = reserved,
         \A u \in Threads : job'[u].state = "removing" <=> job[u].state = "removing"
  PROVE  JobsHold'
BY DEF CleanupInv, TypeOK, JobsHold, ReservationsMatchJobs

LEMMA JobsUntouched ==
  ASSUME CleanupInv, UNCHANGED jobs
  PROVE  JobsHold'
BY DEF jobs, CleanupInv, TypeOK, JobsHold, ReservationsMatchJobs

\* The steps of commands.
LEMMA CommandJobs ==
  ASSUME CleanupInv, NEW t \in Threads,
         Command(t) \/ (\E op \in Ops : Submit(t, op)) \/ Turn(t) \/ Fork(t)
  PROVE  JobsHold'
<1> job \in [Threads -> Jobs]
  BY DEF CleanupInv, TypeOK
<1>1. CASE AdmitStart(t)
  <2>1. job' = IdleCancelled(job, t) /\ reserved' = reserved
    BY <1>1 DEF AdmitStart
  <2> QED
    BY <2>1, IdleCancelledKeeps, AccordKept
<1>2. CASE CommitUnarchive(t)
  <2>1. reserved' = reserved /\ \/ job' = job \/ \E S \in SUBSET Threads : job' = Cancelled(job, S)
    BY <1>2 DEF CommitUnarchive
  <2> QED
    BY <2>1, CancelledKeeps, AccordKept
<1>3. CASE CommitDelete(t)
  <2> DEFINE S == {u \in Subtree(t) : status[u] \in {"live", "archived", "deleted"}}
             consent == {u \in S : cmd[t].op = "purge" /\ bound[u] /\ ~ActiveOwner(u)}
             filed(u) == Enqueued(job, u, "delete", TRUE)[u]
  <2>1. job' = [u \in Threads |-> IF u \in consent THEN filed(u) ELSE job[u]]
    BY <1>3 DEF CommitDelete
  <2>2. reserved' = reserved
    BY <1>3 DEF CommitDelete
  <2>3. "delete" \in Sources
    BY DEF Sources
  <2>4. \A u \in Threads : filed(u) \in Jobs /\ (filed(u).state = "removing" <=> job[u].state = "removing")
    BY <2>3, EnqueuedKeeps
  <2> HIDE DEF consent, filed
  <2>5. job' \in [Threads -> Jobs]
    BY <2>1, <2>4
  <2>6. \A u \in Threads : job'[u].state = "removing" <=> job[u].state = "removing"
    BY <2>1, <2>4
  <2> QED
    BY <2>2, <2>5, <2>6, AccordKept
<1>4. CASE TakeLock(t) \/ RestoreForStart(t) \/ Claim(t) \/ CheckPending(t) \/ CommitStart(t)
           \/ CommitMove(t) \/ CommitArchive(t) \/ (\E op \in Ops : Submit(t, op)) \/ Fork(t)
  <2>1. UNCHANGED jobs
    BY <1>4 DEF TakeLock, RestoreForStart, Claim, CheckPending, CommitStart, CommitMove,
                CommitArchive, Submit, Fork
  <2> QED
    BY <2>1, JobsUntouched
<1>5. CASE Turn(t)
  <2>1. UNCHANGED jobs
    BY <1>5 DEF Turn, SendTurn, RunTurn, EndTurn
  <2> QED
    BY <2>1, JobsUntouched
<1> QED
  BY <1>1, <1>2, <1>3, <1>4, <1>5 DEF Command

\* What fills the queue of the worker, and the lifecycle events.
LEMMA ReactorJobs ==
  ASSUME CleanupInv,
         \/ \E t \in Threads : DueSweep(t) \/ Retry(t) \/ Keep(t) \/ DiscoverIdle(t) \/ DiscoverArchived(t)
         \/ FileIdle \/ Lifecycle \/ Crash \/ BootPrune \/ UNCHANGED vars
  PROVE  JobsHold'
<1> job \in [Threads -> Jobs] /\ candidate \in Threads \cup {NoThread} /\ TypeOK
  BY DEF CleanupInv, TypeOK
<1>1. ASSUME NEW t \in Threads, Retry(t)
      PROVE  JobsHold'
  <2>1. job' = Moved(job, t, "waiting") /\ reserved' = reserved /\ job[t].state = "attention"
    BY <1>1 DEF Retry
  <2>2. /\ Moved(job, t, "waiting") \in [Threads -> Jobs]
        /\ \A u \in Threads : Moved(job, t, "waiting")[u].state = IF u = t THEN "waiting" ELSE job[u].state
    BY <2>1, MovedKeeps
  <2> QED
    BY <2>1, <2>2, AccordKept
<1>2. ASSUME NEW t \in Threads, Keep(t)
      PROVE  JobsHold'
  <2>1. job' = Cancelled(job, {t}) /\ reserved' = reserved
    BY <1>2 DEF Keep
  <2> QED
    BY <2>1, CancelledKeeps, AccordKept
<1>3. ASSUME NEW t \in Threads, DiscoverArchived(t)
      PROVE  JobsHold'
  <2>1. job' = ArchiveFiled(t, FALSE) /\ reserved' = reserved
    BY <1>3 DEF DiscoverArchived
  <2> QED
    BY <2>1, ArchiveFiledKeeps, AccordKept
<1>4. CASE FileIdle
  <2>1. job' = Enqueued(job, candidate, "idle", TRUE) /\ reserved' = reserved /\ candidate # NoThread
    BY <1>4 DEF FileIdle
  <2>2. "idle" \in Sources
    BY DEF Sources
  <2> QED
    BY <2>1, <2>2, EnqueuedKeeps, AccordKept
<1>5. CASE HandleArchived
  <2>1. events # <<>> /\ Head(events) \in Events
    BY <1>5, HeadTailProperties DEF HandleArchived, Ready, CleanupInv, TypeOK, Events
  <2>2. Head(events).thread \in Threads
    BY <2>1 DEF Events
  <2>3. job' = ArchiveFiled(Head(events).thread, TRUE) /\ reserved' = reserved
    BY <1>5 DEF HandleArchived
  <2> QED
    BY <2>2, <2>3, ArchiveFiledKeeps, AccordKept
<1>6. CASE HandleUnarchived
  <2>1. PICK S : job' = Cancelled(job, S)
    BY <1>6 DEF HandleUnarchived
  <2>2. reserved' = reserved
    BY <1>6 DEF HandleUnarchived
  <2> QED
    BY <2>1, <2>2, CancelledKeeps, AccordKept
<1>7. ASSUME \/ \E t \in Threads : DueSweep(t) \/ DiscoverIdle(t)
             \/ RestoreUnarchived \/ Unbind \/ HandleDeleted \/ Crash \/ BootPrune \/ UNCHANGED vars
      PROVE  JobsHold'
  <2>1. UNCHANGED jobs
    BY <1>7 DEF DueSweep, DiscoverIdle, RestoreUnarchived, Unbind, HandleDeleted, Crash,
                BootPrune, vars, jobs
  <2> QED
    BY <2>1, JobsUntouched
<1> QED
  BY <1>1, <1>2, <1>3, <1>4, <1>5, <1>6, <1>7 DEF Lifecycle

\* The cleanup worker.
LEMMA WorkerJobs ==
  ASSUME CleanupInv, Cleanup \/ StepFails
  PROVE  JobsHold'
<1> job \in [Threads -> Jobs] /\ TypeOK /\ ReservationsMatchJobs /\ WorkerHoldsPath
  BY DEF CleanupInv, TypeOK
<1>0. ASSUME step \in {"teardown", "preflight", "clean", "detach", "prune"}
      PROVE  subject \in Threads /\ job[subject].state = "removing"
  BY <1>0 DEF WorkerHoldsPath, ReservationsMatchJobs
<1>1. ASSUME NEW t \in Threads, Reconcile(t)
      PROVE  JobsHold'
  <2>1. CASE UNCHANGED jobs
    BY <2>1, JobsUntouched
  <2>2. ASSUME NEW state, DoneAt(t, state), job[t].state # "waiting", state = job[t].state
        PROVE  JobsHold'
    <3>1. job' = job /\ reserved' = reserved
      BY <2>2 DEF DoneAt, Moved, Jobs, NoJob
    <3> QED
      BY <3>1, AccordKept
  <2>3. ASSUME NEW state \in {"attention", "cancelled", "completed"}, DoneAt(t, state),
               job[t].state = "waiting"
        PROVE  JobsHold'
    <3>1. job' = Moved(job, t, state) /\ reserved' = reserved
      BY <2>3 DEF DoneAt
    <3>2. /\ Moved(job, t, state) \in [Threads -> Jobs]
          /\ \A u \in Threads : Moved(job, t, state)[u].state = IF u = t THEN state ELSE job[u].state
      BY <2>3, MovedKeeps
    <3> QED
      BY <2>3, <3>1, <3>2, AccordKept
  <2> QED
    BY <1>1, <2>1, <2>2, <2>3 DEF Reconcile
<1>2. CASE Reserve
  <2>1. reserved' = reserved /\ (job' = job \/ job' = Cancelled(job, {subject}))
    BY <1>2 DEF Reserve, jobs
  <2> QED
    BY <2>1, CancelledKeeps, AccordKept
<1>3. CASE TryReserve
  <2>1. subject \in Threads
    BY <1>3 DEF TryReserve, WorkerHoldsPath
  <2>2. CASE UNCHANGED jobs
    BY <2>2, JobsUntouched
  <2>3. CASE /\ job[subject].state = "waiting" /\ reserved \in {NoThread, subject}
             /\ job' = Moved(job, subject, "removing") /\ reserved' = subject
    <3>1. /\ job' \in [Threads -> Jobs]
          /\ \A u \in Threads : job'[u].state = IF u = subject THEN "removing" ELSE job[u].state
      BY <2>1, <2>3, MovedKeeps
    <3>2. \A u \in Threads : job[u].state # "removing"
      BY <2>3, WorktreeConstants DEF ReservationsMatchJobs
    <3> QED
      BY <2>1, <2>3, <3>1, <3>2 DEF JobsHold, ReservationsMatchJobs
  <2> QED
    BY <1>3, <2>2, <2>3 DEF TryReserve
<1>4. ASSUME step \in {"teardown", "preflight", "clean", "detach", "prune"},
             NEW state \in {"waiting", "attention", "completed", "cancelled"}, Settle(subject, state)
      PROVE  JobsHold'
  BY <1>0, <1>4, SettleKeeps DEF JobsHold
<1>5. CASE Preflight
  BY <1>4, <1>5, JobsUntouched DEF Preflight
<1>6. CASE StepFails
  BY <1>4, <1>6 DEF StepFails, Failed
<1>7. CASE CheckClean
  BY <1>4, <1>7, JobsUntouched DEF CheckClean, Failed
<1>8. CASE Prune
  BY <1>4, <1>8 DEF Prune
<1>9. CASE Teardown \/ Detach \/ SettleOwner
  <2>1. UNCHANGED jobs
    BY <1>9 DEF Teardown, Detach, SettleOwner
  <2> QED
    BY <2>1, JobsUntouched
<1>10. CASE Recover
  <2> DEFINE over == IF checkout = "absent" THEN "completed" ELSE "waiting"
  <2>1. \A u \in Threads : job[u].state = "removing" =>
          [job[u] EXCEPT !.state = over] \in Jobs /\ [job[u] EXCEPT !.state = over].state = over
    BY DEF Jobs, NoJob
  <2>2. job' \in [Threads -> Jobs] /\ \A u \in Threads : job'[u].state # "removing"
    BY <1>10, <2>1 DEF Recover
  <2>3. reserved' = NoThread
    BY <1>10 DEF Recover, ReservationsMatchJobs, TypeOK
  <2> QED
    BY <2>2, <2>3, WorktreeConstants DEF JobsHold, ReservationsMatchJobs
<1> QED
  BY <1>1, <1>2, <1>3, <1>5, <1>6, <1>7, <1>8, <1>9, <1>10 DEF Cleanup

-----------------------------------------------------------------------------
(* Types.                                                                   *)

\* The command of a thread is answered, or goes on.
LEMMA AnswerTyped ==
  ASSUME cmd \in [Threads -> Commands], NEW t \in Threads, cmd' = [cmd EXCEPT ![t] = NoCmd]
  PROVE  cmd' \in [Threads -> Commands]
<1>1. NoCmd \in Commands
  BY DEF Commands
<1> QED
  BY <1>1

LEMMA AdvanceTyped ==
  ASSUME cmd \in [Threads -> Commands], NEW t \in Threads, cmd[t].at # "none",
         NEW at \in {"lock", "admit", "restore", "claim", "check", "commit"},
         cmd' = [cmd EXCEPT ![t].at = at]
  PROVE  cmd' \in [Threads -> Commands]
<1>1. [cmd[t] EXCEPT !.at = at] \in Commands
  BY DEF Commands, NoCmd
<1>2. cmd' = [cmd EXCEPT ![t] = [cmd[t] EXCEPT !.at = at]]
  OBVIOUS
<1> QED
  BY <1>1, <1>2

LEMMA CommandTypes ==
  ASSUME CleanupInv, JobsHold', NEW t \in Threads, Command(t)
  PROVE  TypeOK'
<1> USE DEF CleanupInv, TypeOK, JobsHold, rows, locks, jobs, disk, worker, reactor, bounds
<1> HIDE DEF TypeOK
<1> cmd \in [Threads -> Commands] /\ TypeOK
  BY DEF TypeOK
<1>0. UNCHANGED <<worker, forks, unarchiving, candidate, manual, bounds>>
  BY DEF Command, TakeLock, AdmitStart, RestoreForStart, Claim, CheckPending, CommitStart, CommitMove,
         CommitArchive, CommitUnarchive, CommitDelete
<1>1. cmd' \in [Threads -> Commands]
  <2>1. CASE TakeLock(t)
    <3>1. cmd[t].at # "none" /\ \E at \in {"admit", "claim", "commit"} : cmd' = [cmd EXCEPT ![t].at = at]
      BY <2>1 DEF TakeLock
    <3> QED
      BY <3>1, AdvanceTyped
  <2>2. CASE AdmitStart(t) \/ RestoreForStart(t) \/ Claim(t) \/ CheckPending(t)
    <3>1. cmd[t].at # "none"
      BY <2>2 DEF AdmitStart, RestoreForStart, Claim, CheckPending
    <3>2. \/ Answer(t)
          \/ \E at \in {"claim", "restore", "check", "commit"} : Advance(t, at)
      BY <2>2 DEF AdmitStart, RestoreForStart, Claim, CheckPending
    <3> QED
      BY <3>1, <3>2, AdvanceTyped, AnswerTyped DEF Answer, Advance
  <2>3. CASE CommitStart(t) \/ CommitMove(t) \/ CommitArchive(t) \/ CommitUnarchive(t) \/ CommitDelete(t)
    <3>1. Answer(t)
      BY <2>3 DEF CommitStart, CommitMove, CommitArchive, CommitUnarchive, CommitDelete
    <3> QED
      BY <3>1, AnswerTyped DEF Answer
  <2> QED
    BY <2>1, <2>2, <2>3 DEF Command
<1> USE DEF TypeOK
<1>2. /\ worktreeLock' \in Threads \cup {NoThread, Worker}
      /\ checkoutLock' \in Threads \cup {NoThread} /\ rootLock' \in {NoThread, Worker}
  BY DEF Command, TakeLock, AdmitStart, RestoreForStart, Claim, CheckPending, CommitStart, CommitMove,
         CommitArchive, CommitUnarchive, CommitDelete, Answer, Advance
<1>3. /\ turn' \in [Threads -> {"idle", "pending", "sending", "running"}]
      /\ bound' \in [Threads -> BOOLEAN] /\ late' \subseteq Threads
  BY DEF Command, TakeLock, AdmitStart, RestoreForStart, Claim, CheckPending, CommitStart, CommitMove,
         CommitArchive, CommitUnarchive, CommitDelete
<1>4. /\ checkout' \in {"present", "unlinked", "absent"} /\ authors' \subseteq Threads
      /\ owner' \in Threads \cup {NoThread}
  BY DEF Command, TakeLock, AdmitStart, RestoreForStart, Claim, CheckPending, CommitStart, CommitMove,
         CommitArchive, CommitUnarchive, CommitDelete, Compensated
<1>5. /\ status' \in [Threads -> {"absent", "live", "archived", "deleted", "gone"}]
      /\ events' \in Seq(Events)
  <2> events \in Seq(Events)
    BY DEF Events
  <2>0. Subtree(t) \in SUBSET Threads
    BY WorktreeConstants DEF Subtree
  <2>1. CASE CommitArchive(t)
    <3> DEFINE S == IF Live(t) THEN {u \in Subtree(t) : Live(u)} ELSE {}
    <3>1. S \in SUBSET Threads
      BY <2>0
    <3>2. [u \in S |-> "archived"] \in [S -> {"archived", "unarchived", "deleted", "purged"}]
      OBVIOUS
    <3>3. Told([u \in S |-> "archived"], S) \in Seq(Events)
      BY <3>1, <3>2, ToldIsEvents
    <3>4. /\ events' = events \o Told([u \in S |-> "archived"], S)
          /\ status' = [u \in Threads |-> IF u \in S THEN "archived" ELSE status[u]]
      BY <2>1 DEF CommitArchive
    <3> HIDE DEF S
    <3> QED
      BY <3>3, <3>4, ConcatProperties
  <2>2. CASE CommitDelete(t)
    <3> DEFINE S == {u \in Subtree(t) : status[u] \in {"live", "archived", "deleted"}}
               consent == {u \in S : cmd[t].op = "purge" /\ bound[u] /\ ~ActiveOwner(u)}
               kind == [u \in S |-> IF u \in consent THEN "purged" ELSE "deleted"]
    <3>1. S \in SUBSET Threads
      BY <2>0
    <3>2. kind \in [S -> {"archived", "unarchived", "deleted", "purged"}]
      OBVIOUS
    <3>3. Told(kind, S) \in Seq(Events)
      BY <3>1, <3>2, ToldIsEvents
    <3>4. /\ events' = events \o Told(kind, S)
          /\ status' = [u \in Threads |-> IF u \in S THEN "deleted" ELSE status[u]]
      BY <2>2 DEF CommitDelete
    <3> HIDE DEF S, kind
    <3> QED
      BY <3>3, <3>4, ConcatProperties
  <2>3. CASE CommitUnarchive(t)
    <3>1. [kind |-> "unarchived", thread |-> t] \in Events
      BY DEF Events
    <3>2. events' = events \/ events' = Append(events, [kind |-> "unarchived", thread |-> t])
      BY <2>3 DEF CommitUnarchive
    <3> HIDE DEF TypeOK, CleanupInv
    <3>3. Append(events, [kind |-> "unarchived", thread |-> t]) \in Seq(Events)
      BY <3>1, AppendProperties
    <3>4. events' \in Seq(Events)
      BY <3>2, <3>3
    <3>5. status' = status \/ status' = [status EXCEPT ![t] = "live"]
      BY <2>3 DEF CommitUnarchive
    <3> QED
      BY <3>4, <3>5 DEF TypeOK
  <2>4. CASE TakeLock(t) \/ AdmitStart(t) \/ RestoreForStart(t) \/ Claim(t) \/ CheckPending(t)
             \/ CommitStart(t) \/ CommitMove(t)
    BY <2>4 DEF TakeLock, AdmitStart, RestoreForStart, Claim, CheckPending, CommitStart, CommitMove
  <2> QED
    BY <2>1, <2>2, <2>3, <2>4 DEF Command
<1> QED
  BY <1>0, <1>1, <1>2, <1>3, <1>4, <1>5 DEF Events

LEMMA ClientTypes ==
  ASSUME CleanupInv, JobsHold', NEW t \in Threads,
         (\E op \in Ops : Submit(t, op)) \/ Turn(t) \/ Fork(t)
  PROVE  TypeOK'
<1> USE DEF CleanupInv, TypeOK, JobsHold, rows, locks, jobs, disk, worker, reactor, bounds
<1>1. ASSUME NEW op \in Ops, Submit(t, op)
      PROVE  TypeOK'
  <2>1. [op |-> op, at |-> IF op = "bind" THEN "claim" ELSE "lock"] \in Commands
    BY DEF Commands
  <2>2. cmd' \in [Threads -> Commands]
    BY <1>1, <2>1 DEF Submit
  <2>3. commands' \in 0..MaxCommands
    BY <1>1, WorktreeConstants DEF Submit
  <2>4. UNCHANGED <<rows, turn, locks, jobs, disk, owner, worker, reactor, failures, crashes>>
    BY <1>1 DEF Submit
  <2> QED
    BY <2>2, <2>3, <2>4
<1>2. CASE Turn(t)
  <2>1. turn' \in [Threads -> {"idle", "pending", "sending", "running"}] /\ authors' \subseteq Threads
    BY <1>2 DEF Turn, SendTurn, RunTurn, EndTurn
  <2>2. UNCHANGED <<rows, cmd, locks, jobs, checkout, owner, worker, reactor, bounds>>
    BY <1>2 DEF Turn, SendTurn, RunTurn, EndTurn
  <2> QED
    BY <2>1, <2>2
<1>3. CASE Fork(t)
  <2>1. /\ status' \in [Threads -> {"absent", "live", "archived", "deleted", "gone"}]
        /\ bound' \in [Threads -> BOOLEAN] /\ forks' \subseteq Threads /\ late' = late
    BY <1>3, WorktreeConstants DEF Fork
  <2>2. UNCHANGED <<turn, cmd, locks, jobs, disk, owner, worker, reactor, bounds>>
    BY <1>3 DEF Fork
  <2> QED
    BY <2>1, <2>2
<1> QED
  BY <1>1, <1>2, <1>3

LEMMA ReactorTypes ==
  ASSUME CleanupInv, JobsHold',
         \/ \E t \in Threads : DueSweep(t) \/ Retry(t) \/ Keep(t) \/ DiscoverIdle(t) \/ DiscoverArchived(t)
         \/ FileIdle \/ Lifecycle \/ Crash \/ BootPrune \/ UNCHANGED vars
  PROVE  TypeOK'
<1> USE DEF CleanupInv, TypeOK, JobsHold, rows, locks, jobs, disk, worker, reactor, bounds
<1>1. ASSUME NEW t \in Threads, DueSweep(t) \/ DiscoverIdle(t) \/ DiscoverArchived(t)
      PROVE  TypeOK'
  <2>1. queued' \subseteq Threads /\ manual' \subseteq Threads /\ candidate' \in Threads \cup {NoThread}
    BY <1>1 DEF DueSweep, DiscoverIdle, DiscoverArchived
  <2>2. UNCHANGED <<rows, turn, cmd, locks, disk, owner, step, subject, events, unarchiving, bounds>>
    BY <1>1 DEF DueSweep, DiscoverIdle, DiscoverArchived
  <2> QED
    BY <2>1, <2>2
<1>2. ASSUME NEW t \in Threads, Retry(t) \/ Keep(t)
      PROVE  TypeOK'
  <2>1. commands' \in 0..MaxCommands
    BY <1>2, WorktreeConstants DEF Retry, Keep
  <2>2. UNCHANGED <<rows, turn, cmd, locks, disk, owner, worker, reactor, failures, crashes>>
    BY <1>2 DEF Retry, Keep
  <2> QED
    BY <2>1, <2>2
<1>3. CASE FileIdle
  <2>1. queued' \subseteq Threads /\ manual' \subseteq Threads /\ candidate' = NoThread
    BY <1>3 DEF FileIdle
  <2>2. UNCHANGED <<rows, turn, cmd, locks, disk, owner, step, subject, events, unarchiving, bounds>>
    BY <1>3 DEF FileIdle
  <2> QED
    BY <2>1, <2>2
<1>4. ASSUME events # <<>>
      PROVE  Head(events) \in Events /\ Tail(events) \in Seq(Events)
  BY <1>4, HeadTailProperties DEF Events
<1>5. CASE HandleArchived
  <2>1. Head(events) \in Events /\ events' \in Seq(Events)
    BY <1>4, <1>5 DEF HandleArchived, Ready
  <2>2. Head(events).thread \in Threads
    BY <2>1 DEF Events
  <2>3. turn' \in [Threads -> {"idle", "pending", "sending", "running"}] /\ queued' \subseteq Threads
    BY <1>5, <2>2 DEF HandleArchived, Stopped
  <2>4. UNCHANGED <<rows, cmd, locks, disk, owner, step, subject, unarchiving, candidate, manual, bounds>>
    BY <1>5 DEF HandleArchived
  <2> QED
    BY <2>1, <2>3, <2>4 DEF Events
<1>6. CASE HandleUnarchived
  <2>1. Head(events) \in Events /\ events' \in Seq(Events)
    BY <1>4, <1>6 DEF HandleUnarchived, Ready
  <2>2. Head(events).thread \in Threads
    BY <2>1 DEF Events
  <2>3. unarchiving' \in [thread : Threads, at : {"restore", "unbind"}] \cup {NoEvent}
    BY <1>6, <2>2 DEF HandleUnarchived
  <2>4. UNCHANGED <<rows, turn, cmd, locks, disk, owner, worker, candidate, manual, bounds>>
    BY <1>6 DEF HandleUnarchived
  <2> QED
    BY <2>1, <2>3, <2>4 DEF Events
<1>7. CASE HandleDeleted
  <2>1. Head(events) \in Events /\ events' \in Seq(Events)
    BY <1>4, <1>7 DEF HandleDeleted, Ready
  <2>2. Head(events).thread \in Threads
    BY <2>1 DEF Events
  <2>3. /\ turn' \in [Threads -> {"idle", "pending", "sending", "running"}] /\ queued' \subseteq Threads
        /\ owner' \in Threads \cup {NoThread}
    BY <1>7, <2>2 DEF HandleDeleted, Stopped, Released
  <2>4. UNCHANGED <<rows, cmd, locks, disk, step, subject, unarchiving, candidate, manual, bounds>>
    BY <1>7 DEF HandleDeleted
  <2> QED
    BY <2>1, <2>3, <2>4 DEF Events
<1>8. CASE RestoreUnarchived
  <2>1. unarchiving \in [thread : Threads, at : {"restore", "unbind"}]
    BY <1>8 DEF RestoreUnarchived, NoEvent
  <2>2. unarchiving' \in [thread : Threads, at : {"restore", "unbind"}] \cup {NoEvent}
    <3>1. CASE unarchiving' = NoEvent
      BY <3>1
    <3>2. CASE unarchiving' = [unarchiving EXCEPT !.at = "unbind"]
      BY <2>1, <3>2
    <3> QED
      BY <1>8, <3>1, <3>2 DEF RestoreUnarchived
  <2>3. failures' \in 0..MaxFailures
    BY <1>8, WorktreeConstants DEF RestoreUnarchived
  <2>4. /\ checkout' \in {"present", "unlinked", "absent"} /\ authors' \subseteq Threads
        /\ UNCHANGED <<rows, turn, cmd, locks, owner, worker, events, candidate, manual, commands, crashes>>
    BY <1>8 DEF RestoreUnarchived
  <2> QED
    BY <2>2, <2>3, <2>4
<1>9. CASE Unbind
  BY <1>9 DEF Unbind
<1>10. CASE Crash
  <2>1. crashes' \in 0..MaxCrashes
    BY <1>10, WorktreeConstants DEF Crash
  <2>2. cmd' \in [Threads -> Commands]
    BY <1>10 DEF Crash, Commands
  <2>3. /\ status' \in [Threads -> {"absent", "live", "archived", "deleted", "gone"}]
        /\ bound' \in [Threads -> BOOLEAN] /\ late' = {}
        /\ turn' \in [Threads -> {"idle", "pending", "sending", "running"}]
    BY <1>10 DEF Crash
  <2>4. /\ worktreeLock' = NoThread /\ checkoutLock' = NoThread /\ rootLock' = NoThread
        /\ step' \in Steps /\ subject' = NoThread /\ queued' = {} /\ events' = <<>>
        /\ unarchiving' = NoEvent /\ candidate' = NoThread /\ manual' = {}
        /\ UNCHANGED <<forks, disk, owner, commands, failures>>
    BY <1>10 DEF Crash, Steps
  <2> QED
    BY <2>1, <2>2, <2>3, <2>4
<1>11. CASE BootPrune \/ UNCHANGED vars
  BY <1>11 DEF BootPrune, vars
<1> QED
  BY <1>1, <1>2, <1>3, <1>5, <1>6, <1>7, <1>8, <1>9, <1>10, <1>11 DEF Lifecycle

LEMMA WorkerTypes ==
  ASSUME CleanupInv, JobsHold', Cleanup \/ StepFails
  PROVE  TypeOK' /\ WorkerHoldsPath'
<1> USE DEF CleanupInv, TypeOK, JobsHold, WorkerHoldsPath, rows, locks, jobs, disk, worker, reactor,
            bounds, Keeps, Goto, Done, Steps
<1>1. ASSUME NEW t \in Threads, Reconcile(t)
      PROVE  TypeOK' /\ WorkerHoldsPath'
  BY <1>1 DEF Reconcile, DoneAt, Starting
<1>2. CASE Reserve
  BY <1>2 DEF Reserve
<1>3. CASE TryReserve
  BY <1>3 DEF TryReserve
<1>4. CASE Teardown
  BY <1>4 DEF Teardown, Stopped
<1>5. CASE Preflight
  BY <1>5 DEF Preflight
<1>6. CASE StepFails
  BY <1>6, WorktreeConstants DEF StepFails, Failed
<1>7. CASE CheckClean
  BY <1>7 DEF CheckClean, Failed
<1>8. CASE Detach
  BY <1>8 DEF Detach
<1>9. CASE Prune
  BY <1>9 DEF Prune
<1>10. CASE SettleOwner
  BY <1>10 DEF SettleOwner, Released
<1>11. CASE Recover
  BY <1>11 DEF Recover
<1> QED
  BY <1>1, <1>2, <1>3, <1>4, <1>5, <1>6, <1>7, <1>8, <1>9, <1>10, <1>11 DEF Cleanup

\* Nobody but the worker, and a crash, ends what it does.
LEMMA PathStep ==
  ASSUME CleanupInv, [Next]_vars, ~Cleanup, ~StepFails
  PROVE  WorkerHoldsPath'
<1> USE DEF CleanupInv, WorkerHoldsPath, jobs, worker
<1>1. CASE Crash
  BY <1>1 DEF Crash
<1>2. CASE UNCHANGED <<step, subject, reserved>>
  BY <1>2
<1>3. ASSUME NEW t \in Threads, Command(t)
      PROVE  UNCHANGED <<step, subject, reserved>>
  <2>1. CASE TakeLock(t) \/ AdmitStart(t) \/ RestoreForStart(t) \/ Claim(t) \/ CheckPending(t)
    BY <2>1 DEF TakeLock, AdmitStart, RestoreForStart, Claim, CheckPending
  <2>2. CASE CommitStart(t) \/ CommitMove(t) \/ CommitArchive(t) \/ CommitUnarchive(t) \/ CommitDelete(t)
    BY <2>2 DEF CommitStart, CommitMove, CommitArchive, CommitUnarchive, CommitDelete
  <2> QED
    BY <1>3, <2>1, <2>2 DEF Command
<1>4. ASSUME NEW t \in Threads, (\E op \in Ops : Submit(t, op)) \/ Turn(t) \/ Fork(t)
      PROVE  UNCHANGED <<step, subject, reserved>>
  BY <1>4 DEF Submit, Turn, SendTurn, RunTurn, EndTurn, Fork
<1>5. ASSUME NEW t \in Threads,
             DueSweep(t) \/ Retry(t) \/ Keep(t) \/ DiscoverIdle(t) \/ DiscoverArchived(t)
      PROVE  UNCHANGED <<step, subject, reserved>>
  BY <1>5 DEF DueSweep, Retry, Keep, DiscoverIdle, DiscoverArchived
<1>6. CASE FileIdle \/ Lifecycle \/ BootPrune \/ UNCHANGED vars
  <2>1. UNCHANGED <<step, subject, reserved>>
    BY <1>6 DEF FileIdle, Lifecycle, HandleArchived, HandleUnarchived, RestoreUnarchived, Unbind,
                HandleDeleted, BootPrune, vars
  <2> QED
    BY <1>2, <2>1
<1> QED
  BY <1>1, <1>2, <1>3, <1>4, <1>5, <1>6 DEF Next

-----------------------------------------------------------------------------
LEMMA InitHolds == Init => CleanupInv
<1> SUFFICES ASSUME Init PROVE CleanupInv
  OBVIOUS
<1>1. NoCmd \in Commands /\ NoJob \in Jobs
  BY DEF Commands, Jobs
<1>2. TypeOK
  <2>1. /\ cmd \in [Threads -> Commands] /\ job \in [Threads -> Jobs]
        /\ events \in Seq([kind : {"archived", "unarchived", "deleted", "purged"}, thread : Threads])
    <3>1. cmd = [t \in Threads |-> NoCmd] /\ job = [t \in Threads |-> NoJob] /\ events = <<>>
      BY DEF Init
    <3> QED
      BY <1>1, <3>1
  <2>2. /\ status \in [Threads -> {"absent", "live", "archived", "deleted", "gone"}]
        /\ bound \in [Threads -> BOOLEAN] /\ turn \in [Threads -> {"idle", "pending", "sending", "running"}]
    BY DEF Init
  <2>3. /\ forks \subseteq Threads /\ late \subseteq Threads /\ queued \subseteq Threads /\ manual \subseteq Threads
        /\ worktreeLock \in Threads \cup {NoThread, Worker}
        /\ checkoutLock \in Threads \cup {NoThread} /\ rootLock \in {NoThread, Worker}
        /\ reserved \in Threads \cup {NoThread} /\ owner \in Threads \cup {NoThread}
        /\ subject \in Threads \cup {NoThread} /\ candidate \in Threads \cup {NoThread}
    BY WorktreeConstants DEF Init
  <2>4. /\ checkout \in {"present", "unlinked", "absent"} /\ authors \subseteq Threads /\ step \in Steps
        /\ unarchiving \in [thread : Threads, at : {"restore", "unbind"}] \cup {NoEvent}
    BY DEF Init, Steps
  <2>5. commands \in 0..MaxCommands /\ failures \in 0..MaxFailures /\ crashes \in 0..MaxCrashes
    BY WorktreeConstants DEF Init
  <2> QED
    BY <2>1, <2>2, <2>3, <2>4, <2>5 DEF TypeOK
<1>3. ReservationsMatchJobs /\ WorkerHoldsPath
  BY WorktreeConstants DEF Init, ReservationsMatchJobs, WorkerHoldsPath, NoJob
<1> QED
  BY <1>2, <1>3 DEF CleanupInv

LEMMA InvariantStep == CleanupInv /\ [Next]_vars => CleanupInv'
<1> SUFFICES ASSUME CleanupInv, [Next]_vars PROVE CleanupInv'
  OBVIOUS
<1>1. CASE Cleanup \/ StepFails
  BY <1>1, WorkerJobs, WorkerTypes DEF CleanupInv, JobsHold
<1>2. CASE ~Cleanup /\ ~StepFails
  <2>1. WorkerHoldsPath'
    BY <1>2, PathStep
  <2>2. ASSUME NEW t \in Threads,
               Command(t) \/ (\E op \in Ops : Submit(t, op)) \/ Turn(t) \/ Fork(t)
        PROVE  CleanupInv'
    BY <2>1, <2>2, CommandJobs, CommandTypes, ClientTypes DEF CleanupInv, JobsHold
  <2>3. CASE \/ \E t \in Threads : DueSweep(t) \/ Retry(t) \/ Keep(t) \/ DiscoverIdle(t)
                                  \/ DiscoverArchived(t)
             \/ FileIdle \/ Lifecycle \/ Crash \/ BootPrune \/ UNCHANGED vars
    BY <2>1, <2>3, ReactorJobs, ReactorTypes DEF CleanupInv, JobsHold
  <2> QED
    BY <1>2, <2>2, <2>3 DEF Next
<1> QED
  BY <1>1, <1>2

\* Types, reservations and what the cleanup worker holds, together, are kept by
\* every step (WorktreeCleanupJobs.ts, ThreadDeletionReactor.ts).
THEOREM CleanupInvariance == Spec => []CleanupInv
  BY InitHolds, InvariantStep, PTL DEF Spec

\* The variables are typed; no job is filed without the source of its intent.
THEOREM TypeCorrect == Spec => []TypeOK
<1>1. CleanupInv => TypeOK
  BY DEF CleanupInv
<1> QED
  BY <1>1, CleanupInvariance, PTL

\* A path is reserved exactly while a removal runs, through every failure and
\* crash (WorktreeCleanupJobs.ts; ThreadDeletionReactor.ts, recoverInterruptedRemovals).
THEOREM ReservationsAreJustified == Spec => []ReservationsMatchJobs
<1>1. CleanupInv => ReservationsMatchJobs
  BY DEF CleanupInv
<1> QED
  BY <1>1, CleanupInvariance, PTL

-----------------------------------------------------------------------------
(* Whoever uses the path.                                                   *)

\* From the lock of the checkout to its answer a turn start holds that lock.
StartsHoldCheckout ==
  \A t \in Threads : cmd[t].op = "start" /\ cmd[t].at # "lock" => checkoutLock = t

\* No turn start gets past admission while the path is reserved.
StartsAreHeldOff ==
  reserved # NoThread =>
    \A t \in Threads : cmd[t].op = "start" => cmd[t].at \in {"lock", "admit"}

\* A move that takes no lock has nothing but its claim and its check.
MovesTakeNoLock == \A t \in Threads : cmd[t].op = "bind" => cmd[t].at # "lock"

Admission == StartsHoldCheckout /\ StartsAreHeldOff /\ MovesTakeNoLock

\* A thread that is not yet forked has nothing and does nothing.
AbsentIsUnused ==
  \A t \in Threads : status[t] = "absent" =>
    turn[t] = "idle" /\ cmd[t] = NoCmd /\ job[t] = NoJob /\ ~bound[t] /\ t \notin authors

CandidateExists == candidate \in Threads => status[candidate] # "absent"

\* Only a deletion files a job to delete, and there is no way back from it.
DeletedForGood ==
  \A t \in Threads : job[t].source = "delete" => status[t] \in {"deleted", "gone"}

NothingManual == ~ManualReclaim => manual = {}

Records == AbsentIsUnused /\ CandidateExists /\ DeletedForGood /\ NothingManual

\* A live chat of the path whose last move did not come too late.
User(t) == Live(t) /\ bound[t] /\ t \notin late

\* From the last look to the rename no user of the path has a turn.
UsersAreIdle ==
  ~ManualReclaim /\ step \in {"clean", "detach"} =>
    \A t \in Threads : User(t) => turn[t] = "idle"

\* From git's answer to the rename no user of the path has uncommitted work in it.
UsersWorkIsKept ==
  ~ManualReclaim /\ step = "detach" => \A t \in authors : ~User(t)

\* t's move is about to be committed.
Moving(t) == cmd[t].op \in {"bind", "handoff"} /\ cmd[t].at = "commit"

\* From the last look on, a thread that was archived or deleted is not reopened
\* on the path.
NotReopened ==
  step \in {"clean", "detach"} /\ job[subject].source \in {"archive", "delete"} =>
    ~Live(subject) \/ (~bound[subject] /\ ~Moving(subject))

\* The inductive invariant of the path.
PathInv ==
  /\ CleanupInv /\ Admission /\ Records
  /\ UsersAreIdle /\ UsersWorkIsKept /\ NotReopened

-----------------------------------------------------------------------------
(* Admission.                                                               *)

\* A command that goes on, or is answered, leaves the others where they are.
LEMMA GoesOn ==
  ASSUME cmd \in [Threads -> Commands], NEW t \in Threads, NEW at,
         cmd' = [cmd EXCEPT ![t].at = at]
  PROVE  /\ cmd'[t].op = cmd[t].op /\ cmd'[t].at = at
         /\ \A u \in Threads \ {t} : cmd'[u] = cmd[u]
<1>1. [cmd[t] EXCEPT !.at = at].op = cmd[t].op /\ [cmd[t] EXCEPT !.at = at].at = at
  BY DEF Commands, NoCmd
<1>2. cmd' = [cmd EXCEPT ![t] = [cmd[t] EXCEPT !.at = at]]
  OBVIOUS
<1> QED
  BY <1>1, <1>2

LEMMA Answered ==
  ASSUME cmd \in [Threads -> Commands], NEW t \in Threads, Answer(t)
  PROVE  /\ cmd'[t] = NoCmd /\ cmd'[t].op = "none" /\ cmd'[t].at = "none"
         /\ \A u \in Threads \ {t} : cmd'[u] = cmd[u]
         /\ checkoutLock' = IF checkoutLock = t THEN NoThread ELSE checkoutLock
BY DEF Answer, NoCmd

\* An answer, with the reservation as it is.
LEMMA AnswerAdmits ==
  ASSUME TypeOK, Admission, NEW t \in Threads, Answer(t), reserved' = reserved
  PROVE  Admission'
<1>1. cmd \in [Threads -> Commands]
  BY DEF TypeOK
<1> QED
  BY <1>1, Answered DEF Admission, StartsHoldCheckout, StartsAreHeldOff, MovesTakeNoLock

LEMMA AdvanceAdmits ==
  ASSUME TypeOK, Admission, NEW t \in Threads, NEW at \in {"restore", "claim", "check", "commit"},
         Advance(t, at), cmd[t].at # "lock", cmd[t].op = "start" => reserved = NoThread,
         reserved' = reserved
  PROVE  Admission'
<1>1. cmd \in [Threads -> Commands] /\ checkoutLock' = checkoutLock
  BY DEF TypeOK, Advance, locks
<1>2. /\ cmd'[t].op = cmd[t].op /\ cmd'[t].at = at
      /\ \A u \in Threads \ {t} : cmd'[u] = cmd[u]
  BY <1>1, GoesOn DEF Advance
<1> QED
  BY <1>1, <1>2 DEF Admission, StartsHoldCheckout, StartsAreHeldOff, MovesTakeNoLock

\* What leaves commands and the lock of the checkout alone, and reserves nothing.
LEMMA AdmissionKept ==
  ASSUME Admission, UNCHANGED <<cmd, checkoutLock>>, reserved' \in {reserved, NoThread}
  PROVE  Admission'
BY DEF Admission, StartsHoldCheckout, StartsAreHeldOff, MovesTakeNoLock

LEMMA CommandAdmits ==
  ASSUME CleanupInv, Admission, NEW t \in Threads, Command(t)
  PROVE  Admission'
<1> TypeOK /\ cmd \in [Threads -> Commands]
  BY DEF CleanupInv, TypeOK
<1>1. CASE TakeLock(t)
  <2>1. CASE cmd[t].op = "start"
    <3>1. /\ cmd' = [cmd EXCEPT ![t].at = "admit"] /\ checkoutLock = NoThread /\ checkoutLock' = t
          /\ reserved' = reserved
      BY <1>1, <2>1 DEF TakeLock, jobs
    <3>2. /\ cmd'[t].op = "start" /\ cmd'[t].at = "admit"
          /\ \A u \in Threads \ {t} : cmd'[u] = cmd[u]
      BY <2>1, <3>1, GoesOn
    <3> QED
      BY <3>1, <3>2, WorktreeConstants
         DEF Admission, StartsHoldCheckout, StartsAreHeldOff, MovesTakeNoLock
  <2>2. CASE cmd[t].op # "start"
    <3>1. PICK at \in {"claim", "commit"} : cmd' = [cmd EXCEPT ![t].at = at]
      BY <1>1, <2>2 DEF TakeLock
    <3>2. checkoutLock' = checkoutLock /\ reserved' = reserved
      BY <1>1, <2>2 DEF TakeLock, jobs
    <3>3. /\ cmd'[t].op = cmd[t].op /\ cmd'[t].at = at
          /\ \A u \in Threads \ {t} : cmd'[u] = cmd[u]
      BY <3>1, GoesOn
    <3> QED
      BY <2>2, <3>2, <3>3 DEF Admission, StartsHoldCheckout, StartsAreHeldOff, MovesTakeNoLock
  <2> QED
    BY <2>1, <2>2
<1>2. CASE AdmitStart(t)
  <2>1. reserved' = reserved /\ cmd[t].at = "admit"
    BY <1>2 DEF AdmitStart
  <2>2. \/ Answer(t)
        \/ reserved = NoThread /\ \E at \in {"claim", "restore"} : Advance(t, at)
    BY <1>2 DEF AdmitStart, CleanupPending
  <2> QED
    BY <2>1, <2>2, AnswerAdmits, AdvanceAdmits
<1>3. CASE RestoreForStart(t) \/ Claim(t) \/ CheckPending(t)
  <2>1. reserved' = reserved /\ cmd[t].at \in {"restore", "claim", "check"}
    BY <1>3 DEF RestoreForStart, Claim, CheckPending, jobs
  <2>2. cmd[t].op = "start" => reserved = NoThread
    BY <2>1 DEF Admission, StartsAreHeldOff
  <2>3. Answer(t) \/ \E at \in {"claim", "check", "commit"} : Advance(t, at)
    BY <1>3 DEF RestoreForStart, Claim, CheckPending
  <2> QED
    BY <2>1, <2>2, <2>3, AnswerAdmits, AdvanceAdmits
<1>4. CASE CommitStart(t) \/ CommitMove(t) \/ CommitArchive(t) \/ CommitUnarchive(t) \/ CommitDelete(t)
  <2>1. Answer(t) /\ reserved' = reserved
    BY <1>4 DEF CommitStart, CommitMove, CommitArchive, CommitUnarchive, CommitDelete, jobs
  <2> QED
    BY <2>1, AnswerAdmits
<1> QED
  BY <1>1, <1>2, <1>3, <1>4 DEF Command

LEMMA AdmissionStep ==
  ASSUME CleanupInv, Admission, [Next]_vars
  PROVE  Admission'
<1> TypeOK /\ cmd \in [Threads -> Commands]
  BY DEF CleanupInv, TypeOK
<1>1. ASSUME NEW t \in Threads, NEW op \in Ops, Submit(t, op)
      PROVE  Admission'
  <2>1. /\ cmd' = [cmd EXCEPT ![t] = [op |-> op, at |-> IF op = "bind" THEN "claim" ELSE "lock"]]
        /\ checkoutLock' = checkoutLock /\ reserved' = reserved
    BY <1>1 DEF Submit, locks, jobs
  <2>2. /\ cmd'[t].op = op /\ cmd'[t].at = IF op = "bind" THEN "claim" ELSE "lock"
        /\ \A u \in Threads \ {t} : cmd'[u] = cmd[u]
    BY <2>1
  <2> QED
    BY <2>1, <2>2 DEF Admission, StartsHoldCheckout, StartsAreHeldOff, MovesTakeNoLock
<1>2. ASSUME NEW t \in Threads, Turn(t) \/ Fork(t) \/ DueSweep(t) \/ Retry(t) \/ Keep(t)
                                \/ DiscoverIdle(t) \/ DiscoverArchived(t)
      PROVE  Admission'
  <2>1. UNCHANGED <<cmd, checkoutLock, reserved>>
    BY <1>2 DEF Turn, SendTurn, RunTurn, EndTurn, Fork, DueSweep, Retry, Keep, DiscoverIdle,
                DiscoverArchived, locks, jobs
  <2> QED
    BY <2>1, AdmissionKept
<1>3. CASE FileIdle \/ Lifecycle \/ BootPrune \/ UNCHANGED vars
  <2>1. UNCHANGED <<cmd, checkoutLock, reserved>>
    BY <1>3 DEF FileIdle, Lifecycle, HandleArchived, HandleUnarchived, RestoreUnarchived, Unbind,
                HandleDeleted, BootPrune, vars, locks, jobs
  <2> QED
    BY <2>1, AdmissionKept
<1>4. ASSUME (\E t \in Threads : Reconcile(t)) \/ Reserve \/ Teardown \/ Preflight \/ CheckClean
             \/ Detach \/ Prune \/ SettleOwner \/ Recover \/ StepFails
      PROVE  Admission'
  <2>1. UNCHANGED <<cmd, checkoutLock>>
    BY <1>4 DEF Reconcile, Reserve, Teardown, Preflight, CheckClean, Detach, Prune, SettleOwner,
                Recover, StepFails, locks
  <2>2. reserved' \in {reserved, NoThread}
    BY <1>4 DEF Reconcile, DoneAt, Reserve, Teardown, Preflight, CheckClean, Failed, Detach, Prune,
                SettleOwner, Recover, StepFails, Settle, Unreserved, jobs
  <2> QED
    BY <2>1, <2>2, AdmissionKept
<1>5. CASE TryReserve
  <2>1. checkoutLock = NoThread /\ UNCHANGED <<cmd, checkoutLock>>
    BY <1>5 DEF TryReserve, CheckoutFree
  <2> QED
    BY <2>1, WorktreeConstants DEF Admission, StartsHoldCheckout, StartsAreHeldOff, MovesTakeNoLock
<1>6. CASE Crash
  <2>1. \A t \in Threads : cmd'[t].op = "none"
    BY <1>6 DEF Crash, NoCmd
  <2> QED
    BY <2>1 DEF Admission, StartsHoldCheckout, StartsAreHeldOff, MovesTakeNoLock
<1> QED
  BY <1>1, <1>2, <1>3, <1>4, <1>5, <1>6, CommandAdmits DEF Next, Cleanup

-----------------------------------------------------------------------------
(* Records.                                                                 *)

\* What a withdrawal and a filing leave of the jobs.
LEMMA CancelledLeaves ==
  ASSUME NEW js \in [Threads -> Jobs], NEW S, NEW u \in Threads
  PROVE  /\ Cancelled(js, S)[u].source = js[u].source
         /\ js[u].state \notin {"waiting", "attention"} => Cancelled(js, S)[u] = js[u]
<1>1. js[u] \in Jobs /\ [js[u] EXCEPT !.state = "cancelled"].source = js[u].source
  BY DEF Jobs, NoJob
<1>2. \/ Cancelled(js, S)[u] = js[u]
      \/ /\ Cancelled(js, S)[u] = [js[u] EXCEPT !.state = "cancelled"]
         /\ js[u].state \in {"waiting", "attention"}
  BY DEF Cancelled
<1> QED
  BY <1>1, <1>2

LEMMA EnqueuedLeaves ==
  ASSUME NEW js \in [Threads -> Jobs], NEW t \in Threads, NEW source, NEW mayReset \in BOOLEAN,
         NEW u \in Threads
  PROVE  /\ Enqueued(js, t, source, mayReset)[u].source \in {js[u].source, source}
         /\ js[u].state = "removing" \/ u # t => Enqueued(js, t, source, mayReset)[u] = js[u]
<1> DEFINE waiting == [state |-> "waiting", source |-> source]
           sourced == [js[t] EXCEPT !.source = source]
<1>1. waiting.source = source
  OBVIOUS
<1>2. sourced.source = source
  BY DEF Jobs, NoJob
<1>3. \/ Enqueued(js, t, source, mayReset) = js
      \/ /\ Enqueued(js, t, source, mayReset) = [js EXCEPT ![t] = waiting]
         /\ js[t].state # "removing"
      \/ /\ Enqueued(js, t, source, mayReset) = [js EXCEPT ![t] = sourced]
         /\ js[t].state # "removing"
  BY DEF Enqueued
<1> HIDE DEF waiting, sourced
<1> QED
  BY <1>1, <1>2, <1>3

LEMMA MovedLeaves ==
  ASSUME NEW js \in [Threads -> Jobs], NEW t, NEW state, NEW u \in Threads
  PROVE  /\ Moved(js, t, state)[u].source = js[u].source
         /\ u # t \/ js[u].state = state => Moved(js, t, state)[u] = js[u]
<1>1. [js[u] EXCEPT !.state = state].source = js[u].source
  BY DEF Jobs, NoJob
<1>2. js[u].state = state => [js[u] EXCEPT !.state = state] = js[u]
  BY DEF Jobs, NoJob
<1>3. Moved(js, t, state)[u] = IF u = t THEN [js[u] EXCEPT !.state = state] ELSE js[u]
  BY DEF Moved
<1> QED
  BY <1>1, <1>2, <1>3

\* A step spares removals, files deletions of deleted threads only, and nothing
\* for those that are absent.
JobsFollow ==
  \A u \in Threads :
    /\ job[u].state = "removing" => job'[u] = job[u]
    /\ job'[u].source = "delete" => job[u].source = "delete" \/ status'[u] = "deleted"
    /\ status[u] = "absent" => job'[u] = NoJob

LEMMA JobsAsTheyAre ==
  ASSUME AbsentIsUnused, job' = job
  PROVE  JobsFollow
BY DEF JobsFollow, AbsentIsUnused

LEMMA JobsWithdrawn ==
  ASSUME TypeOK, AbsentIsUnused, NEW S, job' = Cancelled(job, S)
  PROVE  JobsFollow
<1>1. job \in [Threads -> Jobs]
  BY DEF TypeOK
<1>2. ASSUME NEW u \in Threads
      PROVE  /\ job'[u].source = job[u].source
             /\ job[u].state \notin {"waiting", "attention"} => job'[u] = job[u]
  BY <1>1, CancelledLeaves
<1> QED
  BY <1>2 DEF JobsFollow, AbsentIsUnused, NoJob

LEMMA JobFiled ==
  ASSUME TypeOK, AbsentIsUnused, NEW t \in Threads, status[t] # "absent",
         NEW source \in {"archive", "idle"}, NEW mayReset \in BOOLEAN,
         job' = Enqueued(job, t, source, mayReset)
  PROVE  JobsFollow
<1>1. job \in [Threads -> Jobs]
  BY DEF TypeOK
<1>2. ASSUME NEW u \in Threads
      PROVE  /\ job'[u].source \in {job[u].source, source}
             /\ job[u].state = "removing" \/ u # t => job'[u] = job[u]
  BY <1>1, EnqueuedLeaves
<1> QED
  BY <1>2 DEF JobsFollow, AbsentIsUnused

LEMMA CommandFollows ==
  ASSUME CleanupInv, Records, NEW t \in Threads,
         Command(t) \/ (\E op \in Ops : Submit(t, op)) \/ Turn(t) \/ Fork(t)
  PROVE  JobsFollow
<1> TypeOK /\ AbsentIsUnused /\ job \in [Threads -> Jobs]
  BY DEF CleanupInv, TypeOK, Records
<1>1. CASE AdmitStart(t)
  <2>1. job' = job \/ job' = Cancelled(job, {t})
    BY <1>1 DEF AdmitStart, IdleCancelled
  <2> QED
    BY <2>1, JobsAsTheyAre, JobsWithdrawn
<1>2. CASE CommitUnarchive(t)
  <2>1. job' = job \/ \E S \in SUBSET Threads : job' = Cancelled(job, S)
    BY <1>2 DEF CommitUnarchive
  <2> QED
    BY <2>1, JobsAsTheyAre, JobsWithdrawn
<1>3. CASE CommitDelete(t)
  <2> DEFINE S == {u \in Subtree(t) : status[u] \in {"live", "archived", "deleted"}}
             consent == {u \in S : cmd[t].op = "purge" /\ bound[u] /\ ~ActiveOwner(u)}
             filed(u) == Enqueued(job, u, "delete", TRUE)[u]
  <2>1. job' = [u \in Threads |-> IF u \in consent THEN filed(u) ELSE job[u]]
    BY <1>3 DEF CommitDelete
  <2>2. \A u \in Threads : u \in consent => status'[u] = "deleted" /\ status[u] # "absent"
    BY <1>3 DEF CommitDelete
  <2>3. ASSUME NEW u \in Threads
        PROVE  job[u].state = "removing" => filed(u) = job[u]
    <3>1. job[u].state = "removing" => Enqueued(job, u, "delete", TRUE) = job
      BY DEF Enqueued
    <3> QED
      BY <3>1
  <2> HIDE DEF consent, filed
  <2> QED
    BY <2>1, <2>2, <2>3 DEF JobsFollow, AbsentIsUnused
<1>4. CASE TakeLock(t) \/ RestoreForStart(t) \/ Claim(t) \/ CheckPending(t) \/ CommitStart(t)
           \/ CommitMove(t) \/ CommitArchive(t) \/ (\E op \in Ops : Submit(t, op)) \/ Turn(t) \/ Fork(t)
  <2>1. job' = job
    BY <1>4 DEF TakeLock, RestoreForStart, Claim, CheckPending, CommitStart, CommitMove,
                CommitArchive, Submit, Turn, SendTurn, RunTurn, EndTurn, Fork, jobs
  <2> QED
    BY <2>1, JobsAsTheyAre
<1> QED
  BY <1>1, <1>2, <1>3, <1>4 DEF Command

LEMMA ReactorFollows ==
  ASSUME CleanupInv, Records,
         \/ \E t \in Threads : DueSweep(t) \/ Retry(t) \/ Keep(t) \/ DiscoverIdle(t) \/ DiscoverArchived(t)
         \/ FileIdle \/ Lifecycle \/ Crash \/ BootPrune \/ UNCHANGED vars
  PROVE  JobsFollow
<1> TypeOK /\ AbsentIsUnused /\ job \in [Threads -> Jobs]
  BY DEF CleanupInv, TypeOK, Records
<1>1. ASSUME NEW t \in Threads, Retry(t)
      PROVE  JobsFollow
  <2>1. job' = Moved(job, t, "waiting") /\ job[t].state = "attention"
    BY <1>1 DEF Retry
  <2>2. ASSUME NEW u \in Threads
        PROVE  job'[u].source = job[u].source /\ (u # t => job'[u] = job[u])
    BY <2>1, MovedLeaves
  <2> QED
    BY <2>1, <2>2 DEF JobsFollow, AbsentIsUnused, NoJob
<1>2. ASSUME NEW t \in Threads, Keep(t)
      PROVE  JobsFollow
  BY <1>2, JobsWithdrawn DEF Keep
<1>3. ASSUME NEW t \in Threads, NEW mayReset \in BOOLEAN, job' = ArchiveFiled(t, mayReset)
      PROVE  JobsFollow
  <2>1. CASE bound[t]
    <3>1. status[t] # "absent" /\ job' = Enqueued(job, t, "archive", mayReset)
      BY <1>3, <2>1 DEF ArchiveFiled, AbsentIsUnused
    <3> QED
      BY <3>1, JobFiled
  <2>2. CASE ~bound[t]
    BY <1>3, <2>2, JobsAsTheyAre DEF ArchiveFiled
  <2> QED
    BY <2>1, <2>2
<1>4. ASSUME NEW t \in Threads, DiscoverArchived(t)
      PROVE  JobsFollow
  BY <1>3, <1>4 DEF DiscoverArchived
<1>5. CASE FileIdle
  <2>1. candidate \in Threads /\ job' = Enqueued(job, candidate, "idle", TRUE)
    BY <1>5 DEF FileIdle, TypeOK
  <2>2. status[candidate] # "absent"
    BY <2>1 DEF Records, CandidateExists
  <2> QED
    BY <2>1, <2>2, JobFiled
<1>6. CASE HandleArchived
  <2>1. events # <<>> /\ Head(events) \in Events
    BY <1>6, HeadTailProperties DEF HandleArchived, Ready, TypeOK, Events
  <2>2. Head(events).thread \in Threads
    BY <2>1 DEF Events
  <2>3. job' = ArchiveFiled(Head(events).thread, TRUE)
    BY <1>6 DEF HandleArchived
  <2> QED
    BY <1>3, <2>2, <2>3
<1>7. CASE HandleUnarchived
  <2>1. PICK S : job' = Cancelled(job, S)
    BY <1>7 DEF HandleUnarchived
  <2> QED
    BY <2>1, JobsWithdrawn
<1>8. ASSUME \/ \E t \in Threads : DueSweep(t) \/ DiscoverIdle(t)
             \/ RestoreUnarchived \/ Unbind \/ HandleDeleted \/ Crash \/ BootPrune \/ UNCHANGED vars
      PROVE  JobsFollow
  <2>1. job' = job
    BY <1>8 DEF DueSweep, DiscoverIdle, RestoreUnarchived, Unbind, HandleDeleted, Crash,
                BootPrune, vars, jobs
  <2> QED
    BY <2>1, JobsAsTheyAre
<1> QED
  BY <1>1, <1>2, <1>4, <1>5, <1>6, <1>7, <1>8 DEF Lifecycle

\* The worker moves jobs, and never changes whose intent they are.
IntentsStay ==
  \A u \in Threads : /\ job'[u].source = job[u].source
                     /\ status[u] = "absent" => job'[u] = NoJob

LEMMA WorkerFollows ==
  ASSUME CleanupInv, Records, Cleanup \/ StepFails
  PROVE  IntentsStay
<1> TypeOK /\ AbsentIsUnused /\ job \in [Threads -> Jobs]
  BY DEF CleanupInv, TypeOK, Records
<1>0. job' = job => IntentsStay
  BY DEF IntentsStay, AbsentIsUnused
<1>1. ASSUME NEW t, NEW state, job' = Moved(job, t, state),
             t \in Threads => job[t].state = state \/ job[t].state # "none"
      PROVE  IntentsStay
  <2>1. ASSUME NEW u \in Threads
        PROVE  /\ job'[u].source = job[u].source
               /\ u # t \/ job[u].state = state => job'[u] = job[u]
    BY <1>1, MovedLeaves
  <2> QED
    BY <1>1, <2>1 DEF IntentsStay, AbsentIsUnused, NoJob
<1>2. ASSUME NEW S, job' = Cancelled(job, S)
      PROVE  IntentsStay
  <2>1. ASSUME NEW u \in Threads
        PROVE  /\ job'[u].source = job[u].source
               /\ job[u].state \notin {"waiting", "attention"} => job'[u] = job[u]
    BY <1>2, CancelledLeaves
  <2> QED
    BY <2>1 DEF IntentsStay, AbsentIsUnused, NoJob
<1>3. ASSUME step \in {"teardown", "preflight", "clean", "detach", "prune"}
      PROVE  subject \in Threads /\ job[subject].state = "removing"
  BY <1>3 DEF CleanupInv, WorkerHoldsPath, ReservationsMatchJobs
<1>4. ASSUME NEW t \in Threads, Reconcile(t)
      PROVE  IntentsStay
  <2>1. job' = job \/ \E state : DoneAt(t, state) /\ (job[t].state = state \/ job[t].state = "waiting")
    BY <1>4 DEF Reconcile, jobs
  <2> QED
    BY <1>0, <1>1, <2>1 DEF DoneAt
<1>5. CASE Reserve
  BY <1>0, <1>2, <1>5 DEF Reserve, jobs
<1>6. CASE TryReserve
  BY <1>0, <1>1, <1>6 DEF TryReserve, jobs
<1>7. ASSUME step \in {"teardown", "preflight", "clean", "detach", "prune"},
             job' = job \/ \E state : Settle(subject, state)
      PROVE  IntentsStay
  BY <1>0, <1>1, <1>3, <1>7 DEF Settle
<1>8. CASE Preflight \/ StepFails \/ CheckClean
  <2>1. step \in {"teardown", "preflight", "clean", "detach", "prune"}
    BY <1>8 DEF Preflight, StepFails, CheckClean
  <2>2. job' = job \/ \E state : Settle(subject, state)
    BY <1>8 DEF Preflight, StepFails, CheckClean, Failed, jobs
  <2> QED
    BY <1>7, <2>1, <2>2
<1>9. CASE Prune
  BY <1>7, <1>9 DEF Prune
<1>10. CASE Teardown \/ Detach \/ SettleOwner
  <2>1. job' = job
    BY <1>10 DEF Teardown, Detach, SettleOwner, jobs
  <2> QED
    BY <1>0, <2>1
<1>11. CASE Recover
  <2> DEFINE over == IF checkout = "absent" THEN "completed" ELSE "waiting"
  <2>1. \A u \in Threads : [job[u] EXCEPT !.state = over].source = job[u].source
    BY DEF Jobs, NoJob
  <2>2. \A u \in Threads : job'[u] = IF job[u].state = "removing" THEN [job[u] EXCEPT !.state = over]
                                     ELSE job[u]
    BY <1>11 DEF Recover
  <2> HIDE DEF over
  <2>3. \A u \in Threads : job'[u].source = job[u].source
    BY <2>1, <2>2
  <2>4. \A u \in Threads : status[u] = "absent" => job[u] = NoJob /\ job[u].state = "none"
    BY DEF AbsentIsUnused, NoJob
  <2> QED
    BY <2>2, <2>3, <2>4 DEF IntentsStay
<1> QED
  BY <1>4, <1>5, <1>6, <1>8, <1>9, <1>10, <1>11 DEF Cleanup

\* Nothing turns absent, and what was deleted stays so.
StatusFollows ==
  \A u \in Threads :
    /\ status'[u] = "absent" =>
         /\ status[u] = "absent" /\ turn'[u] = "idle" /\ cmd'[u] = NoCmd /\ ~bound'[u]
         /\ u \notin authors'
    /\ status[u] \in {"deleted", "gone"} => status'[u] \in {"deleted", "gone"}

\* Records follow from what a step does to threads and jobs.
LEMMA RecordsFollow ==
  ASSUME Records, StatusFollows, JobsFollow \/ IntentsStay, CandidateExists', NothingManual'
  PROVE  Records'
<1>1. AbsentIsUnused'
  BY DEF Records, AbsentIsUnused, StatusFollows, JobsFollow, IntentsStay
<1>2. DeletedForGood'
  BY DEF Records, DeletedForGood, StatusFollows, JobsFollow, IntentsStay
<1> QED
  BY <1>1, <1>2 DEF Records

LEMMA CommandRecords ==
  ASSUME CleanupInv, Records, NEW t \in Threads, Command(t)
  PROVE  StatusFollows /\ UNCHANGED <<candidate, manual>>
<1> TypeOK /\ AbsentIsUnused /\ cmd \in [Threads -> Commands]
  BY DEF CleanupInv, TypeOK, Records
<1>1. UNCHANGED <<candidate, manual>>
  BY DEF Command, TakeLock, AdmitStart, RestoreForStart, Claim, CheckPending, CommitStart, CommitMove,
         CommitArchive, CommitUnarchive, CommitDelete, reactor
<1>2. cmd[t].at # "none"
  <2>1. CASE TakeLock(t) \/ AdmitStart(t) \/ RestoreForStart(t) \/ Claim(t) \/ CheckPending(t)
    <3>1. cmd[t].at \in {"lock", "admit", "restore", "claim", "check"}
      <4>1. CASE TakeLock(t) \/ AdmitStart(t)
        BY <4>1 DEF TakeLock, AdmitStart
      <4>2. CASE RestoreForStart(t) \/ Claim(t) \/ CheckPending(t)
        BY <4>2 DEF RestoreForStart, Claim, CheckPending
      <4> QED
        BY <2>1, <4>1, <4>2
    <3> QED
      BY <3>1
  <2>2. CASE CommitStart(t) \/ CommitMove(t) \/ CommitArchive(t) \/ CommitUnarchive(t) \/ CommitDelete(t)
    <3>1. cmd[t].at = "commit"
      <4>1. CASE CommitMove(t) \/ CommitDelete(t)
        BY <4>1 DEF CommitMove, CommitDelete
      <4>2. CASE CommitStart(t) \/ CommitArchive(t) \/ CommitUnarchive(t)
        <5>1. \E op \in Ops : cmd[t] = [op |-> op, at |-> "commit"]
          BY <4>2 DEF CommitStart, CommitArchive, CommitUnarchive, Ops
        <5> QED
          BY <5>1
      <4> QED
        BY <2>2, <4>1, <4>2
    <3> QED
      BY <3>1
  <2> QED
    BY <2>1, <2>2 DEF Command
<1>3. status[t] # "absent"
  BY <1>2 DEF AbsentIsUnused, NoCmd
<1>4. \A u \in Threads \ {t} : cmd'[u] = cmd[u] /\ turn'[u] = turn[u] /\ bound'[u] = bound[u]
  <2>1. CASE TakeLock(t) \/ AdmitStart(t) \/ RestoreForStart(t) \/ Claim(t) \/ CheckPending(t)
    BY <2>1 DEF TypeOK, TakeLock, AdmitStart, RestoreForStart, Claim, CheckPending, Answer, Advance, rows
  <2>2. CASE CommitStart(t) \/ CommitMove(t) \/ CommitArchive(t) \/ CommitUnarchive(t) \/ CommitDelete(t)
    BY <2>2 DEF TypeOK, CommitStart, CommitMove, CommitArchive, CommitUnarchive, CommitDelete, Answer, rows
  <2> QED
    BY <2>1, <2>2 DEF Command
<1>5. authors' \in {authors, {}}
  BY DEF Command, TakeLock, AdmitStart, RestoreForStart, Claim, CheckPending, CommitStart, CommitMove,
         CommitArchive, CommitUnarchive, CommitDelete, disk
<1>6. \A u \in Threads :
        /\ status'[u] = "absent" => status[u] = "absent"
        /\ status[u] \in {"deleted", "gone"} => status'[u] \in {"deleted", "gone"}
  <2>1. CASE TakeLock(t) \/ AdmitStart(t) \/ RestoreForStart(t) \/ Claim(t) \/ CheckPending(t)
             \/ CommitStart(t) \/ CommitMove(t)
    BY <2>1 DEF TypeOK, TakeLock, AdmitStart, RestoreForStart, Claim, CheckPending, CommitStart,
                CommitMove, rows
  <2>2. CASE CommitArchive(t)
    BY <2>2 DEF CommitArchive, Live
  <2>3. CASE CommitUnarchive(t)
    BY <2>3 DEF TypeOK, CommitUnarchive
  <2>4. CASE CommitDelete(t)
    BY <2>4 DEF CommitDelete
  <2> QED
    BY <2>1, <2>2, <2>3, <2>4 DEF Command
<1> QED
  BY <1>1, <1>3, <1>4, <1>5, <1>6 DEF StatusFollows, AbsentIsUnused

LEMMA ClientRecords ==
  ASSUME CleanupInv, Records, NEW t \in Threads,
         (\E op \in Ops : Submit(t, op)) \/ Turn(t) \/ Fork(t)
  PROVE  StatusFollows /\ UNCHANGED <<candidate, manual>>
<1> AbsentIsUnused
  BY DEF Records
<1>1. ASSUME NEW op \in Ops, Submit(t, op)
      PROVE  StatusFollows /\ UNCHANGED <<candidate, manual>>
  <2>1. status[t] # "absent"
    BY <1>1 DEF Submit, Ops, Live
  <2>2. /\ cmd' = [cmd EXCEPT ![t] = [op |-> op, at |-> IF op = "bind" THEN "claim" ELSE "lock"]]
        /\ UNCHANGED <<rows, turn, disk, reactor>>
    BY <1>1 DEF Submit
  <2>3. \A u \in Threads \ {t} : cmd'[u] = cmd[u]
    BY <2>2 DEF CleanupInv, TypeOK
  <2> QED
    BY <2>1, <2>2, <2>3 DEF StatusFollows, AbsentIsUnused, rows, disk, reactor
<1>2. CASE Turn(t)
  <2>1. status[t] # "absent"
    BY <1>2 DEF Turn, SendTurn, RunTurn, EndTurn, Writing, AbsentIsUnused
  <2>2. /\ \A u \in Threads \ {t} : turn'[u] = turn[u]
        /\ authors' \in {authors, {}, authors \cup {t}}
    BY <1>2 DEF Turn, SendTurn, RunTurn, EndTurn, disk, CleanupInv, TypeOK
  <2>3. UNCHANGED <<rows, cmd, reactor>>
    BY <1>2 DEF Turn, SendTurn, RunTurn, EndTurn
  <2> QED
    BY <2>1, <2>2, <2>3 DEF StatusFollows, AbsentIsUnused, rows, reactor
<1>3. CASE Fork(t)
  <2>1. /\ status' = [status EXCEPT ![t] = "live"] /\ status[t] = "absent"
        /\ bound' = [bound EXCEPT ![t] = bound[Source]]
        /\ UNCHANGED <<turn, cmd, disk, reactor>>
    BY <1>3 DEF Fork
  <2> QED
    BY <2>1 DEF StatusFollows, AbsentIsUnused, disk, reactor, CleanupInv, TypeOK
<1> QED
  BY <1>1, <1>2, <1>3

LEMMA ReactorRecords ==
  ASSUME CleanupInv, Records,
         \/ \E t \in Threads : DueSweep(t) \/ Retry(t) \/ Keep(t) \/ DiscoverIdle(t) \/ DiscoverArchived(t)
         \/ FileIdle \/ Lifecycle \/ BootPrune \/ UNCHANGED vars
  PROVE  StatusFollows /\ CandidateExists' /\ NothingManual'
<1> AbsentIsUnused /\ TypeOK
  BY DEF CleanupInv, Records
<1>1. UNCHANGED <<status, cmd>> /\ authors' \in {authors, {}}
  BY DEF DueSweep, Retry, Keep, DiscoverIdle, DiscoverArchived, FileIdle, Lifecycle, HandleArchived,
         HandleUnarchived, RestoreUnarchived, Unbind, HandleDeleted, BootPrune, vars, rows, disk
<1>2. \A u \in Threads : turn[u] = "idle" => turn'[u] = "idle"
  BY DEF DueSweep, Retry, Keep, DiscoverIdle, DiscoverArchived, FileIdle, Lifecycle, HandleArchived,
         HandleUnarchived, RestoreUnarchived, Unbind, HandleDeleted, BootPrune, vars, Stopped
<1>3. \A u \in Threads : ~bound[u] => ~bound'[u]
  BY DEF DueSweep, Retry, Keep, DiscoverIdle, DiscoverArchived, FileIdle, Lifecycle, HandleArchived,
         HandleUnarchived, RestoreUnarchived, Unbind, HandleDeleted, BootPrune, vars, rows, TypeOK
<1>4. CandidateExists'
  <2>1. CASE \E t \in Threads : DiscoverIdle(t)
    BY <1>1, <2>1 DEF DiscoverIdle, Eligible, Live, CandidateExists
  <2>2. CASE ~\E t \in Threads : DiscoverIdle(t)
    <3>1. candidate' \in {candidate, NoThread}
      BY <2>2 DEF DueSweep, Retry, Keep, DiscoverArchived, FileIdle, Lifecycle, HandleArchived,
         HandleUnarchived, RestoreUnarchived, Unbind, HandleDeleted, BootPrune, vars, reactor
    <3> QED
      BY <1>1, <3>1, WorktreeConstants DEF CandidateExists, Records
  <2> QED
    BY <2>1, <2>2
<1>5. NothingManual'
  BY DEF DueSweep, Retry, Keep, DiscoverIdle, DiscoverArchived, FileIdle, Lifecycle, HandleArchived,
         HandleUnarchived, RestoreUnarchived, Unbind, HandleDeleted, BootPrune, vars, reactor,
         Records, NothingManual
<1>6. StatusFollows
  BY <1>1, <1>2, <1>3 DEF StatusFollows, AbsentIsUnused
<1> QED
  BY <1>4, <1>5, <1>6

LEMMA WorkerRecords ==
  ASSUME CleanupInv, Records, Cleanup \/ StepFails
  PROVE  StatusFollows /\ CandidateExists' /\ NothingManual'
<1> AbsentIsUnused /\ TypeOK
  BY DEF CleanupInv, Records
<1>1. UNCHANGED <<rows, cmd, candidate>> /\ authors' \in {authors, {}}
  BY DEF Cleanup, Reconcile, Reserve, TryReserve, Teardown, Preflight, CheckClean, Detach, Prune,
         SettleOwner, Recover, StepFails, Keeps, disk, reactor
<1>2. \A u \in Threads : turn[u] = "idle" => turn'[u] = "idle"
  BY DEF Cleanup, Reconcile, Reserve, TryReserve, Teardown, Preflight, CheckClean, Detach, Prune,
         SettleOwner, Recover, StepFails, Stopped
<1>3. manual' \subseteq manual
  BY DEF Cleanup, Reconcile, DoneAt, Starting, Reserve, TryReserve, Teardown, Preflight, CheckClean,
         Failed, Detach, Prune, SettleOwner, Recover, StepFails, Done, Goto, reactor
<1>4. StatusFollows
  BY <1>1, <1>2 DEF StatusFollows, AbsentIsUnused, rows
<1> QED
  BY <1>1, <1>3, <1>4 DEF Records, CandidateExists, NothingManual, rows

LEMMA RecordsStep ==
  ASSUME CleanupInv, Records, [Next]_vars
  PROVE  Records'
<1>1. ASSUME NEW t \in Threads,
             Command(t) \/ (\E op \in Ops : Submit(t, op)) \/ Turn(t) \/ Fork(t)
      PROVE  Records'
  <2>1. StatusFollows /\ UNCHANGED <<candidate, manual>>
    BY <1>1, CommandRecords, ClientRecords
  <2>2. CandidateExists' /\ NothingManual'
    BY <2>1 DEF Records, CandidateExists, NothingManual, StatusFollows
  <2> QED
    BY <1>1, <2>1, <2>2, CommandFollows, RecordsFollow
<1>2. CASE \/ \E t \in Threads : DueSweep(t) \/ Retry(t) \/ Keep(t) \/ DiscoverIdle(t)
                                  \/ DiscoverArchived(t)
           \/ FileIdle \/ Lifecycle \/ BootPrune \/ UNCHANGED vars
  BY <1>2, ReactorRecords, ReactorFollows, RecordsFollow
<1>3. CASE Cleanup \/ StepFails
  BY <1>3, WorkerRecords, WorkerFollows, RecordsFollow
<1>4. CASE Crash
  <2>1. StatusFollows
    BY <1>4 DEF Crash, StatusFollows, CleanupInv, TypeOK, Records, AbsentIsUnused, disk
  <2>2. CandidateExists' /\ NothingManual'
    BY <1>4, WorktreeConstants DEF Crash, CandidateExists, NothingManual
  <2> QED
    BY <1>4, <2>1, <2>2, ReactorFollows, RecordsFollow
<1> QED
  BY <1>1, <1>2, <1>3, <1>4 DEF Next

-----------------------------------------------------------------------------
(* From the last look to the rename.                                        *)

Looked == step \in {"clean", "detach"}

\* Nobody becomes a user of the path, but as a new fork, and no user begins a turn.
UsersStay ==
  /\ \A u \in Threads : User(u)' =>
       (User(u) \/ status[u] = "absent") /\ (turn[u] = "idle" => turn'[u] = "idle")
  /\ \A u \in authors' : u \in authors \/ turn[u] = "sending"

\* Nor is the subject of the cleanup reopened on the path.
SubjectStays ==
  ~Live(subject) \/ (~bound[subject] /\ ~Moving(subject)) =>
    (~Live(subject) \/ (~bound[subject] /\ ~Moving(subject)))'

LEMMA WhileLooked ==
  ASSUME CleanupInv, Looked
  PROVE  /\ subject \in Threads /\ reserved = subject /\ CleanupPending
         /\ job[subject].state = "removing"
BY WorktreeConstants DEF CleanupInv, WorkerHoldsPath, ReservationsMatchJobs, CleanupPending, Looked

LEMMA CommandStays ==
  ASSUME PathInv, Looked, NEW t \in Threads, Command(t)
  PROVE  UsersStay /\ SubjectStays
<1> /\ TypeOK /\ cmd \in [Threads -> Commands] /\ bound \in [Threads -> BOOLEAN]
    /\ status \in [Threads -> {"absent", "live", "archived", "deleted", "gone"}]
    /\ turn \in [Threads -> {"idle", "pending", "sending", "running"}]
    /\ subject \in Threads /\ CleanupPending /\ Admission
  BY WhileLooked DEF PathInv, CleanupInv, TypeOK
<1>1. CASE TakeLock(t)
  <2>1. UNCHANGED <<rows, turn, disk, subject>>
    BY <1>1 DEF TakeLock, worker
  <2>2. UsersStay
    BY <2>1 DEF UsersStay, User, Live, rows, disk
  <2>3. PICK at : cmd' = [cmd EXCEPT ![t].at = at] /\ (at = "commit" => cmd[t].op # "handoff")
    BY <1>1 DEF TakeLock
  <2>4. /\ cmd'[t].op = cmd[t].op /\ cmd'[t].at = at /\ \A u \in Threads \ {t} : cmd'[u] = cmd[u]
    BY <2>3, GoesOn
  <2>5. cmd[t].op # "bind"
    BY <1>1 DEF TakeLock, Admission, MovesTakeNoLock
  <2>6. Moving(subject)' => Moving(subject)
    BY <2>1, <2>3, <2>4, <2>5 DEF Moving, worker
  <2> QED
    BY <2>1, <2>2, <2>6 DEF SubjectStays, Live, rows
<1>2. CASE AdmitStart(t) \/ RestoreForStart(t) \/ Claim(t) \/ CheckPending(t)
  <2>1. UNCHANGED <<rows, turn, subject>> /\ authors' \in {authors, {}}
    BY <1>2 DEF AdmitStart, RestoreForStart, Claim, CheckPending, worker, disk
  <2>2. UsersStay
    BY <2>1 DEF UsersStay, User, Live, rows
  <2>3. Answer(t) \/ \E at \in {"claim", "restore", "check"} : Advance(t, at)
    BY <1>2 DEF AdmitStart, RestoreForStart, Claim, CheckPending
  <2>4. \/ cmd'[t].op = "none"
        \/ cmd'[t].at \in {"claim", "restore", "check"}
    BY <2>3, Answered, GoesOn DEF Advance
  <2>5. \A u \in Threads \ {t} : cmd'[u] = cmd[u]
    BY <2>3, Answered, GoesOn DEF Advance
  <2>6. Moving(subject)' => Moving(subject)
    BY <2>1, <2>4, <2>5 DEF Moving
  <2> QED
    BY <2>1, <2>2, <2>6 DEF SubjectStays, Live, rows
<1>3. CASE CommitStart(t)
  <2>1. cmd[t].op = "start" /\ cmd[t].at = "commit"
    BY <1>3 DEF CommitStart
  <2> QED
    BY <2>1 DEF Admission, StartsAreHeldOff, CleanupPending
<1>4. ASSUME Answer(t)
      PROVE  /\ Moving(subject)' => subject' # t
             /\ subject' = subject => (Moving(subject)' => Moving(subject))
  BY <1>4, Answered DEF Moving
<1>5. CASE CommitMove(t)
  <2>1. /\ UNCHANGED <<status, turn, disk, subject>> /\ Answer(t)
        /\ cmd[t].op \in {"bind", "handoff"} /\ cmd[t].at = "commit"
    BY <1>5 DEF CommitMove, worker
  <2>2. \/ UNCHANGED <<bound, late>>
        \/ bound' = [bound EXCEPT ![t] = TRUE] /\ late' = late \cup {t}
    BY <1>5 DEF CommitMove
  <2>3. UsersStay
    BY <2>1, <2>2 DEF UsersStay, User, Live, disk
  <2>4. SubjectStays
    <3>1. CASE subject = t
      BY <2>1, <3>1 DEF SubjectStays, Live, Moving
    <3>2. CASE subject # t
      BY <1>4, <2>1, <2>2, <3>2 DEF SubjectStays, Live
    <3> QED
      BY <3>1, <3>2
  <2> QED
    BY <2>3, <2>4
<1>6. CASE CommitUnarchive(t)
  <2>1. UNCHANGED <<bound, late, disk, subject>> /\ Answer(t)
    BY <1>6 DEF CommitUnarchive, worker
  <2>2. \/ UNCHANGED <<status, turn>>
        \/ /\ ~bound[t] /\ (status' = status \/ status' = [status EXCEPT ![t] = "live"])
           /\ turn' = turn \/ turn' = [turn EXCEPT ![t] = "idle"]
    BY <1>6 DEF CommitUnarchive, ReopenPending
  <2>3. UsersStay
    BY <2>1, <2>2 DEF UsersStay, User, Live, disk
  <2> QED
    BY <1>4, <2>1, <2>2, <2>3 DEF SubjectStays, Live
<1>7. CASE CommitArchive(t) \/ CommitDelete(t)
  <2>1. UNCHANGED <<bound, late, turn, disk, subject>> /\ Answer(t)
    BY <1>7 DEF CommitArchive, CommitDelete, worker
  <2>2. \A u \in Threads : status'[u] = "live" => status[u] = "live"
    BY <1>7 DEF CommitArchive, CommitDelete
  <2>3. UsersStay
    BY <2>1, <2>2 DEF UsersStay, User, Live, disk
  <2> QED
    BY <1>4, <2>1, <2>2, <2>3 DEF SubjectStays, Live
<1> QED
  BY <1>1, <1>2, <1>3, <1>5, <1>6, <1>7 DEF Command

LEMMA ClientStays ==
  ASSUME PathInv, Looked, NEW t \in Threads,
         (\E op \in Ops : Submit(t, op)) \/ Turn(t) \/ Fork(t)
  PROVE  UsersStay /\ SubjectStays
<1> /\ TypeOK /\ cmd \in [Threads -> Commands] /\ subject \in Threads
    /\ job[subject].state = "removing" /\ AbsentIsUnused
  BY WhileLooked DEF PathInv, CleanupInv, TypeOK, Records
<1>1. ASSUME NEW op \in Ops, Submit(t, op)
      PROVE  UsersStay /\ SubjectStays
  <2>1. /\ cmd' = [cmd EXCEPT ![t] = [op |-> op, at |-> IF op = "bind" THEN "claim" ELSE "lock"]]
        /\ UNCHANGED <<rows, turn, disk, subject>>
    BY <1>1 DEF Submit, worker
  <2>2. cmd'[t].at # "commit" /\ \A u \in Threads \ {t} : cmd'[u] = cmd[u]
    BY <2>1
  <2>3. Moving(subject)' => Moving(subject)
    BY <2>1, <2>2 DEF Moving
  <2> QED
    BY <2>1, <2>3 DEF UsersStay, SubjectStays, User, Live, rows, disk
<1>2. CASE Turn(t)
  <2>1. UNCHANGED <<rows, cmd, subject>>
    BY <1>2 DEF Turn, SendTurn, RunTurn, EndTurn, worker
  <2>2. /\ \A u \in Threads : turn[u] = "idle" => turn'[u] = "idle"
        /\ \A u \in authors' : u \in authors \/ turn[u] = "sending"
    BY <1>2 DEF Turn, SendTurn, RunTurn, EndTurn, Writing, TypeOK, disk
  <2> QED
    BY <2>1, <2>2 DEF UsersStay, SubjectStays, User, Live, Moving, rows
<1>3. CASE Fork(t)
  <2>1. /\ status' = [status EXCEPT ![t] = "live"] /\ status[t] = "absent"
        /\ bound' = [bound EXCEPT ![t] = bound[Source]]
        /\ UNCHANGED <<late, turn, cmd, disk, subject>>
    BY <1>3 DEF Fork, worker
  <2>2. subject # t
    BY <2>1 DEF AbsentIsUnused, NoJob
  <2> QED
    BY <2>1, <2>2 DEF UsersStay, SubjectStays, User, Live, Moving, disk, TypeOK
<1> QED
  BY <1>1, <1>2, <1>3

LEMMA ReactorStays ==
  ASSUME PathInv, Looked,
         \/ \E t \in Threads : DueSweep(t) \/ Retry(t) \/ Keep(t) \/ DiscoverIdle(t) \/ DiscoverArchived(t)
         \/ FileIdle \/ Lifecycle \/ BootPrune \/ UNCHANGED vars
  PROVE  UsersStay /\ SubjectStays
<1> TypeOK /\ subject \in Threads
  BY WhileLooked DEF PathInv, CleanupInv
<1>1. UNCHANGED <<status, late, cmd, subject>> /\ authors' \in {authors, {}}
  BY DEF DueSweep, Retry, Keep, DiscoverIdle, DiscoverArchived, FileIdle, Lifecycle, HandleArchived,
         HandleUnarchived, RestoreUnarchived, Unbind, HandleDeleted, BootPrune, vars, rows, disk, worker
<1>2. \A u \in Threads : turn[u] = "idle" => turn'[u] = "idle"
  BY DEF DueSweep, Retry, Keep, DiscoverIdle, DiscoverArchived, FileIdle, Lifecycle, HandleArchived,
         HandleUnarchived, RestoreUnarchived, Unbind, HandleDeleted, BootPrune, vars, Stopped
<1>3. \A u \in Threads : ~bound[u] => ~bound'[u]
  BY DEF DueSweep, Retry, Keep, DiscoverIdle, DiscoverArchived, FileIdle, Lifecycle, HandleArchived,
         HandleUnarchived, RestoreUnarchived, Unbind, HandleDeleted, BootPrune, vars, rows, TypeOK
<1> QED
  BY <1>1, <1>2, <1>3 DEF UsersStay, SubjectStays, User, Live, Moving

\* Where nobody joins, the path stays free of turns and of uncommitted work.
LEMMA LookedKept ==
  ASSUME PathInv, Looked, UsersStay, SubjectStays, JobsFollow, TypeOK', UNCHANGED <<step, subject>>
  PROVE  UsersAreIdle' /\ UsersWorkIsKept' /\ NotReopened'
<1>1. subject \in Threads /\ job'[subject] = job[subject]
  BY WhileLooked DEF PathInv, JobsFollow
<1>2. NotReopened'
  BY <1>1 DEF PathInv, NotReopened, SubjectStays, Looked, Live, Moving
<1>3. UsersAreIdle'
  BY DEF PathInv, UsersAreIdle, UsersStay, Looked, Records, AbsentIsUnused
<1>4. UsersWorkIsKept'
  <2>1. SUFFICES ASSUME ~ManualReclaim, step = "detach", NEW u \in authors', User(u)'
                 PROVE  FALSE
    BY DEF UsersWorkIsKept
  <2>2. u \in Threads
    BY DEF TypeOK
  <2> QED
    BY <2>1, <2>2 DEF PathInv, UsersAreIdle, UsersWorkIsKept, UsersStay, Records, AbsentIsUnused
<1> QED
  BY <1>2, <1>3, <1>4

\* The last look, and git's answer.
LEMMA LooksAround ==
  ASSUME PathInv, Preflight, step' = "clean"
  PROVE  UsersAreIdle' /\ UsersWorkIsKept' /\ NotReopened'
<1>1. subject \in Threads /\ TypeOK
  BY DEF PathInv, CleanupInv, WorkerHoldsPath, Preflight
<1>2. /\ ~Unusable(subject) /\ (job[subject].source = "idle" => Eligible(subject))
      /\ UNCHANGED <<rows, turn, job, subject>>
  BY DEF Preflight, Done, Goto, jobs
<1>3. \A u \in Threads : Live(u) /\ bound[u] => u = subject
  BY <1>2 DEF Unusable, ActiveOwner
<1>4. job[subject].source \in {"archive", "delete"} => ~Live(subject)
  BY <1>1, <1>2 DEF Unusable, Live, PathInv, Records, DeletedForGood
<1>5. ~ManualReclaim /\ Live(subject) => turn[subject] = "idle"
  <2>1. job[subject].source \in {"archive", "idle", "delete"}
    <3>1. job[subject].state = "removing" /\ job[subject] \in Jobs
      BY <1>1 DEF PathInv, CleanupInv, WorkerHoldsPath, ReservationsMatchJobs, Preflight, TypeOK
    <3> QED
      BY <3>1 DEF Jobs, NoJob
  <2> QED
    BY <1>2, <1>4, <2>1 DEF Eligible, PathInv, Records, NothingManual
<1>6. UsersAreIdle'
  BY <1>2, <1>3, <1>5 DEF UsersAreIdle, User, Live, rows
<1>7. UsersWorkIsKept' /\ NotReopened'
  BY <1>2, <1>4 DEF UsersWorkIsKept, NotReopened, Live, rows
<1> QED
  BY <1>6, <1>7

LEMMA GitAnswers ==
  ASSUME PathInv, CheckClean, step' = "detach"
  PROVE  UsersAreIdle' /\ UsersWorkIsKept' /\ NotReopened'
<1>1. /\ Clean /\ step = "clean" /\ UNCHANGED <<rows, turn, cmd, job, subject, authors>>
  BY DEF CheckClean, Failed, Done, Goto, jobs, disk
<1>2. UsersAreIdle'
  BY <1>1 DEF PathInv, UsersAreIdle, User, Live, rows
<1>3. UsersWorkIsKept'
  BY <1>1 DEF UsersWorkIsKept, Clean
<1>4. NotReopened'
  BY <1>1 DEF PathInv, NotReopened, Live, Moving, rows
<1> QED
  BY <1>2, <1>3, <1>4

LEMMA LookedStep ==
  ASSUME PathInv, [Next]_vars
  PROVE  UsersAreIdle' /\ UsersWorkIsKept' /\ NotReopened'
<1>t. TypeOK'
  BY InvariantStep DEF PathInv, CleanupInv
<1>0. CASE ~Looked'
  BY <1>0 DEF Looked, UsersAreIdle, UsersWorkIsKept, NotReopened
<1>1. CASE Preflight
  BY <1>0, <1>1, LooksAround DEF Preflight, Done, Goto, Looked
<1>2. CASE CheckClean
  BY <1>0, <1>2, GitAnswers DEF CheckClean, Failed, Done, Goto, Looked
<1>3. ASSUME \/ \E t \in Threads : Reconcile(t)
             \/ Reserve \/ TryReserve \/ Teardown \/ Detach \/ Prune \/ SettleOwner \/ Recover
             \/ StepFails \/ Crash
      PROVE  ~Looked'
  BY <1>3 DEF Reconcile, DoneAt, Starting, Reserve, TryReserve, Teardown, Detach, Prune, SettleOwner,
              Recover, StepFails, Failed, Crash, Done, Goto, Looked
<1>4. ASSUME NEW t \in Threads,
             Command(t) \/ (\E op \in Ops : Submit(t, op)) \/ Turn(t) \/ Fork(t)
      PROVE  UsersAreIdle' /\ UsersWorkIsKept' /\ NotReopened'
  <2>1. UNCHANGED <<step, subject>>
    BY <1>4 DEF Command, TakeLock, AdmitStart, RestoreForStart, Claim, CheckPending, CommitStart,
                CommitMove, CommitArchive, CommitUnarchive, CommitDelete, Submit, Turn, SendTurn,
                RunTurn, EndTurn, Fork, worker
  <2>2. JobsFollow
    BY <1>4, CommandFollows DEF PathInv
  <2>3. CASE Looked
    <3>1. UsersStay /\ SubjectStays
      BY <1>4, <2>3, CommandStays, ClientStays
    <3> QED
      BY <1>t, <2>1, <2>2, <2>3, <3>1, LookedKept
  <2> QED
    BY <1>0, <2>1, <2>3 DEF Looked
<1>5. CASE \/ \E t \in Threads : DueSweep(t) \/ Retry(t) \/ Keep(t) \/ DiscoverIdle(t)
                                  \/ DiscoverArchived(t)
           \/ FileIdle \/ Lifecycle \/ BootPrune \/ UNCHANGED vars
  <2>1. UNCHANGED <<step, subject>>
    BY <1>5 DEF DueSweep, Retry, Keep, DiscoverIdle, DiscoverArchived, FileIdle, Lifecycle,
                HandleArchived, HandleUnarchived, RestoreUnarchived, Unbind, HandleDeleted, BootPrune,
                vars, worker
  <2>2. JobsFollow
    BY <1>5, ReactorFollows DEF PathInv
  <2>3. CASE Looked
    <3>1. UsersStay /\ SubjectStays
      BY <1>5, <2>3, ReactorStays
    <3> QED
      BY <1>t, <2>1, <2>2, <2>3, <3>1, LookedKept
  <2> QED
    BY <1>0, <2>1, <2>3 DEF Looked
<1> QED
  BY <1>0, <1>1, <1>2, <1>3, <1>4, <1>5 DEF Next, Cleanup

LEMMA PathInit == Init => PathInv
<1> SUFFICES ASSUME Init PROVE PathInv
  OBVIOUS
<1>1. Admission
  BY DEF Init, Admission, StartsHoldCheckout, StartsAreHeldOff, MovesTakeNoLock, NoCmd
<1>2. Records
  BY WorktreeConstants DEF Init, Records, AbsentIsUnused, CandidateExists, DeletedForGood,
                           NothingManual, NoJob
<1>3. UsersAreIdle /\ UsersWorkIsKept /\ NotReopened
  BY DEF Init, UsersAreIdle, UsersWorkIsKept, NotReopened
<1> QED
  BY <1>1, <1>2, <1>3, InitHolds DEF PathInv

LEMMA PathInvStep == PathInv /\ [Next]_vars => PathInv'
<1> SUFFICES ASSUME PathInv, [Next]_vars PROVE PathInv'
  OBVIOUS
<1>1. CleanupInv' /\ Admission' /\ Records'
  BY InvariantStep, AdmissionStep, RecordsStep DEF PathInv
<1> QED
  BY <1>1, LookedStep DEF PathInv

\* Turn starts are held off from the reservation on, and from the last look of
\* the cleanup to the rename nobody else comes to use the path.
THEOREM PathInvariance == Spec => []PathInv
  BY PathInit, PathInvStep, PTL DEF Spec

\* Only the rename takes a checkout away.
LEMMA OnlyDetach ==
  ASSUME [Next]_vars, Detaches
  PROVE  Detach
<1>1. ASSUME NEW t \in Threads, Command(t) \/ (\E op \in Ops : Submit(t, op)) \/ Turn(t) \/ Fork(t)
      PROVE  FALSE
  BY <1>1 DEF Detaches, Command, TakeLock, AdmitStart, RestoreForStart, Claim, CheckPending,
              CommitStart, CommitMove, CommitArchive, CommitUnarchive, CommitDelete, Submit, Turn,
              SendTurn, RunTurn, EndTurn, Fork, disk
<1>2. ASSUME \/ \E t \in Threads : DueSweep(t) \/ Retry(t) \/ Keep(t) \/ DiscoverIdle(t)
                                    \/ DiscoverArchived(t)
             \/ FileIdle \/ Lifecycle \/ Crash \/ BootPrune \/ UNCHANGED vars
      PROVE  FALSE
  BY <1>2 DEF Detaches, DueSweep, Retry, Keep, DiscoverIdle, DiscoverArchived, FileIdle, Lifecycle,
              HandleArchived, HandleUnarchived, RestoreUnarchived, Unbind, HandleDeleted, Crash,
              BootPrune, vars, disk
<1>3. ASSUME \/ \E t \in Threads : Reconcile(t)
             \/ Reserve \/ TryReserve \/ Teardown \/ Preflight \/ CheckClean \/ Prune \/ SettleOwner
             \/ Recover \/ StepFails
      PROVE  FALSE
  BY <1>3 DEF Detaches, Reconcile, Reserve, TryReserve, Teardown, Preflight, CheckClean, Prune,
              SettleOwner, Recover, StepFails, disk
<1> QED
  BY <1>1, <1>2, <1>3 DEF Next, Cleanup

\* Unless the user asks for a cleanup by hand: no checkout is renamed from under
\* a live chat whose turn is accepted or runs, unless the chat moved to the path
\* by a late commit (ThreadDeletionReactor.ts, runReservedCleanup;
\* workspaceAdmission.ts).
THEOREM TurnsKeepTheirCheckout ==
  ASSUME ManualReclaim = FALSE
  PROVE  Spec => LiveTurnKeepsCheckout
<1>1. PathInv /\ [Next]_vars =>
        [Detaches => \A t \in Threads \ late : Live(t) /\ bound[t] => turn[t] = "idle"]_vars
  BY OnlyDetach DEF PathInv, UsersAreIdle, User, Detach
<1> QED
  BY <1>1, PathInvariance, PTL DEF Spec, LiveTurnKeepsCheckout

\* Nor, under the same conditions, from over the uncommitted work of a live chat
\* (ThreadDeletionReactor.ts, the clean check before the rename).
THEOREM WorkIsKept ==
  ASSUME ManualReclaim = FALSE
  PROVE  Spec => LiveWorkIsKept
<1>1. PathInv /\ [Next]_vars =>
        [Detaches => \A t \in authors \ late : ~(Live(t) /\ bound[t])]_vars
  BY OnlyDetach DEF PathInv, UsersWorkIsKept, User, Detach
<1> QED
  BY <1>1, PathInvariance, PTL DEF Spec, LiveWorkIsKept

\* And never from under a chat that was reopened after its cleanup was filed,
\* whoever asks for it.
THEOREM ReopenedKeep == Spec => ReopenedKeepsCheckout
<1>1. PathInv /\ [Next]_vars =>
        [Detaches /\ job[subject].source \in {"archive", "delete"}
           => ~(Live(subject) /\ bound[subject])]_vars
  BY OnlyDetach DEF PathInv, NotReopened, Detach
<1> QED
  BY <1>1, PathInvariance, PTL DEF Spec, ReopenedKeepsCheckout
===============================================================================
