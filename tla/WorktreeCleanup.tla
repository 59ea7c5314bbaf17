--------------------------- MODULE WorktreeCleanup ---------------------------
(***************************************************************************)
(* Who may use a git worktree, and when it is removed: the admission of    *)
(* commands (apps/server/src/orchestration/workspaceAdmission.ts and the   *)
(* locks OrchestrationEngine takes around it), the durable cleanup jobs    *)
(* (persistence/Layers/WorktreeCleanupJobs.ts) and the reactor that        *)
(* removes a checkout (orchestration/Layers/ThreadDeletionReactor.ts).     *)
(*                                                                         *)
(* The model follows one worktree.  A turn is admitted under the lock of   *)
(* its checkout: it cancels an idle cleanup, is refused while a removal is *)
(* reserved, restores a checkout that was reclaimed, and claims ownership. *)
(* A cleanup reserves the path under the worktree lock and the checkout    *)
(* lock, stops the sessions, looks again at who uses the path, asks git    *)
(* whether it is clean, and detaches it under the lock of the project      *)
(* root.  Commands of a thread are serial, those of two threads are not.   *)
(* The process may stop anywhere; the rows, the directory and the claim of *)
(* ownership survive.                                                      *)
(*                                                                         *)
(* Abstractions.  One project, one worktree with its branch, which nobody  *)
(* switches; a thread not bound to it works elsewhere.  The generation of  *)
(* a claim is left out: an owner that changed is a stale one.  A job's     *)
(* backoff is time, and time passes.  A chat is old enough for the idle    *)
(* sweep only when no turn of it is under way.  The worker may take the    *)
(* jobs in any order.  Terminals are left out, and each lifecycle event is *)
(* handled in one step, but for the restore of an unarchived chat.         *)
(***************************************************************************)
EXTENDS Integers, Sequences, FiniteSets

CONSTANTS
  Threads,
  Source,         \* the thread the others may be forks of
  ManualReclaim,  \* the user may press "Clean up now" on a chat
  MaxCommands,    \* bound on the commands of the clients
  MaxFailures,    \* bound on the steps that fail
  MaxCrashes      \* bound on the stops of the process

NoThread == "none"
Worker == "worker"   \* the cleanup worker, as the holder of a lock

ASSUME WorktreeConstants ==
  /\ IsFiniteSet(Threads) /\ Source \in Threads
  /\ NoThread \notin Threads /\ Worker \notin Threads
  /\ ManualReclaim \in BOOLEAN
  /\ MaxCommands \in Nat /\ MaxFailures \in Nat /\ MaxCrashes \in Nat

VARIABLES
  status,     \* of a thread: not yet forked (absent), live, archived, a tombstone
              \* in the read model (deleted), or forgotten at a restart (gone)
  bound,      \* durable: the thread's worktreePath is the worktree
  late,       \* history: the threads whose last move to the path was committed while
              \* it was reserved, and who had no turn accepted since
  forks,      \* durable: the threads forked off Source
  turn,       \* the turn of a thread
  cmd,        \* the command a thread's shard is handling
  worktreeLock, checkoutLock, rootLock,   \* their holders
  job,        \* durable: the cleanup job of a thread
  reserved,   \* durable: the thread whose cleanup has reserved the path
  checkout,   \* durable: present, unlinked (renamed, still registered) or absent
  authors,    \* durable: the threads whose uncommitted work is in the checkout
  owner,      \* durable: the thread that has claimed the checkout
  step,       \* where the cleanup worker is
  subject,    \* the thread whose cleanup it runs
  queued,     \* queuedWorktreeCleanups, the one being run included
  events,     \* the lifecycle events the reactor has not begun
  unarchiving,\* the unarchive event it is in the middle of, if any
  candidate,  \* a thread a discovery found eligible and has no job for yet
  manual,     \* manualIdleReclaims
  commands, failures, crashes

vars == <<status, bound, late, forks, turn, cmd, worktreeLock, checkoutLock, rootLock, job,
          reserved, checkout, authors, owner, step, subject, queued, events, unarchiving,
          candidate, manual, commands, failures, crashes>>
rows   == <<status, bound, late, forks>>
locks  == <<worktreeLock, checkoutLock, rootLock>>
jobs   == <<job, reserved>>
disk   == <<checkout, authors>>
worker == <<step, subject, queued>>
reactor == <<events, unarchiving, candidate, manual>>
bounds == <<commands, failures, crashes>>

Ops == {"start", "bind", "handoff", "archive", "unarchive", "delete", "purge"}
NoCmd == [op |-> "none", at |-> "none"]
NoJob == [state |-> "none", source |-> "none"]
NoEvent == [thread |-> NoThread, at |-> "none"]
Commands == [op : Ops, at : {"lock", "admit", "restore", "claim", "check", "commit"}] \cup {NoCmd}
Jobs == [state : {"waiting", "removing", "attention", "completed", "cancelled"},
         source : {"archive", "idle", "delete"}] \cup {NoJob}
Steps == {"idle", "reconcile", "reserve", "reserving", "teardown", "preflight", "clean",
          "detach", "prune", "settle", "recover"}

Live(t) == status[t] = "live"
\* The threads of t's family, as lineageThreadIds finds them.
Family(t) == IF t = Source \/ t \in forks THEN (forks \cup {Source}) \ {t} ELSE {}
\* collectThreadSubtree: the forks of a thread hang below it.
Subtree(t) == IF t = Source THEN forks \cup {t} ELSE {t}
\* findCanonicalActiveWorktreeOwner: another live thread is bound to the path.
ActiveOwner(t) == \E u \in Threads \ {t} : Live(u) /\ bound[u]
\* findCheckoutRelatives: live members of the family on the same checkout.
Relatives(t) == {u \in Family(t) : Live(u) /\ bound[u]}
\* threadIsBusy: the provider has reported the turn.
Busy(t) == turn[t] = "running"
Writing(t) == turn[t] \in {"sending", "running"}

-----------------------------------------------------------------------------
(* The cleanup jobs and their reservations, one transaction each.           *)

\* The upsert forgets whose intent it is.
FaultEnqueuedNoSource(js, t, source, mayReset) ==
  [js EXCEPT ![t] = IF js[t].state = "removing" THEN js[t] ELSE [NoJob EXCEPT !.state = "waiting"]]

\* enqueue: an upsert that leaves a removal in progress alone, and revives a
\* job that is over only when the caller may.
Enqueued(js, t, source, mayReset) ==
  LET state == js[t].state IN
  CASE state \in {"none", "waiting"} -> [js EXCEPT ![t] = [state |-> "waiting", source |-> source]]
    [] state = "removing" -> js
    [] state \in {"cancelled", "completed"} /\ ~mayReset -> js
    [] state = "attention" /\ ~mayReset -> [js EXCEPT ![t].source = source]
    [] OTHER -> [js EXCEPT ![t] = [state |-> "waiting", source |-> source]]

\* cancelByThreadId of every thread of S, and cancelIdleByThreadId.
Cancelled(js, S) ==
  [t \in Threads |-> IF t \in S /\ js[t].state \in {"waiting", "attention"}
                     THEN [js[t] EXCEPT !.state = "cancelled"] ELSE js[t]]
IdleCancelled(js, t) ==
  IF js[t] = [state |-> "waiting", source |-> "idle"] THEN Cancelled(js, {t}) ELSE js

\* The job of t moves to a state.
Moved(js, t, state) == [js EXCEPT ![t].state = state]

\* The job is moved and its reservation left behind.
FaultKeepsReservation(t) == reserved
\* DELETE FROM worktree_cleanup_reservations.
Unreserved(t) == IF reserved = t THEN NoThread ELSE reserved
\* markNeedsAttention, defer, markCompleted, recoverRemoving: the job of t moves
\* to a state and gives its reservation back.
Settle(t, state) ==
  /\ job' = Moved(job, t, state)
  /\ reserved' = Unreserved(t)

-----------------------------------------------------------------------------
(* Commands.                                                                *)

Submit(t, op) ==
  /\ commands < MaxCommands /\ cmd[t] = NoCmd /\ step # "recover"
  /\ CASE op = "start"             -> status[t] \in {"live", "archived"} /\ bound[t]
       [] op \in {"bind", "handoff"} -> Live(t) /\ ~bound[t] /\ checkout = "present"
       [] op = "archive"           -> Live(t)
       [] op = "unarchive"         -> status[t] = "archived"
       [] op \in {"delete", "purge"} -> status[t] \in {"live", "archived"}
  /\ cmd' = [cmd EXCEPT ![t] = [op |-> op, at |-> IF op = "bind" THEN "claim" ELSE "lock"]]
  /\ commands' = commands + 1
  /\ UNCHANGED <<rows, turn, locks, jobs, disk, owner, worker, reactor, failures, crashes>>

\* A refused command leaves its lock taken.
FaultAnswerKeepsLocks(t) == cmd' = [cmd EXCEPT ![t] = NoCmd] /\ UNCHANGED locks
Answer(t) ==
  /\ cmd' = [cmd EXCEPT ![t] = NoCmd]
  /\ worktreeLock' = IF worktreeLock = t THEN NoThread ELSE worktreeLock
  /\ checkoutLock' = IF checkoutLock = t THEN NoThread ELSE checkoutLock
  /\ UNCHANGED rootLock
Advance(t, at) == cmd' = [cmd EXCEPT ![t].at = at] /\ UNCHANGED locks

TakeLock(t) ==
  /\ cmd[t].at = "lock"
  /\ IF cmd[t].op = "start"
     THEN /\ checkoutLock = NoThread /\ checkoutLock' = t
          /\ cmd' = [cmd EXCEPT ![t].at = "admit"]
          /\ UNCHANGED worktreeLock
     ELSE /\ worktreeLock = NoThread /\ worktreeLock' = t
          /\ cmd' = [cmd EXCEPT ![t].at = IF cmd[t].op = "handoff" THEN "claim" ELSE "commit"]
          /\ UNCHANGED checkoutLock
  /\ UNCHANGED <<rows, turn, rootLock, jobs, disk, owner, worker, reactor, bounds>>

\* isWorktreeCleanupPending: the removal of the path is reserved.
CleanupPending == reserved # NoThread

\* A turn of an existing thread withdraws an idle cleanup, and is refused while
\* a removal has reserved the path.
AdmitStart(t) ==
  /\ cmd[t].at = "admit"
  /\ job' = IdleCancelled(job, t)
  /\ IF CleanupPending THEN Answer(t)
     ELSE Advance(t, IF checkout = "present" THEN "claim" ELSE "restore")
  /\ UNCHANGED <<rows, turn, reserved, disk, owner, worker, reactor, bounds>>

\* restoreThreadWorktree: prune, then git worktree add, which refuses a path
\* that has come back in the meantime.
RestoreForStart(t) ==
  /\ cmd[t].at = "restore" /\ rootLock = NoThread
  /\ IF checkout = "present"
     THEN Answer(t) /\ UNCHANGED disk
     ELSE Advance(t, "claim") /\ checkout' = "present" /\ authors' = {}
  /\ UNCHANGED <<rows, turn, jobs, owner, worker, reactor, bounds>>

\* Refused while a relative's turn runs, or when somebody else has claimed the
\* path; relatives take it over from each other.
Claimable(t) == /\ \A u \in Relatives(t) : ~Busy(u)
                /\ owner \in {NoThread, t} \cup Relatives(t)
Claim(t) ==
  /\ cmd[t].at = "claim"
  /\ IF Claimable(t) THEN owner' = t /\ Advance(t, "check")
     ELSE Answer(t) /\ UNCHANGED owner
  /\ UNCHANGED <<rows, turn, jobs, disk, worker, reactor, bounds>>

\* releaseFailedAdmission: a move that fails gives the path it claimed back.
Compensated(t) ==
  IF cmd[t].op \in {"bind", "handoff"} /\ ~bound[t] /\ owner = t THEN NoThread ELSE owner

CheckPending(t) ==
  /\ cmd[t].at = "check"
  /\ IF CleanupPending THEN Answer(t) /\ owner' = Compensated(t)
     ELSE Advance(t, "commit") /\ UNCHANGED owner
  /\ UNCHANGED <<rows, turn, jobs, disk, worker, reactor, bounds>>

\* requireThreadReadyForTurnStart: one turn at a time.
CommitStart(t) ==
  /\ cmd[t] = [op |-> "start", at |-> "commit"]
  /\ IF turn[t] = "idle"
     THEN turn' = [turn EXCEPT ![t] = "pending"] /\ late' = late \ {t}
     ELSE UNCHANGED <<turn, late>>
  /\ Answer(t)
  /\ UNCHANGED <<status, bound, forks, jobs, disk, owner, worker, reactor, bounds>>

\* thread.meta.update binds whatever else is bound; thread.workspace.handoff
\* refuses a path that a live thread is bound to.
CommitMove(t) ==
  /\ cmd[t].at = "commit" /\ cmd[t].op \in {"bind", "handoff"}
  /\ IF cmd[t].op = "handoff" /\ ActiveOwner(t)
     THEN owner' = Compensated(t) /\ UNCHANGED <<bound, late>>
     ELSE /\ bound' = [bound EXCEPT ![t] = TRUE] /\ UNCHANGED owner
          /\ late' = IF CleanupPending THEN late \cup {t} ELSE late \ {t}
  /\ Answer(t)
  /\ UNCHANGED <<status, forks, turn, jobs, disk, worker, reactor, bounds>>

Told(kind, S) ==   \* one event per thread of the subtree, the root first
  LET told(t) == [kind |-> kind[t], thread |-> t]
      rest == S \ {Source}
      tail == IF rest = {} THEN <<>> ELSE <<told(CHOOSE t \in rest : TRUE)>>
  IN  (IF Source \in S THEN <<told(Source)>> ELSE <<>>) \o tail

CommitArchive(t) ==
  /\ cmd[t] = [op |-> "archive", at |-> "commit"]
  /\ LET S == IF Live(t) THEN {u \in Subtree(t) : Live(u)} ELSE {} IN
     /\ status' = [u \in Threads |-> IF u \in S THEN "archived" ELSE status[u]]
     /\ events' = events \o Told([u \in S |-> "archived"], S)
  /\ Answer(t)
  /\ UNCHANGED <<bound, late, forks, turn, jobs, disk, owner, worker, unarchiving, candidate,
                 manual, bounds>>

\* A reopened thread is live although its checkout is being removed.
FaultReopenUnchecked == FALSE

\* cleanupWorktreePath of thread.unarchive, under the worktree lock.
ReopenPending == CleanupPending
\* The projection of thread.unarchived cancels the jobs of the thread and of
\* its path in the transaction, if the thread still has its row; a running
\* session is marked interrupted.
CommitUnarchive(t) ==
  /\ cmd[t] = [op |-> "unarchive", at |-> "commit"]
  /\ IF bound[t] /\ ReopenPending
     THEN UNCHANGED <<status, job, turn, events>>
     ELSE /\ status' = IF status[t] = "archived" THEN [status EXCEPT ![t] = "live"] ELSE status
          /\ job' = IF status[t] = "archived"
                    THEN Cancelled(job, IF bound[t] THEN Threads ELSE {t}) ELSE job
          /\ turn' = IF Busy(t) THEN [turn EXCEPT ![t] = "idle"] ELSE turn
          /\ events' = Append(events, [kind |-> "unarchived", thread |-> t])
  /\ Answer(t)
  /\ UNCHANGED <<bound, late, forks, reserved, disk, owner, worker, unarchiving, candidate, manual, bounds>>

\* thread.delete takes the whole subtree.  With consent to clean up ("purge"), a
\* thread whose path no other live thread uses gets its job in the transaction.
CommitDelete(t) ==
  /\ cmd[t].at = "commit" /\ cmd[t].op \in {"delete", "purge"}
  /\ LET S == {u \in Subtree(t) : status[u] \in {"live", "archived", "deleted"}}
         consent == {u \in S : cmd[t].op = "purge" /\ bound[u] /\ ~ActiveOwner(u)} IN
     /\ status' = [u \in Threads |-> IF u \in S THEN "deleted" ELSE status[u]]
     /\ job' = [u \in Threads |-> IF u \in consent THEN Enqueued(job, u, "delete", TRUE)[u]
                                  ELSE job[u]]
     /\ events' = events \o Told([u \in S |-> IF u \in consent THEN "purged" ELSE "deleted"], S)
  /\ Answer(t)
  /\ UNCHANGED <<bound, late, forks, turn, reserved, disk, owner, worker, unarchiving, candidate,
                 manual, bounds>>

\* thread.fork inherits the worktree; it is not admitted at all.
Fork(t) ==
  /\ status[t] = "absent" /\ status[Source] \in {"live", "archived"}
  /\ status' = [status EXCEPT ![t] = "live"]
  /\ bound' = [bound EXCEPT ![t] = bound[Source]]
  /\ forks' = forks \cup {t}
  /\ UNCHANGED <<late, turn, cmd, locks, jobs, disk, owner, worker, reactor, bounds>>

-----------------------------------------------------------------------------
(* Turns.                                                                   *)

\* assertWorkspaceOwnershipForThread, then the session is bound and the prompt
\* sent.
SendTurn(t) ==
  /\ turn[t] = "pending"
  /\ turn' = [turn EXCEPT ![t] = IF owner = t THEN "sending" ELSE "idle"]
  /\ UNCHANGED <<rows, cmd, locks, jobs, disk, owner, worker, reactor, bounds>>

\* The provider reports the turn, and edits the checkout.
RunTurn(t) ==
  /\ turn[t] = "sending"
  /\ turn' = [turn EXCEPT ![t] = "running"]
  /\ authors' = IF checkout = "present" THEN authors \cup {t} ELSE authors
  /\ UNCHANGED <<rows, cmd, locks, jobs, checkout, owner, worker, reactor, bounds>>

\* The turn ends, its work committed or not, and its session stops.
EndTurn(t) ==
  /\ Writing(t)
  /\ turn' = [turn EXCEPT ![t] = "idle"]
  /\ authors' \in {authors, {}}
  /\ UNCHANGED <<rows, cmd, locks, jobs, checkout, owner, worker, reactor, bounds>>

-----------------------------------------------------------------------------
(* The cleanup worker: one cleanup at a time.                               *)

\* isIdleWorktreeEligible.  A turn that is only accepted counts through the age
\* of its message, which "Clean up now" does not look at.
Eligible(t) == /\ Live(t) /\ bound[t] /\ ~ActiveOwner(t)
               /\ turn[t] \in {"idle"} \cup (IF t \in manual THEN {"pending"} ELSE {})

Done(t) == /\ step' = "idle" /\ subject' = NoThread
           /\ queued' = queued \ {t} /\ manual' = manual \ {t}
Goto(at) == step' = at /\ UNCHANGED <<subject, queued, manual>>
Keeps == UNCHANGED <<events, unarchiving, candidate>>

Starting(t) == step' = "reserve" /\ subject' = t /\ UNCHANGED <<queued, manual>>
DoneAt(t, state) ==   \* the job moves before it was ever reserved
  /\ queued' = queued \ {t} /\ manual' = manual \ {t} /\ UNCHANGED <<step, subject>>
  /\ job' = Moved(job, t, state) /\ UNCHANGED reserved

\* reconcileCleanupIntent: what may have changed since the intent was filed.
Reconcile(t) ==
  /\ step = "idle" /\ t \in queued /\ rootLock = NoThread
  /\ \/ /\ job[t].state # "waiting"
        /\ DoneAt(t, job[t].state)
     \/ /\ job[t].state = "waiting" /\ job[t].source = "archive" /\ status[t] # "archived"
        /\ DoneAt(t, IF status[t] = "deleted" THEN "attention" ELSE "cancelled")
     \/ /\ job[t].state = "waiting" /\ job[t].source = "idle" /\ ~Eligible(t)
        /\ DoneAt(t, "cancelled")
     \/ /\ job[t].state = "waiting"
        /\ job[t].source = "archive" => status[t] = "archived"
        /\ job[t].source = "idle" => Eligible(t)
        /\ IF checkout = "absent" THEN DoneAt(t, "completed")
           ELSE Starting(t) /\ UNCHANGED jobs
  /\ Keeps
  /\ UNCHANGED <<rows, turn, cmd, locks, disk, owner, bounds>>

\* reserveCleanup, under the worktree lock: the thread and the other users of the
\* path once more; while there is an active one the job waits.  It goes on to take
\* the lock of the checkout.
Reserve ==
  /\ step = "reserve" /\ worktreeLock = NoThread
  /\ LET t == subject
         refused == \/ job[t].source = "archive" /\ status[t] # "archived"
                    \/ job[t].source = "delete" /\ status[t] \in {"live", "archived"}
                    \/ job[t].source = "idle" /\ ~ActiveOwner(t) /\ ~Eligible(t) IN
     \/ /\ job[t].state = "waiting" /\ ~refused /\ ~ActiveOwner(t)
        /\ worktreeLock' = Worker /\ Goto("reserving") /\ UNCHANGED jobs
     \/ /\ job[t].state # "waiting" \/ refused \/ ActiveOwner(t)
        /\ job' = IF job[t].state = "waiting" /\ refused THEN Cancelled(job, {t}) ELSE job
        /\ Done(t) /\ UNCHANGED <<reserved, worktreeLock>>
  /\ Keeps
  /\ UNCHANGED <<rows, turn, cmd, checkoutLock, rootLock, disk, owner, bounds>>

\* The path is reserved without the lock of the checkout.
FaultNoCheckoutLock == TRUE
CheckoutFree == checkoutLock = NoThread

\* tryReserveForRemoval, under the lock a turn start holds while it looks.
TryReserve ==
  /\ step = "reserving" /\ CheckoutFree
  /\ worktreeLock' = NoThread
  /\ LET t == subject IN
     IF job[t].state = "waiting" /\ reserved \in {NoThread, t}
     THEN /\ job' = Moved(job, t, "removing") /\ reserved' = t
          /\ Goto("teardown")
     ELSE Done(t) /\ UNCHANGED jobs
  /\ Keeps
  /\ UNCHANGED <<rows, turn, cmd, checkoutLock, rootLock, disk, owner, bounds>>

Stopped(S) == [t \in Threads |-> IF t \in S /\ Writing(t) THEN "idle" ELSE turn[t]]

\* The sessions of the archived and deleted threads on the path are stopped, and,
\* unless it is only idle, that of the thread.
Teardown ==
  /\ step = "teardown"
  /\ LET siblings == {u \in Threads : bound[u] /\ status[u] \in {"archived", "deleted"}} IN
     turn' = Stopped((siblings \ {subject}) \cup (IF job[subject].source = "idle" THEN {} ELSE {subject}))
  /\ Goto("preflight") /\ Keeps
  /\ UNCHANGED <<rows, cmd, locks, jobs, disk, owner, bounds>>

\* runReservedCleanup: the last look at the read model, under the worktree lock.
Unusable(t) == \/ job[t].source # "delete" /\ status[t] = "gone"
               \/ ActiveOwner(t)
               \/ job[t].source = "archive" /\ Live(t)
Preflight ==
  /\ step = "preflight" /\ worktreeLock = NoThread
  /\ LET t == subject IN
     \/ Unusable(t) /\ Settle(t, "attention") /\ Done(t)
     \/ /\ ~Unusable(t) /\ job[t].source = "idle" /\ ~Eligible(t)
        /\ Settle(t, "cancelled") /\ Done(t)
     \/ /\ ~Unusable(t) /\ (job[t].source = "idle" => Eligible(t))
        /\ Goto("clean") /\ UNCHANGED jobs
  /\ Keeps
  /\ UNCHANGED <<rows, turn, cmd, locks, disk, owner, bounds>>

\* The failure is logged only.
FaultFailedSilently(t) == Done(t) /\ UNCHANGED jobs
\* recordFailure: git or the file system fails, and the job is retried or left
\* to the user.
Failed(t) == \E state \in {"waiting", "attention"} : Settle(t, state) /\ Done(t)
StepFails ==
  /\ step \in {"teardown", "clean", "detach", "prune"} /\ failures < MaxFailures
  /\ failures' = failures + 1
  /\ Failed(subject)
  /\ rootLock' = IF rootLock = Worker THEN NoThread ELSE rootLock
  /\ Keeps
  /\ UNCHANGED <<rows, turn, cmd, worktreeLock, checkoutLock, disk, owner, commands, crashes>>

\* Only what keeps git from removing the directory is looked at.
FaultCleanAlways == TRUE

\* isWorktreeCleanForRemoval: no change, and no untracked file.
Clean == authors = {}
\* The check runs outside the locks; git status fails where there is no directory.
CheckClean ==
  /\ step = "clean"
  /\ LET t == subject IN
     \/ checkout # "present" /\ Failed(t)
     \/ checkout = "present" /\ ~Clean /\ Settle(t, "waiting") /\ Done(t)
     \/ checkout = "present" /\ Clean /\ Goto("detach") /\ UNCHANGED jobs
  /\ Keeps
  /\ UNCHANGED <<rows, turn, cmd, locks, disk, owner, bounds>>

\* The rename, under the lock of the project root.
Detach ==
  /\ step = "detach" /\ rootLock = NoThread
  /\ checkout' = IF checkout = "present" THEN "unlinked" ELSE checkout
  /\ rootLock' = Worker
  /\ Goto("prune") /\ Keeps
  /\ UNCHANGED <<rows, turn, cmd, worktreeLock, checkoutLock, jobs, authors, owner, bounds>>

\* git worktree prune, then markCompleted.
Prune ==
  /\ step = "prune"
  /\ checkout' = IF checkout = "unlinked" THEN "absent" ELSE checkout
  /\ authors' = {}
  /\ Settle(subject, "completed")
  /\ rootLock' = NoThread
  /\ Goto("settle") /\ Keeps
  /\ UNCHANGED <<rows, turn, cmd, worktreeLock, checkoutLock, owner, bounds>>

Released(t) == IF owner = t THEN NoThread ELSE owner
\* When the bytes are gone, the claim of a thread that will not come back to the
\* checkout is given up.
SettleOwner ==
  /\ step = "settle"
  /\ LET t == subject IN
     /\ owner' = IF job[t].state = "completed" /\ job[t].source # "idle" THEN Released(t) ELSE owner
     /\ Done(t)
  /\ Keeps
  /\ UNCHANGED <<rows, turn, cmd, locks, jobs, disk, bounds>>

-----------------------------------------------------------------------------
(* What fills the queue of the worker.                                      *)

\* enqueueDueWorktreeCleanups: nothing waits for ever for its event.
DueSweep(t) ==
  /\ step # "recover" /\ job[t].state = "waiting" /\ t \notin queued
  /\ queued' = queued \cup {t}
  /\ UNCHANGED <<rows, turn, cmd, locks, jobs, disk, owner, step, subject, reactor, bounds>>

\* The user asks for another attempt, or to keep the checkout.
Retry(t) ==
  /\ job[t].state = "attention" /\ commands < MaxCommands
  /\ commands' = commands + 1
  /\ job' = Moved(job, t, "waiting")
  /\ UNCHANGED <<rows, turn, cmd, locks, reserved, disk, owner, worker, reactor, failures, crashes>>
Keep(t) ==
  /\ job[t].state \in {"waiting", "attention"} /\ commands < MaxCommands
  /\ commands' = commands + 1
  /\ job' = Cancelled(job, {t})
  /\ UNCHANGED <<rows, turn, cmd, locks, reserved, disk, owner, worker, reactor, failures, crashes>>

\* enqueueIdleCleanupIntent looks at the thread, the directory and git, and
\* files its intent afterwards.  The user may ask for it too.
DiscoverIdle(t) ==
  /\ step # "recover" /\ candidate = NoThread
  /\ job[t].state \in {"none", "completed", "cancelled"} /\ job[t].source # "delete"
  /\ Eligible(t) /\ checkout = "present" /\ Clean
  /\ candidate' = t
  /\ manual' \in {manual} \cup (IF ManualReclaim THEN {manual \cup {t}} ELSE {})
  /\ UNCHANGED <<rows, turn, cmd, locks, jobs, disk, owner, worker, events, unarchiving, bounds>>
FileIdle ==
  /\ candidate # NoThread
  /\ LET t == candidate
         filed == Enqueued(job, t, "idle", TRUE) IN
     /\ job' = filed
     /\ IF filed[t].state = "waiting" THEN queued' = queued \cup {t} /\ UNCHANGED manual
        ELSE manual' = manual \ {t} /\ UNCHANGED queued
  /\ candidate' = NoThread
  /\ UNCHANGED <<rows, turn, cmd, locks, reserved, disk, owner, step, subject, events, unarchiving, bounds>>

\* persistArchiveCleanupIntent: whatever the thread is by now.
ArchiveFiled(t, mayReset) ==
  IF bound[t] THEN Enqueued(job, t, "archive", mayReset) ELSE job
DiscoverArchived(t) ==
  /\ step # "recover" /\ status[t] = "archived" /\ bound[t] /\ t \notin queued
  /\ job' = ArchiveFiled(t, FALSE) /\ job' # job
  /\ queued' = IF job'[t].state = "waiting" THEN queued \cup {t} ELSE queued
  /\ UNCHANGED <<rows, turn, cmd, locks, reserved, disk, owner, step, subject, reactor, bounds>>

-----------------------------------------------------------------------------
(* The lifecycle worker, one event at a time.                               *)

Ready(kind) == unarchiving = NoEvent /\ events # <<>> /\ Head(events).kind = kind

HandleArchived ==
  /\ Ready("archived")
  /\ LET t == Head(events).thread IN
     /\ turn' = Stopped({t})
     /\ job' = ArchiveFiled(t, TRUE)
     /\ queued' = IF bound[t] /\ job'[t].state = "waiting" THEN queued \cup {t} ELSE queued
  /\ events' = Tail(events)
  /\ UNCHANGED <<rows, cmd, locks, reserved, disk, owner, step, subject, unarchiving, candidate,
                 manual, bounds>>

HandleUnarchived ==
  /\ Ready("unarchived")
  /\ LET t == Head(events).thread IN
     /\ job' = Cancelled(job, IF bound[t] THEN Threads ELSE {t})
     /\ unarchiving' = IF bound[t] /\ checkout # "present"
                       THEN [thread |-> t, at |-> "restore"] ELSE NoEvent
  /\ events' = Tail(events)
  /\ UNCHANGED <<rows, turn, cmd, locks, reserved, disk, owner, worker, candidate, manual, bounds>>

\* restoreThreadWorktree: fails where the path exists, or with the file system.
RestoreUnarchived ==
  /\ unarchiving.at = "restore" /\ rootLock = NoThread
  /\ \/ /\ checkout # "present"
        /\ checkout' = "present" /\ authors' = {}
        /\ unarchiving' = NoEvent /\ UNCHANGED failures
     \/ /\ checkout = "present" \/ failures < MaxFailures
        /\ failures' = IF checkout = "present" THEN failures ELSE failures + 1
        /\ unarchiving' = [unarchiving EXCEPT !.at = "unbind"] /\ UNCHANGED disk
  /\ UNCHANGED <<rows, turn, cmd, locks, jobs, owner, worker, events, candidate, manual,
                 commands, crashes>>

\* thread.meta.update without a path, behind the thread's other commands.
Unbind ==
  /\ unarchiving.at = "unbind" /\ cmd[unarchiving.thread] = NoCmd
  /\ bound' = [bound EXCEPT ![unarchiving.thread] = FALSE]
  /\ unarchiving' = NoEvent
  /\ UNCHANGED <<status, late, forks, turn, cmd, locks, jobs, disk, owner, worker, events, candidate,
                 manual, bounds>>

\* Without consent to clean up the thread gives its claim up at once, with
\* consent it is queued.
HandleDeleted ==
  /\ Ready("deleted") \/ Ready("purged")
  /\ LET t == Head(events).thread IN
     IF Ready("deleted")
     THEN turn' = Stopped({t}) /\ owner' = Released(t) /\ UNCHANGED queued
     ELSE queued' = queued \cup {t} /\ UNCHANGED <<turn, owner>>
  /\ events' = Tail(events)
  /\ UNCHANGED <<rows, cmd, locks, jobs, disk, step, subject, unarchiving, candidate, manual, bounds>>

-----------------------------------------------------------------------------
(* Stop and start.                                                          *)

Crash ==
  /\ crashes < MaxCrashes
  /\ crashes' = crashes + 1
  /\ status' = [t \in Threads |-> IF status[t] = "deleted" THEN "gone" ELSE status[t]]
  /\ bound' = [t \in Threads |-> bound[t] /\ status[t] # "deleted"]
  /\ late' = {}
  /\ turn' = [t \in Threads |-> "idle"]
  /\ cmd' = [t \in Threads |-> NoCmd]
  /\ worktreeLock' = NoThread /\ checkoutLock' = NoThread /\ rootLock' = NoThread
  /\ step' = "recover" /\ subject' = NoThread /\ queued' = {}
  /\ events' = <<>> /\ unarchiving' = NoEvent /\ candidate' = NoThread /\ manual' = {}
  /\ UNCHANGED <<forks, jobs, disk, owner, commands, failures>>

\* recoverInterruptedRemovals.
Recover ==
  /\ step = "recover"
  /\ job' = [t \in Threads |->
              IF job[t].state = "removing"
              THEN [job[t] EXCEPT !.state = IF checkout = "absent" THEN "completed" ELSE "waiting"]
              ELSE job[t]]
  /\ reserved' = IF reserved # NoThread /\ job[reserved].state = "removing" THEN NoThread ELSE reserved
  /\ step' = "idle"
  /\ UNCHANGED <<rows, turn, cmd, locks, disk, owner, subject, queued, reactor, bounds>>

\* start prunes the registrations of every project.
BootPrune ==
  /\ crashes > 0 /\ step # "recover" /\ checkout = "unlinked" /\ rootLock = NoThread
  /\ checkout' = "absent"
  /\ UNCHANGED <<rows, turn, cmd, locks, jobs, authors, owner, worker, reactor, bounds>>

-----------------------------------------------------------------------------
Init ==
  /\ status \in [Threads -> {"absent", "live"}] /\ status[Source] = "live"
  /\ bound = [t \in Threads |-> t = Source]
  /\ forks = {} /\ late = {}
  /\ turn = [t \in Threads |-> "idle"]
  /\ cmd = [t \in Threads |-> NoCmd]
  /\ worktreeLock = NoThread /\ checkoutLock = NoThread /\ rootLock = NoThread
  /\ job = [t \in Threads |-> NoJob] /\ reserved = NoThread
  /\ checkout = "present" /\ authors = {}
  /\ owner = Source
  /\ step = "idle" /\ subject = NoThread /\ queued = {}
  /\ events = <<>> /\ unarchiving = NoEvent /\ candidate = NoThread /\ manual = {}
  /\ commands = 0 /\ failures = 0 /\ crashes = 0

Command(t) ==
  \/ TakeLock(t) \/ AdmitStart(t) \/ RestoreForStart(t) \/ Claim(t) \/ CheckPending(t)
  \/ CommitStart(t) \/ CommitMove(t) \/ CommitArchive(t) \/ CommitUnarchive(t) \/ CommitDelete(t)
Turn(t) == SendTurn(t) \/ RunTurn(t) \/ EndTurn(t)
Cleanup ==
  \/ \E t \in Threads : Reconcile(t)
  \/ Reserve \/ TryReserve \/ Teardown \/ Preflight \/ CheckClean \/ Detach \/ Prune
  \/ SettleOwner \/ Recover
Lifecycle ==
  HandleArchived \/ HandleUnarchived \/ RestoreUnarchived \/ Unbind \/ HandleDeleted

Next ==
  \/ \E t \in Threads : \/ \E op \in Ops : Submit(t, op)
                       \/ Command(t) \/ Turn(t) \/ Fork(t)
                       \/ DueSweep(t) \/ Retry(t) \/ Keep(t)
                       \/ DiscoverIdle(t) \/ DiscoverArchived(t)
  \/ FileIdle \/ Cleanup \/ StepFails \/ Lifecycle \/ Crash \/ BootPrune

Spec == Init /\ [][Next]_vars

\* The engine and the cleanup worker keep working, and the semaphores serve
\* those who wait in the order of their coming; each has one step to take at a
\* time.  Users, providers, failures and the discoveries owe nothing.
Fairness == (\A t \in Threads : SF_vars(Command(t))) /\ SF_vars(Cleanup)
FairSpec == Spec /\ Fairness

-----------------------------------------------------------------------------
\* The types of the variables: among them that no job is filed without its source.
TypeOK ==
  /\ status \in [Threads -> {"absent", "live", "archived", "deleted", "gone"}]
  /\ bound \in [Threads -> BOOLEAN] /\ forks \subseteq Threads /\ late \subseteq Threads
  /\ turn \in [Threads -> {"idle", "pending", "sending", "running"}]
  /\ cmd \in [Threads -> Commands]
  /\ worktreeLock \in Threads \cup {NoThread, Worker}
  /\ checkoutLock \in Threads \cup {NoThread} /\ rootLock \in {NoThread, Worker}
  /\ job \in [Threads -> Jobs] /\ reserved \in Threads \cup {NoThread}
  /\ checkout \in {"present", "unlinked", "absent"} /\ authors \subseteq Threads
  /\ owner \in Threads \cup {NoThread}
  /\ step \in Steps /\ subject \in Threads \cup {NoThread} /\ queued \subseteq Threads
  /\ events \in Seq([kind : {"archived", "unarchived", "deleted", "purged"}, thread : Threads])
  /\ unarchiving \in [thread : Threads, at : {"restore", "unbind"}] \cup {NoEvent}
  /\ candidate \in Threads \cup {NoThread} /\ manual \subseteq Threads
  /\ commands \in 0..MaxCommands /\ failures \in 0..MaxFailures /\ crashes \in 0..MaxCrashes

Detaches == checkout = "present" /\ checkout' = "unlinked"

\* The directory is never taken from under a live chat whose turn is accepted or
\* runs: admission and the reservation exclude each other through the lock of
\* the checkout, although a turn start does not take the worktree lock
\* (OrchestrationEngine.ts, mutatesCheckoutOnDisk).  A move takes no lock at all:
\* one that looked before the path was reserved is committed after the last look
\* of the cleanup, and takes a turn of the chat along.  Only those are late.
LiveTurnKeepsCheckout ==
  [][Detaches => \A t \in Threads \ late : Live(t) /\ bound[t] => turn[t] = "idle"]_vars

\* The checkout of a chat that was reopened after its archive or deletion job
\* was filed is not removed: unarchive either cancels the job or is refused.
ReopenedKeepsCheckout ==
  [][Detaches /\ job[subject].source \in {"archive", "delete"}
     => ~(Live(subject) /\ bound[subject])]_vars

\* What a live chat of the path has not committed never goes with the directory:
\* between git's answer and the rename, over which no lock is held, only chats
\* write that are archived, deleted, off the path, or late.
LiveWorkIsKept ==
  [][Detaches => \A t \in authors \ late : ~(Live(t) /\ bound[t])]_vars

\* The policy as it is written: a dirty checkout is never removed
\* (docs/worktree-cleanup-reconciliation.md).
DirtyIsKept == [][Detaches => Clean]_vars

\* A path is reserved exactly while the removal of its job runs, also across
\* crashes and failures: a reservation without a job would refuse every turn of
\* the checkout for good, a removal without one would not keep turns away.
ReservationsMatchJobs == \A t \in Threads : reserved = t <=> job[t].state = "removing"

\* From its reservation to its end the worker holds the path for the thread it
\* cleans up after.
WorkerHoldsPath ==
  /\ step \notin {"idle", "recover"} => subject \in Threads
  /\ step \in {"teardown", "preflight", "clean", "detach", "prune"} => reserved = subject

\* The inductive invariant of the proofs.
CleanupInv == TypeOK /\ ReservationsMatchJobs /\ WorkerHoldsPath

\* A removal ends, whatever fails: turns are admitted again.
ReservationsEnd == CleanupPending ~> ~CleanupPending

\* Commands, the cleanup and the restore of a checkout take their locks in an
\* order that never leaves a command waiting for ever.
CommandsEnd == \A t \in Threads : (cmd[t] # NoCmd) ~> (cmd[t] = NoCmd)
=============================================================================
