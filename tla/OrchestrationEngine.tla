------------------------ MODULE OrchestrationEngine ------------------------
(***************************************************************************)
(* The command engine of the server                                        *)
(* (apps/server/src/orchestration/Layers/OrchestrationEngine.ts).          *)
(*                                                                         *)
(* Callers dispatch commands; a router moves each one to the queue of its  *)
(* aggregate's shard; one worker per shard admits the command outside any  *)
(* lock, and decides, writes, swaps the in-memory read model and publishes *)
(* under the global commitLock.  Tool-activity appends of one thread that  *)
(* queue up together are committed in one transaction, and are processed   *)
(* one by one when that transaction cannot be used.  Command receipts,     *)
(* stored with the events, make a dispatch idempotent by command id.  The  *)
(* process may stop between any two steps and starts again from the        *)
(* durable log.                                                            *)
(*                                                                         *)
(* Abstractions.  The decider and admission are nondeterministic: a        *)
(* command emits one of the event lists in Outcomes[c], is refused, or     *)
(* fails.  A read model is the list of log positions it has applied, so    *)
(* that an event lost or applied twice shows.  An envelope is its ticket,  *)
(* the position of the dispatch in the history variable dispatched.  The   *)
(* events table is a set of rows with their sequence, because a hard       *)
(* delete purges the whole stream of a thread from it.                     *)
(***************************************************************************)
EXTENDS Integers, Sequences, FiniteSets

CONSTANTS
  Commands,       \* command ids; a caller that retries reuses the id
  Aggregates,     \* projects, threads and workflow runs
  Shards,         \* the dispatch shards that are in use
  NoShard,        \* nobody holds commitLock
  AggregateOf,    \* Commands -> Aggregates
  ShardOf,        \* Aggregates -> Shards, the hash of the aggregate's key
  Batchable,      \* the commands that append a tool.* activity
  Outcomes,       \* Commands -> sets of event lists, an event is its stream
  Deletions,      \* the commands whose events are thread.deleted
  NoOps,          \* the commands whose empty decision is an accepted no-op
  MaxBatch,       \* ACTIVITY_APPEND_BATCH_MAX_SIZE
  MaxDispatches,  \* bound on the dispatches of a behaviour
  MaxCrashes      \* bound on the process restarts of a behaviour

ASSUME EngineConstants ==
  /\ NoShard \notin Shards
  /\ AggregateOf \in [Commands -> Aggregates]
  /\ ShardOf \in [Aggregates -> Shards]
  /\ Batchable \subseteq Commands
  /\ Deletions \subseteq Commands
  /\ NoOps \subseteq Commands
  /\ Outcomes \in [Commands -> SUBSET Seq(Aggregates)]
  /\ MaxBatch \in Nat /\ MaxBatch >= 2
  /\ MaxDispatches \in Nat
  /\ MaxCrashes \in Nat

VARIABLES
  dispatched,  \* history: the command of every dispatch, in order
  answer,      \* what the caller's Deferred was resolved with, per ticket
  intake,      \* commandQueue: tickets the router has not moved yet
  shardQueue,  \* the queue of every shard
  pending,     \* a worker's polled envelopes that did not join its batch
  current,     \* the envelopes a worker handles in one transaction
  todo,        \* the rest of a batch that fell back to one by one
  pc,          \* where every shard worker is
  fault,       \* why the envelope in hand failed
  plan,        \* the decided events and the model position they rest on
  staged,      \* the read model a written transaction will swap in
  lock,        \* holder of commitLock
  model,       \* readModel: the log positions applied in memory
  published,   \* what a subscriber attached at start has seen
  log,         \* durable: orchestration_events
  lastSeq,     \* durable: the table's AUTOINCREMENT counter
  receipts,    \* durable: orchestration_command_receipts
  up,          \* the engine has initialized
  crashes

callers == <<dispatched, answer>>
queues  == <<intake, shardQueue, pending>>
workers == <<current, todo, pc, fault, plan, staged>>
memory  == <<lock, model, published>>
durable == <<log, lastSeq, receipts>>
process == <<up, crashes>>
vars == <<callers, queues, workers, memory, durable, process>>

Steps == {"idle", "window", "second", "admit", "commit", "write", "swap",
          "publish", "drain", "compensate", "refuse"}

Verdicts == {"waiting", "accepted", "rejected", "failed", "lost"}

NoReceipt == [status |-> "none", seq |-> 0]
NoPlan    == [basis |-> 0, streams |-> <<>>]

Init ==
  /\ dispatched = <<>>
  /\ answer = [n \in 1..MaxDispatches |-> "waiting"]
  /\ intake = <<>>
  /\ shardQueue = [s \in Shards |-> <<>>]
  /\ pending = [s \in Shards |-> <<>>]
  /\ current = [s \in Shards |-> <<>>]
  /\ todo = [s \in Shards |-> <<>>]
  /\ pc = [s \in Shards |-> "idle"]
  /\ fault = [s \in Shards |-> "none"]
  /\ plan = [s \in Shards |-> NoPlan]
  /\ staged = [s \in Shards |-> <<>>]
  /\ lock = NoShard
  /\ model = <<>>
  /\ published = <<>>
  /\ log = {}
  /\ lastSeq = 0
  /\ receipts = [c \in Commands |-> NoReceipt]
  /\ up = TRUE
  /\ crashes = 0

-----------------------------------------------------------------------------
(* Helpers *)

CommandOf(n) == dispatched[n]
Owner(n) == AggregateOf[CommandOf(n)]

\* Fault: a read model that starts at -1 instead of 0.
StartsAtMinusOne(m) == IF m = <<>> THEN -1 ELSE m[Len(m)]

\* readModel.snapshotSequence: the sequence of the last event applied.
SnapshotSequence(m) == IF m = <<>> THEN 0 ELSE m[Len(m)]

\* The sequences that k more events get.
Appended(k) == [i \in 1..k |-> lastSeq + i]

\* The sequences of S in order, as a query with ORDER BY sequence returns them.
InOrder(S) ==
  CHOOSE q \in [1..Cardinality(S) -> S] : \A i, j \in DOMAIN q : i < j => q[i] < q[j]

\* Fault: every shard commits without the lock.
NoCommitLock == TRUE

\* commitLock.withPermits(1) can be entered.
CommitLockFree == lock = NoShard

\* checkCommandReceipt, used outside the lock and again inside it.
ReceiptStatus(c) == receipts[c].status

\* Whether ticket n may be appended to a batch that starts with ticket m.
Joins(n, m) == CommandOf(n) \in Batchable /\ Owner(n) = Owner(m)

\* The first p tickets of q join the batch of ticket m, and the next one does not.
JoiningPrefix(q, m, p) ==
  /\ \A i \in 1..p : Joins(q[i], m)
  /\ p < Len(q) => ~Joins(q[p + 1], m)

Answered(n, v) == answer' = [answer EXCEPT ![n] = v]

\* Fault: the worker returns to its queue with a fallen-back batch half done.
AdvanceToQueue(s) ==
  /\ current' = [current EXCEPT ![s] = <<>>]
  /\ pc' = [pc EXCEPT ![s] = "idle"]
  /\ UNCHANGED todo

\* The worker is done with the envelope in hand: the next one of a batch that
\* fell back, or the next one of the queue.
Advance(s) ==
  IF todo[s] = <<>>
  THEN /\ current' = [current EXCEPT ![s] = <<>>]
       /\ pc' = [pc EXCEPT ![s] = "idle"]
       /\ UNCHANGED todo
  ELSE /\ current' = [current EXCEPT ![s] = <<Head(todo[s])>>]
       /\ todo' = [todo EXCEPT ![s] = Tail(@)]
       /\ pc' = [pc EXCEPT ![s] = "admit"]

At(s, step) == pc[s] = step
Goto(s, step) == pc' = [pc EXCEPT ![s] = step]
Single(s) == Len(current[s]) = 1

-----------------------------------------------------------------------------
(* Callers and router *)

\* dispatch / enqueueToolActivityAppend: any command, new or retried, also
\* while an earlier dispatch of the same id is still in flight.
Dispatch(c) ==
  /\ up
  /\ Len(dispatched) < MaxDispatches
  /\ dispatched' = Append(dispatched, c)
  /\ intake' = Append(intake, Len(dispatched) + 1)
  /\ UNCHANGED <<answer, shardQueue, pending, workers, memory, durable, process>>

Route ==
  /\ intake # <<>>
  /\ LET n == Head(intake)
         s == ShardOf[Owner(n)]
     IN  shardQueue' = [shardQueue EXCEPT ![s] = Append(@, n)]
  /\ intake' = Tail(intake)
  /\ UNCHANGED <<pending, callers, workers, memory, durable, process>>

-----------------------------------------------------------------------------
(* Shard worker: taking envelopes, forming a batch *)

\* Fault: the queue is served before the leftovers of an earlier poll.
TakeQueueFirst(s) ==
  /\ up /\ At(s, "idle")
  /\ \/ /\ shardQueue[s] # <<>>
        /\ current' = [current EXCEPT ![s] = <<Head(shardQueue[s])>>]
        /\ shardQueue' = [shardQueue EXCEPT ![s] = Tail(@)]
        /\ UNCHANGED pending
     \/ /\ shardQueue[s] = <<>> /\ pending[s] # <<>>
        /\ current' = [current EXCEPT ![s] = <<Head(pending[s])>>]
        /\ pending' = [pending EXCEPT ![s] = Tail(@)]
        /\ UNCHANGED shardQueue
  /\ LET batchable == CommandOf(current'[s][1]) \in Batchable
     IN  Goto(s, IF batchable /\ pending'[s] = <<>> THEN "window" ELSE "admit")
  /\ UNCHANGED <<intake, todo, fault, plan, staged, callers, memory, durable, process>>

\* The worker's loop head: leftovers of an earlier poll go first.  A batchable
\* envelope opens the batch window only when no leftover remains.
Take(s) ==
  /\ up /\ At(s, "idle")
  /\ \/ /\ pending[s] # <<>>
        /\ current' = [current EXCEPT ![s] = <<Head(pending[s])>>]
        /\ pending' = [pending EXCEPT ![s] = Tail(@)]
        /\ UNCHANGED shardQueue
     \/ /\ pending[s] = <<>> /\ shardQueue[s] # <<>>
        /\ current' = [current EXCEPT ![s] = <<Head(shardQueue[s])>>]
        /\ shardQueue' = [shardQueue EXCEPT ![s] = Tail(@)]
        /\ UNCHANGED pending
  /\ LET batchable == CommandOf(current'[s][1]) \in Batchable
     IN  Goto(s, IF batchable /\ pending'[s] = <<>> THEN "window" ELSE "admit")
  /\ UNCHANGED <<intake, todo, fault, plan, staged, callers, memory, durable, process>>

\* The raced Queue.take wins the window: a candidate that joins opens a second
\* wait, any other one is put aside and the first envelope goes alone.
CandidateArrives(s) ==
  /\ up /\ At(s, "window") /\ shardQueue[s] # <<>>
  /\ LET n == Head(shardQueue[s])
     IN  IF Joins(n, current[s][1])
         THEN /\ current' = [current EXCEPT ![s] = Append(@, n)]
              /\ Goto(s, "second")
              /\ UNCHANGED pending
         ELSE /\ pending' = [pending EXCEPT ![s] = Append(@, n)]
              /\ Goto(s, "admit")
              /\ UNCHANGED current
  /\ shardQueue' = [shardQueue EXCEPT ![s] = Tail(@)]
  /\ UNCHANGED <<intake, todo, fault, plan, staged, callers, memory, durable, process>>

\* A window ends: the queue is polled up to the batch limit; the prefix of the
\* same thread's appends joins and the rest waits in pending.
PollBatch(s) ==
  /\ up /\ pc[s] \in {"window", "second"}
  /\ \E k \in 0..Len(shardQueue[s]) :
       /\ k = Len(shardQueue[s]) \/ Len(current[s]) + k = MaxBatch
       /\ Len(current[s]) + k <= MaxBatch
       /\ \E p \in 0..k :
            /\ JoiningPrefix(SubSeq(shardQueue[s], 1, k), current[s][1], p)
            /\ current' = [current EXCEPT ![s] = @ \o SubSeq(shardQueue[s], 1, p)]
            /\ pending' = [pending EXCEPT ![s] = @ \o SubSeq(shardQueue[s], p + 1, k)]
       /\ shardQueue' = [shardQueue EXCEPT ![s] = SubSeq(@, k + 1, Len(@))]
  /\ Goto(s, "admit")
  /\ UNCHANGED <<intake, todo, fault, plan, staged, callers, memory, durable, process>>

-----------------------------------------------------------------------------
(* Shard worker: one envelope *)

Fail(s, why) ==
  /\ fault' = [fault EXCEPT ![s] = why]
  /\ plan' = [plan EXCEPT ![s] = NoPlan]
  /\ Goto(s, "compensate")
  /\ UNCHANGED <<current, todo, staged, answer>>

\* A receipt settles the envelope: an accepted one is replayed, a rejected one
\* refuses the retry with OrchestrationCommandPreviouslyRejectedError.
Replay(s) ==
  LET n == current[s][1]
  IN  /\ ReceiptStatus(CommandOf(n)) # "none"
      /\ Answered(n, ReceiptStatus(CommandOf(n)))
      /\ Advance(s)
      /\ UNCHANGED <<fault, plan, staged>>

\* The pre-check of the receipt and workspace admission, outside any lock.
\* Admission may refuse (an invariant) or fail (a cleanup pending, an error).
Admit(s) ==
  /\ up /\ At(s, "admit") /\ Single(s)
  /\ \/ Replay(s)
     \/ /\ ReceiptStatus(CommandOf(current[s][1])) = "none"
        /\ \/ /\ Goto(s, "commit")
              /\ UNCHANGED <<current, todo, fault, plan, staged, answer>>
           \/ \E why \in {"invariant", "other"} : Fail(s, why)
  /\ UNCHANGED <<dispatched, queues, memory, durable, process>>

\* Decide on the model as it is under the lock; the transaction follows.
DecideEvents(s) ==
  /\ ReceiptStatus(CommandOf(current[s][1])) = "none"
  /\ \E streams \in Outcomes[CommandOf(current[s][1])] :
       /\ streams = <<>> => CommandOf(current[s][1]) \notin NoOps
       /\ plan' = [plan EXCEPT ![s] =
                    [basis |-> SnapshotSequence(model), streams |-> streams]]
  /\ lock' = s
  /\ Goto(s, "write")
  /\ UNCHANGED <<current, todo, fault, staged, answer, receipts>>

\* The state-dependent no-op: an accepted receipt and no events.
AcceptNoOp(s) ==
  LET c == CommandOf(current[s][1])
  IN  /\ ReceiptStatus(c) = "none"
      /\ c \in NoOps /\ <<>> \in Outcomes[c]
      /\ receipts' = [receipts EXCEPT ![c] =
                       [status |-> "accepted", seq |-> SnapshotSequence(model),
                        aggregate |-> AggregateOf[c]]]
      /\ Goto(s, "drain")
      /\ UNCHANGED <<current, todo, fault, plan, staged, lock, answer>>

\* The head of the serial commit section: the authoritative receipt check,
\* then the decision.  Only a decision with events keeps the lock for longer.
Decide(s) ==
  /\ up /\ At(s, "commit") /\ Single(s)
  /\ CommitLockFree
  /\ \/ DecideEvents(s)
     \/ AcceptNoOp(s)
     \/ Replay(s) /\ UNCHANGED <<lock, receipts>>
     \/ /\ ReceiptStatus(CommandOf(current[s][1])) = "none"
        /\ \E why \in {"invariant", "other"} : Fail(s, why)
        /\ UNCHANGED <<lock, receipts>>
  /\ UNCHANGED <<dispatched, queues, model, published, log, lastSeq, process>>

\* The rows that eventStore.append inserts for the plan of ticket n.
EventsOf(n, p) ==
  {[seq |-> lastSeq + i, cmd |-> CommandOf(n), env |-> n,
    stream |-> p.streams[i], basis |-> p.basis] : i \in 1..Len(p.streams)}

\* The threads whose rows, events and receipts the plan's thread.deleted
\* events purge, their own row included.
Purged(n, p) ==
  IF CommandOf(n) \in Deletions THEN {p.streams[i] : i \in 1..Len(p.streams)} ELSE {}

\* Fault: the events of a deleted thread stay in the log.
KeptAll(rows, purged) == rows

Kept(rows, purged) == {e \in rows : e.stream \notin purged}

\* Fault: the receipts are deleted without their WHERE clause.
KeptNoReceipts(purged) ==
  IF purged = {} THEN receipts ELSE [c \in Commands |-> NoReceipt]

KeptReceipts(purged) ==
  [c \in Commands |->
     IF ReceiptStatus(c) # "none" /\ receipts[c].aggregate \in purged
     THEN NoReceipt ELSE receipts[c]]

\* Fault: the receipt is not part of the transaction.
WriteWithoutReceipt(s) ==
  /\ up /\ At(s, "write") /\ Single(s)
  /\ plan[s].streams # <<>>
  /\ log' = log \cup EventsOf(current[s][1], plan[s])
  /\ lastSeq' = lastSeq + Len(plan[s].streams)
  /\ staged' = [staged EXCEPT ![s] = model \o Appended(Len(plan[s].streams))]
  /\ Goto(s, "swap")
  /\ UNCHANGED <<current, todo, fault, plan, receipts, callers, queues, memory, process>>

\* The transaction commits: the events, their projection rows (which purge the
\* stream of a deleted thread) and the accepted receipt, filed under the
\* aggregate of the last event, become durable together.
Write(s) ==
  /\ up /\ At(s, "write") /\ Single(s)
  /\ plan[s].streams # <<>>
  /\ LET n == current[s][1]
         k == Len(plan[s].streams)
     IN  /\ log' = Kept(log \cup EventsOf(n, plan[s]), Purged(n, plan[s]))
         /\ lastSeq' = lastSeq + k
         /\ receipts' = [KeptReceipts(Purged(n, plan[s])) EXCEPT ![CommandOf(n)] =
                          [status |-> "accepted", seq |-> lastSeq + k,
                           aggregate |-> plan[s].streams[k]]]
         /\ staged' = [staged EXCEPT ![s] = model \o Appended(k)]
  /\ Goto(s, "swap")
  /\ UNCHANGED <<current, todo, fault, plan, callers, queues, memory, process>>

\* Fault: the events are appended outside the transaction that fails.
WriteFailsHalfway(s) ==
  /\ up /\ At(s, "write") /\ Single(s)
  /\ Fail(s, "other")
  /\ log' = log \cup EventsOf(current[s][1], plan[s])
  /\ lastSeq' = lastSeq + Len(plan[s].streams)
  /\ lock' = NoShard
  /\ UNCHANGED <<dispatched, queues, model, published, receipts, process>>

\* The transaction rolls back, also because every event was deduplicated away
\* ("Command produced no events"), and the commit section is left.
WriteFails(s) ==
  /\ up /\ At(s, "write") /\ Single(s)
  /\ \/ plan[s].streams = <<>> /\ Fail(s, "empty")
     \/ Fail(s, "other")
  /\ lock' = NoShard
  /\ UNCHANGED <<dispatched, queues, model, published, durable, process>>

-----------------------------------------------------------------------------
(* Shard worker: a batch of activity appends *)

\* The batch cannot be used: its envelopes are processed one by one, in order.
FallBack(s) ==
  /\ current' = [current EXCEPT ![s] = <<Head(@)>>]
  /\ todo' = [todo EXCEPT ![s] = Tail(current[s])]
  /\ Goto(s, "admit")

Distinct(q) == \A i, j \in 1..Len(q) : CommandOf(q[i]) = CommandOf(q[j]) => i = j

\* Fault: a batch may hold one command twice.
AdmitAnyBatch(s) ==
  /\ up /\ At(s, "admit") /\ ~Single(s)
  /\ Goto(s, "commit")
  /\ UNCHANGED <<current, todo, fault, plan, staged, callers, queues, memory, durable, process>>

\* Before the lock: a batch that holds one command twice is not used.
AdmitBatch(s) ==
  /\ up /\ At(s, "admit") /\ ~Single(s)
  /\ \/ /\ Distinct(current[s])
        /\ Goto(s, "commit")
        /\ UNCHANGED <<current, todo>>
     \/ FallBack(s)
  /\ UNCHANGED <<fault, plan, staged, callers, queues, memory, durable, process>>

\* Under the lock: a batch in which any command has a receipt is not used.
CheckBatch(s) ==
  /\ up /\ At(s, "commit") /\ ~Single(s)
  /\ CommitLockFree
  /\ \/ /\ \A i \in 1..Len(current[s]) :
             ReceiptStatus(CommandOf(current[s][i])) = "none"
        /\ lock' = s
        /\ Goto(s, "write")
        /\ UNCHANGED <<current, todo>>
     \/ FallBack(s) /\ UNCHANGED lock
  /\ UNCHANGED <<fault, plan, staged, model, published, callers, queues, durable, process>>

\* Every command of the batch is decided on the model its predecessors left.
BatchEvents(q) ==
  {[seq |-> lastSeq + i, cmd |-> CommandOf(q[i]), env |-> q[i], stream |-> Owner(q[i]),
    basis |-> IF i = 1 THEN SnapshotSequence(model) ELSE lastSeq + i - 1] : i \in 1..Len(q)}

WriteBatch(s) ==
  /\ up /\ At(s, "write") /\ ~Single(s)
  /\ LET q == current[s]
     IN  /\ log' = log \cup BatchEvents(q)
         /\ lastSeq' = lastSeq + Len(q)
         /\ receipts' = [c \in Commands |->
              IF \E i \in 1..Len(q) : CommandOf(q[i]) = c
              THEN [status |-> "accepted",
                    seq |-> lastSeq + CHOOSE i \in 1..Len(q) : CommandOf(q[i]) = c,
                    aggregate |-> AggregateOf[c]]
              ELSE receipts[c]]
         /\ staged' = [staged EXCEPT ![s] = model \o Appended(Len(q))]
  /\ Goto(s, "swap")
  /\ UNCHANGED <<current, todo, fault, plan, callers, queues, memory, process>>

\* Any failure inside, a command the decider refuses included, rolls back.
WriteBatchFails(s) ==
  /\ up /\ At(s, "write") /\ ~Single(s)
  /\ FallBack(s)
  /\ lock' = NoShard
  /\ UNCHANGED <<fault, plan, staged, model, published, callers, queues, durable, process>>

-----------------------------------------------------------------------------
(* Shard worker: after the transaction *)

\* Fault: only the first event of a command is projected in memory.
SwapFirstEvent(s) ==
  /\ up /\ At(s, "swap")
  /\ model' = SubSeq(staged[s], 1, Len(model) + 1)
  /\ Goto(s, "publish")
  /\ UNCHANGED <<current, todo, fault, plan, staged, lock, published,
                 callers, queues, durable, process>>

\* readModel = committedCommand.nextReadModel
Swap(s) ==
  /\ up /\ At(s, "swap")
  /\ model' = staged[s]
  /\ Goto(s, "publish")
  /\ UNCHANGED <<current, todo, fault, plan, staged, lock, published,
                 callers, queues, durable, process>>

\* Fault: only the last event of a command is published.
PublishLastEvent(s) ==
  /\ up /\ At(s, "publish")
  /\ published' = Append(published, staged[s][Len(staged[s])])
  /\ plan' = [plan EXCEPT ![s] = NoPlan]
  /\ staged' = [staged EXCEPT ![s] = <<>>]
  /\ lock' = NoShard
  /\ Goto(s, "drain")
  /\ UNCHANGED <<current, todo, fault, model, callers, queues, durable, process>>

\* The number of events the worker of s is committing.
Size(s) == IF Single(s) THEN Len(plan[s].streams) ELSE Len(current[s])

\* Every committed event is published, still under the lock, which is released.
Publish(s) ==
  /\ up /\ At(s, "publish")
  /\ published' = published \o
       SubSeq(staged[s], Len(staged[s]) + 1 - Size(s), Len(staged[s]))
  /\ plan' = [plan EXCEPT ![s] = NoPlan]
  /\ staged' = [staged EXCEPT ![s] = <<>>]
  /\ lock' = NoShard
  /\ Goto(s, "drain")
  /\ UNCHANGED <<current, todo, fault, model, callers, queues, durable, process>>

\* The post-commit projection reconcile is awaited and its errors ignored; then
\* the caller's Deferred succeeds.  A batch answers its envelopes in order.
Finish(s) ==
  /\ up /\ At(s, "drain")
  /\ Answered(current[s][1], "accepted")
  /\ IF Single(s)
     THEN Advance(s)
     ELSE /\ current' = [current EXCEPT ![s] = Tail(@)]
          /\ UNCHANGED <<todo, pc>>
  /\ UNCHANGED <<fault, plan, staged, dispatched, queues, memory, durable, process>>

\* The failure path takes the lock again: it replays any event the model lacks
\* (reconcileReadModelAfterDispatchFailure, given up when the read fails) and
\* records an invariant failure as a rejected receipt (the upsert may fail).
Compensate(s) ==
  /\ up /\ At(s, "compensate")
  /\ CommitLockFree
  /\ LET missing == InOrder({e.seq : e \in {f \in log : f.seq > SnapshotSequence(model)}})
     IN  \/ model' = model \o missing /\ published' = published \o missing
         \/ UNCHANGED <<model, published>>
  /\ \/ /\ fault[s] \in {"invariant", "empty"}
        /\ receipts' = [receipts EXCEPT ![CommandOf(current[s][1])] =
                         [status |-> "rejected", seq |-> SnapshotSequence(model'),
                          aggregate |-> Owner(current[s][1])]]
     \/ UNCHANGED receipts
  /\ fault' = [fault EXCEPT ![s] = "none"]
  /\ Goto(s, "refuse")
  /\ UNCHANGED <<current, todo, plan, staged, lock, log, lastSeq, callers, queues, process>>

Refuse(s) ==
  /\ up /\ At(s, "refuse")
  /\ Answered(current[s][1], "failed")
  /\ Advance(s)
  /\ UNCHANGED <<fault, plan, staged, dispatched, queues, memory, durable, process>>

-----------------------------------------------------------------------------
(* Crash and start *)

\* The process stops: everything in memory is gone, the callers never hear of
\* their envelopes, an uncommitted transaction rolls back.
Crash ==
  /\ up
  /\ crashes < MaxCrashes
  /\ crashes' = crashes + 1
  /\ up' = FALSE
  /\ answer' = [n \in 1..MaxDispatches |->
       IF n <= Len(dispatched) /\ answer[n] = "waiting" THEN "lost" ELSE answer[n]]
  /\ intake' = <<>>
  /\ shardQueue' = [s \in Shards |-> <<>>]
  /\ pending' = [s \in Shards |-> <<>>]
  /\ current' = [s \in Shards |-> <<>>]
  /\ todo' = [s \in Shards |-> <<>>]
  /\ pc' = [s \in Shards |-> "idle"]
  /\ fault' = [s \in Shards |-> "none"]
  /\ plan' = [s \in Shards |-> NoPlan]
  /\ staged' = [s \in Shards |-> <<>>]
  /\ lock' = NoShard
  /\ model' = <<>>
  /\ published' = <<>>
  /\ UNCHANGED <<dispatched, durable>>

\* The projections are replayed and the snapshot they give is the read model;
\* a subscriber reads that snapshot before the events that follow it.
Boot ==
  /\ ~up
  /\ up' = TRUE
  /\ model' = [i \in 1..lastSeq |-> i]
  /\ published' = model'
  /\ UNCHANGED <<callers, queues, workers, lock, durable, crashes>>

Work(s) ==
  \/ Take(s) \/ CandidateArrives(s) \/ PollBatch(s)
  \/ Admit(s) \/ AdmitBatch(s)
  \/ Write(s) \/ WriteFails(s) \/ WriteBatch(s) \/ WriteBatchFails(s)
  \/ Swap(s) \/ Publish(s) \/ Finish(s) \/ Refuse(s)

\* The steps that wait for commitLock.
Locking(s) == Decide(s) \/ CheckBatch(s) \/ Compensate(s)

Next ==
  \/ \E c \in Commands : Dispatch(c)
  \/ Route
  \/ \E s \in Shards : Work(s) \/ Locking(s)
  \/ Crash
  \/ Boot

Spec == Init /\ [][Next]_vars

\* Fibers run, subprocesses and SQL statements end (they have timeouts), and
\* the semaphore serves its waiters in order: strong fairness for the lock.
Fairness ==
  /\ WF_vars(Route)
  /\ WF_vars(Boot)
  /\ \A s \in Shards : WF_vars(Work(s)) /\ SF_vars(Locking(s))

FairSpec == Spec /\ Fairness

-----------------------------------------------------------------------------
(* Properties *)

\* An accepted receipt names the command's last event and its aggregate, a
\* rejected one the aggregate the command addressed.
Receipt == [status : {"accepted", "rejected"}, seq : Nat, aggregate : Aggregates]

\* The envelopes there are.
Tickets == 1..Len(dispatched)

Event == [seq : Nat, cmd : Commands, env : 1..MaxDispatches,
          stream : Aggregates, basis : Nat]

\* Every variable stays in its domain.
TypeOK ==
  /\ dispatched \in Seq(Commands) /\ Len(dispatched) <= MaxDispatches
  /\ answer \in [1..MaxDispatches -> Verdicts]
  /\ intake \in Seq(Tickets)
  /\ shardQueue \in [Shards -> Seq(Tickets)]
  /\ pending \in [Shards -> Seq(Tickets)]
  /\ current \in [Shards -> Seq(Tickets)]
  /\ todo \in [Shards -> Seq(Tickets)]
  /\ pc \in [Shards -> Steps]
  /\ fault \in [Shards -> {"none", "invariant", "empty", "other"}]
  /\ plan \in [Shards -> [basis : Nat, streams : Seq(Aggregates)]]
  /\ staged \in [Shards -> Seq(Nat)]
  /\ lock \in Shards \cup {NoShard}
  /\ model \in Seq(Nat)
  /\ published \in Seq(Nat)
  /\ log \subseteq Event
  /\ lastSeq \in Nat
  /\ receipts \in [Commands -> {NoReceipt} \cup Receipt]
  /\ up \in BOOLEAN
  /\ crashes \in Nat

\* The serial commit section after its head.
Section == {"write", "swap", "publish"}

\* The read model of the first n events.
Count(n) == [i \in 1..n |-> i]

\* A worker has an envelope in hand unless it is idle, and only one when the
\* failure path runs.
WorkersInOrder ==
  \A s \in Shards :
    /\ pc[s] = "idle" <=> current[s] = <<>>
    /\ pc[s] \in {"compensate", "refuse"} => Single(s)
    /\ ~up => pc[s] = "idle"

\* commitLock excludes: its holder is the one worker in the section.
LockIsHeld == \A s \in Shards : lock = s <=> pc[s] \in Section

\* The envelopes that belong on shard s.
OnShard(s) == {n \in Tickets : ShardOf[Owner(n)] = s}

\* An envelope is only ever in the hands of the shard of its aggregate.
EnvelopesArePlaced ==
  \A s \in Shards :
    /\ shardQueue[s] \in Seq(OnShard(s)) /\ pending[s] \in Seq(OnShard(s))
    /\ current[s] \in Seq(OnShard(s)) /\ todo[s] \in Seq(OnShard(s))

\* How far the model and the subscribers are, step by step of the section.
ModelInStep ==
  /\ \A e \in log : e.seq <= lastSeq
  /\ \A s \in Shards : pc[s] \in {"swap", "publish"} =>
       /\ Size(s) <= lastSeq
       /\ staged[s] = Count(lastSeq)
       /\ published = Count(lastSeq - Size(s))
       /\ model = IF pc[s] = "swap" THEN published ELSE staged[s]
  /\ up /\ (\A s \in Shards : pc[s] \notin {"swap", "publish"}) =>
       model = Count(lastSeq) /\ published = Count(lastSeq)

\* What is about to be written or refused has no receipt yet.
UndecidedUntilWritten ==
  \A s \in Shards : pc[s] \in {"write", "compensate"} =>
    \A i \in 1..Len(current[s]) : ReceiptStatus(CommandOf(current[s][i])) = "none"

\* The inductive invariant behind the theorems.
IInv ==
  /\ TypeOK
  /\ WorkersInOrder
  /\ LockIsHeld
  /\ EnvelopesArePlaced
  /\ ModelInStep
  /\ UndecidedUntilWritten

\* The commands whose receipt lives as long as their events: all of them when
\* nothing is deleted, else those that write to their own aggregate only.  A
\* receipt is filed under the last event's aggregate and purged with it.
Lasting ==
  {c \in Commands : Deletions = {} \/
     \A o \in Outcomes[c] : \A i \in 1..Len(o) : o[i] = AggregateOf[c]}

\* A command id executes at most once, whatever retries, duplicate dispatches,
\* batch fallbacks, deletions and restarts do: its events in the log come from
\* one envelope, and no other command's event lies between them.
AtMostOnce ==
  \A e, f, g \in log :
    e.cmd = g.cmd /\ e.cmd \in Lasting /\ e.seq <= f.seq /\ f.seq <= g.seq =>
      f.cmd = e.cmd /\ e.env = g.env

\* The receipts and the log agree: a command with events has an accepted
\* receipt that names its last event, so a rejected one left no event behind.
ReceiptsTellTheLog ==
  \A e \in log : e.cmd \in Lasting =>
    /\ receipts[e.cmd].status = "accepted"
    /\ e.seq <= receipts[e.cmd].seq
    /\ \E f \in log : f.cmd = e.cmd /\ f.seq = receipts[e.cmd].seq

\* A written plan is one the decider gave for the envelope in hand.
PlansAreOutcomes ==
  \A s \in Shards : pc[s] = "write" /\ Single(s) =>
    plan[s].streams \in Outcomes[CommandOf(current[s][1])]

\* Past its admission a batch holds no command twice.
BatchesAreDistinct ==
  \A s \in Shards : pc[s] \in {"commit", "write"} /\ ~Single(s) => Distinct(current[s])

\* Where streams are purged, the events and the receipt of a command that
\* writes to its own aggregate only are filed under that aggregate.
FiledTogether ==
  Deletions # {} =>
    /\ \A e \in log : e.cmd \in Lasting => e.stream = AggregateOf[e.cmd]
    /\ \A c \in Lasting : ReceiptStatus(c) # "none" =>
         receipts[c].aggregate = AggregateOf[c]

\* The inductive invariant behind exactly-once execution.
LogInv ==
  /\ IInv
  /\ PlansAreOutcomes
  /\ BatchesAreDistinct
  /\ FiledTogether
  /\ ReceiptsTellTheLog
  /\ AtMostOnce

\* Whenever nobody is in the commit section, the read model has applied, and
\* subscribers have seen, every event ever committed exactly once and in order.
\* (That is why the failure path normally finds nothing to replay.)
ModelTracksLog ==
  up /\ lock = NoShard =>
    /\ model = [i \in 1..lastSeq |-> i]
    /\ published = model

\* decide() ran on a model that held every event before the command's own.
DecidedOnFreshModel ==
  \A e, f \in log : e.basis < f.seq /\ f.seq < e.seq => f.env = e.env

\* Commands of one aggregate commit in the order they were dispatched, however
\* the batch windows split the shard's queue.
PerAggregateFIFO ==
  \A e, f \in log :
    e.seq < f.seq /\ AggregateOf[e.cmd] = AggregateOf[f.cmd] => e.env <= f.env

\* What a caller was told is durable: accepted and rejected have their receipt,
\* and a dispatch that failed committed none of its events.
AnswersAreDurable ==
  \A n \in 1..Len(dispatched) :
    /\ answer[n] \in {"accepted", "rejected"} =>
         receipts[CommandOf(n)].status = answer[n]
    /\ answer[n] = "failed" => \A e \in log : e.env # n

\* A caller that was answered reads its own events: they are in the read model
\* and were published before the answer.
AnsweredIsVisible ==
  up => \A n \in 1..Len(dispatched) : \A e \in log :
    answer[n] = "accepted" /\ e.cmd = CommandOf(n) /\ e.env <= n =>
      /\ e.seq <= SnapshotSequence(model)
      /\ e.seq <= SnapshotSequence(published)

\* A receipt is final: no retry, failure path or restart changes a verdict.  It
\* disappears only in a commit that purges the stream of its aggregate.
VerdictIsFinal ==
  [][\A c \in Commands : receipts[c].status # "none" =>
       \/ receipts'[c] = receipts[c]
       \/ \E s \in Shards :
            /\ pc[s] = "write" /\ pc'[s] = "swap"
            /\ receipts[c].aggregate \in Purged(current[s][1], plan[s])]_vars

\* Where nothing is deleted, the engine implements the abstract command log.
CmdLog == INSTANCE CommandLog WITH
  verdict <- [c \in Commands |-> receipts[c].status],
  history <- {[seq |-> e.seq, cmd |-> e.cmd] : e \in log}
ImplementsCommandLog == CmdLog!Spec

\* Every dispatch is answered, unless the process stops while it waits.
EveryDispatchAnswered ==
  \A n \in 1..MaxDispatches :
    n <= Len(dispatched) ~> answer[n] # "waiting"
=============================================================================
