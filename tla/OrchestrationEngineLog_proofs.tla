-------------------- MODULE OrchestrationEngineLog_proofs --------------------
(***************************************************************************)
(* Proofs about the durable side of OrchestrationEngine: log and receipts  *)
(* agree, a command executes at most once, and the engine implements the   *)
(* abstract CommandLog.  The second half follows the tickets: commands     *)
(* commit and are answered in the order they were dispatched, answers are  *)
(* visible and durable, and decisions rest on fresh models.                *)
(***************************************************************************)
EXTENDS OrchestrationEngine_proofs

\* The invariant of log and receipts holds initially.
LEMMA LogInit == Init => LogInv
<1> SUFFICES ASSUME Init PROVE LogInv
  OBVIOUS
<1>1. PlansAreOutcomes /\ BatchesAreDistinct
  BY DEF Init, PlansAreOutcomes, BatchesAreDistinct
<1>2. FiledTogether
  BY DEF Init, FiledTogether, ReceiptStatus, NoReceipt, Lasting
<1>3. ReceiptsTellTheLog /\ AtMostOnce
  BY DEF Init, ReceiptsTellTheLog, AtMostOnce
<1> QED
  BY <1>1, <1>2, <1>3, InitOK DEF LogInv

\* How a worker gets to the commit section and to its transaction.
LEMMA Moves ==
  ASSUME IInv, NEW s \in Shards, Work(s) \/ Locking(s),
         NEW r \in Shards, pc'[r] \in {"commit", "write"}
  PROVE  \/ pc'[r] = pc[r] /\ current'[r] = current[r] /\ plan'[r] = plan[r]
         \/ /\ pc'[r] = "commit" /\ current'[r] = current[r]
            /\ Single(r) \/ Distinct(current[r])
         \/ /\ pc[r] = "commit" /\ pc'[r] = "write" /\ current'[r] = current[r]
            /\ Single(r) =>
                 plan'[r].streams \in Outcomes[CommandOf(current[r][1])]
<1> DEFINE Same == pc'[r] = pc[r] /\ current'[r] = current[r] /\ plan'[r] = plan[r]
<1> USE Typed DEF At, Goto, Advance, FallBack
<1>1. CASE Take(s)
  BY <1>1 DEF Take
<1>2. CASE CandidateArrives(s)
  BY <1>2 DEF CandidateArrives
<1>3. CASE PollBatch(s)
  <2>1. /\ pc' = [pc EXCEPT ![s] = "admit"] /\ plan' = plan
        /\ \E q : current' = [current EXCEPT ![s] = q]
    BY <1>3 DEF PollBatch
  <2> QED
    BY <2>1
<1>4. CASE Admit(s)
  BY <1>4 DEF Admit, Replay, Fail
<1>5. CASE AdmitBatch(s)
  BY <1>5 DEF AdmitBatch
<1>6. CASE Write(s) \/ WriteBatch(s) \/ Swap(s) \/ Publish(s)
  BY <1>6 DEF Write, WriteBatch, Swap, Publish
<1>7. CASE WriteFails(s) \/ WriteBatchFails(s)
  BY <1>7 DEF WriteFails, Fail, WriteBatchFails
<1>8. CASE Finish(s) \/ Refuse(s)
  BY <1>8 DEF Finish, Refuse
<1>9. CASE Decide(s)
  <2>1. CASE DecideEvents(s)
    BY <1>9, <2>1 DEF Decide, DecideEvents
  <2>2. CASE ~DecideEvents(s)
    BY <1>9, <2>2 DEF Decide, AcceptNoOp, Replay, Fail
  <2> QED
    BY <2>1, <2>2
<1>10. CASE CheckBatch(s)
  BY <1>10 DEF CheckBatch
<1>11. CASE Compensate(s)
  BY <1>11 DEF Compensate
<1> QED
  BY <1>1, <1>2, <1>3, <1>4, <1>5, <1>6, <1>7, <1>8, <1>9, <1>10, <1>11 DEF Work, Locking

\* Decided plans and distinct batches stay what they were.
LEMMA PlansStep ==
  ASSUME LogInv, [Next]_vars
  PROVE  PlansAreOutcomes' /\ BatchesAreDistinct'
<1>1. IInv /\ PlansAreOutcomes /\ BatchesAreDistinct
  BY DEF LogInv
<1>2. ASSUME UNCHANGED <<dispatched, pc, current, plan>>
      PROVE  PlansAreOutcomes' /\ BatchesAreDistinct'
  BY <1>1, <1>2 DEF PlansAreOutcomes, BatchesAreDistinct, Single, CommandOf, Distinct
<1>3. ASSUME NEW c \in Commands, Dispatch(c)
      PROVE  PlansAreOutcomes' /\ BatchesAreDistinct'
  <2>1. UNCHANGED <<pc, current, plan>>
    BY <1>3 DEF Dispatch, workers
  <2>2. \A i \in Tickets : dispatched'[i] = dispatched[i]
    BY <1>1, <1>3, AppendProperties DEF Dispatch, IInv, TypeOK, Tickets
  <2>3. \A s \in Shards : \A i \in 1..Len(current[s]) : CommandOf(current[s][i])' = CommandOf(current[s][i])
    BY <1>1, <2>1, <2>2, Typed, ElementOfSeq DEF CommandOf
  <2>4. \A s \in Shards : Single(s) => 1 \in 1..Len(current[s])
    BY DEF Single
  <2>5. PlansAreOutcomes'
    BY <1>1, <2>1, <2>3, <2>4 DEF PlansAreOutcomes, Single, CommandOf
  <2>6. BatchesAreDistinct'
    BY <1>1, <2>1, <2>3 DEF BatchesAreDistinct, Single, CommandOf, Distinct
  <2> QED
    BY <2>5, <2>6
<1>4. ASSUME NEW s \in Shards, Work(s) \/ Locking(s)
      PROVE  PlansAreOutcomes' /\ BatchesAreDistinct'
  <2>1. UNCHANGED dispatched
    BY <1>4 DEF Work, Locking, callers, Take, CandidateArrives, PollBatch, Admit, AdmitBatch,
                Write, WriteFails, WriteBatch, WriteBatchFails, Swap, Publish, Finish, Refuse,
                Decide, CheckBatch, Compensate
  <2>2. PlansAreOutcomes'
    <3> SUFFICES ASSUME NEW r \in Shards, pc'[r] = "write", Single(r)'
                 PROVE  plan'[r].streams \in Outcomes[CommandOf(current'[r][1])]
      BY <2>1 DEF PlansAreOutcomes, CommandOf
    <3> QED
      BY <1>1, <1>4, Moves DEF PlansAreOutcomes, Single
  <2>3. BatchesAreDistinct'
    <3> SUFFICES ASSUME NEW r \in Shards, pc'[r] \in {"commit", "write"}, ~Single(r)'
                 PROVE  Distinct(current'[r])
      BY <2>1 DEF BatchesAreDistinct, CommandOf, Distinct
    <3> QED
      BY <1>1, <1>4, Moves DEF BatchesAreDistinct, Single
  <2> QED
    BY <2>2, <2>3
<1>5. CASE Crash
  BY <1>5 DEF Crash, PlansAreOutcomes, BatchesAreDistinct
<1> QED
  BY <1>2, <1>3, <1>4, <1>5 DEF Next, vars, callers, workers, Route, Boot

\* A receipt without events: of a no-op, or of a refused command.
LEMMA ReceiptAlone ==
  ASSUME LogInv, NEW c \in Commands, ReceiptStatus(c) = "none", UNCHANGED log,
         NEW rec, receipts' = [receipts EXCEPT ![c] = rec], rec.aggregate = AggregateOf[c]
  PROVE  FiledTogether' /\ ReceiptsTellTheLog' /\ AtMostOnce'
<1>1. FiledTogether /\ ReceiptsTellTheLog /\ AtMostOnce /\ receipts \in [Commands -> {NoReceipt} \cup Receipt]
  BY DEF LogInv, IInv, TypeOK
<1>2. Lasting \subseteq Commands
  BY DEF Lasting
<1>3. FiledTogether'
  BY <1>1, <1>2 DEF FiledTogether, ReceiptStatus
<1>4. \A e \in log : e.cmd \in Lasting => receipts'[e.cmd] = receipts[e.cmd]
  BY <1>1, <1>2 DEF ReceiptsTellTheLog, ReceiptStatus
<1>5. ReceiptsTellTheLog'
  BY <1>1, <1>4 DEF ReceiptsTellTheLog
<1>6. AtMostOnce'
  BY <1>1 DEF AtMostOnce
<1> QED
  BY <1>3, <1>5, <1>6

\* A single command's transaction keeps log and receipts in agreement.
LEMMA WriteKeepsLog ==
  ASSUME LogInv, NEW s \in Shards, Write(s)
  PROVE  FiledTogether' /\ ReceiptsTellTheLog' /\ AtMostOnce'
<1> DEFINE n == current[s][1]
           c == CommandOf(n)
           q == plan[s].streams
           k == Len(q)
           gone == Purged(n, plan[s])
           new == EventsOf(n, plan[s])
<1>0. IInv
  BY DEF LogInv
<1>1. /\ pc[s] = "write" /\ Single(s) /\ q # <<>>
      /\ log' = Kept(log \cup new, gone)
      /\ receipts' = [KeptReceipts(gone) EXCEPT ![c] =
                       [status |-> "accepted", seq |-> lastSeq + k, aggregate |-> q[k]]]
  BY DEF Write, At
<1>2. /\ c \in Commands /\ q \in Seq(Aggregates) /\ k \in Nat /\ k >= 1 /\ lastSeq \in Nat
      /\ receipts \in [Commands -> {NoReceipt} \cup Receipt]
  BY <1>0, <1>1, Held, Typed, SeqTake, LockFacts
<1>3. ReceiptStatus(c) = "none" /\ q \in Outcomes[c]
  BY <1>1 DEF LogInv, IInv, UndecidedUntilWritten, PlansAreOutcomes, Single
<1>4. FiledTogether /\ ReceiptsTellTheLog /\ AtMostOnce
  BY DEF LogInv
<1>5. \A e \in log : e.seq \in Nat /\ e.seq <= lastSeq
  BY <1>0 DEF IInv, TypeOK, ModelInStep, Event
<1>6. \A e \in new : /\ e.seq \in Nat /\ e.seq > lastSeq /\ e.seq <= lastSeq + k
                     /\ e.cmd = c /\ e.env = n
                     /\ \E j \in 1..k : e.stream = q[j]
  BY <1>2 DEF EventsOf
<1>7. c \in Lasting => \A e \in log : e.cmd # c
  BY <1>3, <1>4 DEF ReceiptsTellTheLog, ReceiptStatus
<1>8. Deletions # {} /\ c \in Lasting => \A j \in 1..k : q[j] = AggregateOf[c]
  BY <1>3 DEF Lasting
<1>9. Deletions = {} => gone = {}
  BY DEF Purged
<1>10. c \in Deletions => new \cap log' = {}
  <2> SUFFICES ASSUME c \in Deletions, NEW e \in new PROVE e \notin log'
    OBVIOUS
  <2>1. e.stream \in gone
    BY <1>6 DEF Purged
  <2> QED
    BY <1>1, <2>1 DEF Kept
<1>11. c \notin Deletions => gone = {}
  BY DEF Purged
<1>12. log' \subseteq log \cup new
  BY <1>1 DEF Kept
<1>13. \E e \in new : e.seq = lastSeq + k
  <2> DEFINE last == [seq |-> lastSeq + k, cmd |-> c, env |-> n,
                      stream |-> q[k], basis |-> plan[s].basis]
  <2>1. k \in 1..k
    BY <1>2
  <2>2. last \in new
    BY <2>1 DEF EventsOf
  <2> QED
    BY <2>2
<1>14. Lasting \subseteq Commands
  BY DEF Lasting
<1>15. KeptReceipts(gone) \in [Commands -> {NoReceipt} \cup Receipt]
  BY <1>2 DEF KeptReceipts
<1>16. \A d \in Commands \ {c} : \/ receipts'[d] = receipts[d]
                                 \/ receipts'[d] = NoReceipt /\ receipts[d].aggregate \in gone
  BY <1>1, <1>15 DEF KeptReceipts
<1>17. receipts'[c] = [status |-> "accepted", seq |-> lastSeq + k, aggregate |-> q[k]]
  BY <1>1, <1>2, <1>15
<1>18. \A e \in log' : e.stream \notin gone
  BY <1>1 DEF Kept
<1>19. \A e \in log \cup new : e.stream \notin gone => e \in log'
  BY <1>1 DEF Kept
<1> HIDE DEF n, c, q, k, gone, new
<1>20. FiledTogether'
  <2> SUFFICES ASSUME Deletions # {}
               PROVE  /\ \A e \in log' : e.cmd \in Lasting => e.stream = AggregateOf[e.cmd]
                      /\ \A d \in Lasting : receipts'[d].status # "none" =>
                           receipts'[d].aggregate = AggregateOf[d]
    BY DEF FiledTogether, ReceiptStatus
  <2>1. ASSUME NEW e \in log', e.cmd \in Lasting PROVE e.stream = AggregateOf[e.cmd]
    BY <2>1, <1>4, <1>6, <1>8, <1>12 DEF FiledTogether
  <2>2. ASSUME NEW d \in Lasting, receipts'[d].status # "none"
        PROVE  receipts'[d].aggregate = AggregateOf[d]
    <3>1. CASE d = c
      <4>1. k \in 1..k
        BY <1>2
      <4> QED
        BY <3>1, <4>1, <1>8, <1>17
    <3>2. CASE d # c
      BY <2>2, <3>2, <1>4, <1>14, <1>16 DEF FiledTogether, ReceiptStatus, NoReceipt
    <3> QED
      BY <3>1, <3>2
  <2> QED
    BY <2>1, <2>2
<1>21. ReceiptsTellTheLog'
  <2> SUFFICES ASSUME NEW e \in log', e.cmd \in Lasting
               PROVE  /\ receipts'[e.cmd].status = "accepted" /\ e.seq <= receipts'[e.cmd].seq
                      /\ \E f \in log' : f.cmd = e.cmd /\ f.seq = receipts'[e.cmd].seq
    BY DEF ReceiptsTellTheLog
  <2>1. CASE e \in new
    <3>1. e.cmd = c /\ e.seq <= lastSeq + k
      BY <2>1, <1>6
    <3>2. gone = {}
      BY <2>1, <1>10, <1>11
    <3>3. PICK f \in new : f.seq = lastSeq + k
      BY <1>13
    <3>4. f \in log' /\ f.cmd = c
      BY <3>2, <3>3, <1>6, <1>19
    <3> QED
      BY <3>1, <3>3, <3>4, <1>17
  <2>2. CASE e \in log
    <3>1. e.cmd # c /\ e.cmd \in Commands
      BY <2>2, <1>7, <1>14
    <3>2. /\ receipts[e.cmd].status = "accepted" /\ e.seq <= receipts[e.cmd].seq
          /\ \E f \in log : f.cmd = e.cmd /\ f.seq = receipts[e.cmd].seq
      BY <2>2, <1>4 DEF ReceiptsTellTheLog
    <3>3. PICK f \in log : f.cmd = e.cmd /\ f.seq = receipts[e.cmd].seq
      BY <3>2
    <3>4. Deletions # {} => receipts[e.cmd].aggregate = e.stream /\ f.stream = e.stream
      BY <2>2, <3>2, <3>3, <1>4 DEF FiledTogether, ReceiptStatus
    <3>5. e.stream \notin gone
      BY <1>18
    <3>6. receipts'[e.cmd] = receipts[e.cmd]
      BY <3>1, <3>4, <3>5, <1>9, <1>16
    <3>7. f \in log'
      BY <3>4, <3>5, <1>9, <1>19
    <3> QED
      BY <3>2, <3>3, <3>6, <3>7
  <2> QED
    BY <2>1, <2>2, <1>12
<1>22. AtMostOnce'
  <2> SUFFICES ASSUME NEW e \in log', NEW f \in log', NEW g \in log',
                      e.cmd = g.cmd, e.cmd \in Lasting, e.seq <= f.seq, f.seq <= g.seq
               PROVE  f.cmd = e.cmd /\ e.env = g.env
    BY DEF AtMostOnce
  <2>1. CASE g \in log
    <3>1. /\ e.seq \in Nat /\ f.seq \in Nat /\ g.seq <= lastSeq /\ g.seq \in Nat
      BY <2>1, <1>5, <1>6, <1>12
    <3>2. e.seq <= lastSeq /\ f.seq <= lastSeq
      BY <3>1, <1>2
    <3>3. e \in log /\ f \in log
      BY <3>1, <3>2, <1>2, <1>6, <1>12
    <3> QED
      BY <2>1, <3>3, <1>4 DEF AtMostOnce
  <2>2. CASE g \in new
    <3>1. g.cmd = c /\ g.env = n
      BY <2>2, <1>6
    <3>2. e \in new
      BY <3>1, <1>7, <1>12
    <3>3. f \in new
      <4>1. e.seq > lastSeq /\ e.seq \in Nat /\ f.seq \in Nat
        BY <3>2, <1>5, <1>6, <1>12
      <4>2. f.seq > lastSeq
        BY <4>1, <1>2
      <4> QED
        BY <4>1, <4>2, <1>2, <1>5, <1>12
    <3> QED
      BY <3>1, <3>2, <3>3, <1>6
  <2> QED
    BY <2>1, <2>2, <1>12
<1> QED
  BY <1>20, <1>21, <1>22

\* A batch's transaction keeps log and receipts in agreement.
LEMMA WriteBatchKeepsLog ==
  ASSUME LogInv, NEW s \in Shards, WriteBatch(s)
  PROVE  FiledTogether' /\ ReceiptsTellTheLog' /\ AtMostOnce'
<1> DEFINE q == current[s]
           k == Len(q)
           new == BatchEvents(q)
<1>0. IInv
  BY DEF LogInv
<1>1. /\ pc[s] = "write" /\ ~Single(s)
      /\ log' = log \cup new
      /\ receipts' = [c \in Commands |->
              IF \E i \in 1..k : CommandOf(q[i]) = c
              THEN [status |-> "accepted",
                    seq |-> lastSeq + CHOOSE i \in 1..k : CommandOf(q[i]) = c,
                    aggregate |-> AggregateOf[c]]
              ELSE receipts[c]]
  BY DEF WriteBatch, At
<1>2. q \in Seq(Tickets) /\ k \in Nat /\ lastSeq \in Nat
  BY <1>0, <1>1, Held, LockFacts
<1>3. Distinct(q)
  BY <1>1 DEF LogInv, BatchesAreDistinct
<1>4. FiledTogether /\ ReceiptsTellTheLog /\ AtMostOnce
  BY DEF LogInv
<1>5. \A e \in log : e.seq \in Nat /\ e.seq <= lastSeq
  BY <1>0 DEF IInv, TypeOK, ModelInStep, Event
<1>6. \A e \in new : \E i \in 1..k :
        /\ e.seq = lastSeq + i /\ e.cmd = CommandOf(q[i]) /\ e.env = q[i]
        /\ e.stream = AggregateOf[e.cmd]
  BY DEF BatchEvents, Owner
<1>7. \A i \in 1..k : CommandOf(q[i]) \in Commands /\ receipts[CommandOf(q[i])].status = "none"
  <2> TAKE i \in 1..k
  <2>1. q[i] \in Tickets
    BY <1>2, ElementOfSeq
  <2>2. CommandOf(q[i]) \in Commands
    BY <1>0, <2>1, ElementOfSeq DEF IInv, TypeOK, CommandOf, Tickets
  <2> QED
    BY <1>0, <1>1, <2>2 DEF IInv, UndecidedUntilWritten, ReceiptStatus
<1>8. \A i \in 1..k : /\ receipts'[CommandOf(q[i])].status = "accepted"
                      /\ receipts'[CommandOf(q[i])].seq = lastSeq + i
                      /\ receipts'[CommandOf(q[i])].aggregate = AggregateOf[CommandOf(q[i])]
  <2> TAKE i \in 1..k
  <2>1. (CHOOSE j \in 1..k : CommandOf(q[j]) = CommandOf(q[i])) = i
    BY <1>3 DEF Distinct
  <2> HIDE DEF q, k
  <2> QED
    BY <1>1, <1>7, <2>1
<1>9. \A c \in Commands : (\A i \in 1..k : CommandOf(q[i]) # c) => receipts'[c] = receipts[c]
  BY <1>1
<1>10. \A e \in log : e.cmd \in Lasting => \A i \in 1..k : CommandOf(q[i]) # e.cmd
  BY <1>4, <1>7 DEF ReceiptsTellTheLog
<1>11. Lasting \subseteq Commands
  BY DEF Lasting
<1>12. \A i, j \in 1..k : CommandOf(q[i]) = CommandOf(q[j]) => i = j
  BY <1>3 DEF Distinct
<1> HIDE DEF q, k, new
<1>13. FiledTogether'
  <2> SUFFICES ASSUME Deletions # {}
               PROVE  /\ \A e \in log' : e.cmd \in Lasting => e.stream = AggregateOf[e.cmd]
                      /\ \A d \in Lasting : receipts'[d].status # "none" =>
                           receipts'[d].aggregate = AggregateOf[d]
    BY DEF FiledTogether, ReceiptStatus
  <2>1. ASSUME NEW e \in log', e.cmd \in Lasting PROVE e.stream = AggregateOf[e.cmd]
    BY <2>1, <1>1, <1>4, <1>6 DEF FiledTogether
  <2>2. ASSUME NEW d \in Lasting, receipts'[d].status # "none"
        PROVE  receipts'[d].aggregate = AggregateOf[d]
    <3>1. CASE \E i \in 1..k : CommandOf(q[i]) = d
      BY <3>1, <1>8
    <3>2. CASE \A i \in 1..k : CommandOf(q[i]) # d
      BY <2>2, <3>2, <1>4, <1>9, <1>11 DEF FiledTogether, ReceiptStatus
    <3> QED
      BY <3>1, <3>2
  <2> QED
    BY <2>1, <2>2
<1>14. ReceiptsTellTheLog'
  <2> SUFFICES ASSUME NEW e \in log', e.cmd \in Lasting
               PROVE  /\ receipts'[e.cmd].status = "accepted" /\ e.seq <= receipts'[e.cmd].seq
                      /\ \E f \in log' : f.cmd = e.cmd /\ f.seq = receipts'[e.cmd].seq
    BY DEF ReceiptsTellTheLog
  <2>1. CASE e \in new
    <3>1. PICK i \in 1..k : e.seq = lastSeq + i /\ e.cmd = CommandOf(q[i])
      BY <2>1, <1>6
    <3>2. receipts'[e.cmd].status = "accepted" /\ receipts'[e.cmd].seq = e.seq
      BY <3>1, <1>8
    <3>3. e.seq <= e.seq
      BY <3>1, <1>2
    <3> QED
      BY <3>2, <3>3
  <2>2. CASE e \in log
    <3>1. receipts'[e.cmd] = receipts[e.cmd]
      BY <2>2, <1>9, <1>10, <1>11
    <3> QED
      BY <2>2, <3>1, <1>1, <1>4 DEF ReceiptsTellTheLog
  <2> QED
    BY <2>1, <2>2, <1>1
<1>15. AtMostOnce'
  <2> SUFFICES ASSUME NEW e \in log', NEW f \in log', NEW g \in log',
                      e.cmd = g.cmd, e.cmd \in Lasting, e.seq <= f.seq, f.seq <= g.seq
               PROVE  f.cmd = e.cmd /\ e.env = g.env
    BY DEF AtMostOnce
  <2>1. \A h \in new : h.seq \in Nat /\ h.seq > lastSeq
    BY <1>2, <1>6
  <2>2. CASE g \in log
    <3>1. e.seq \in Nat /\ f.seq \in Nat /\ g.seq \in Nat /\ g.seq <= lastSeq
      BY <2>1, <2>2, <1>1, <1>5
    <3>2. e.seq <= lastSeq /\ f.seq <= lastSeq
      BY <3>1, <1>2
    <3>3. e \in log /\ f \in log
      BY <2>1, <3>1, <3>2, <1>1, <1>2
    <3> QED
      BY <2>2, <3>3, <1>4 DEF AtMostOnce
  <2>3. CASE g \in new
    <3>1. PICK j \in 1..k : g.seq = lastSeq + j /\ g.cmd = CommandOf(q[j]) /\ g.env = q[j]
      BY <2>3, <1>6
    <3>2. e \in new
      BY <3>1, <1>1, <1>10
    <3>3. PICK i \in 1..k : e.seq = lastSeq + i /\ e.cmd = CommandOf(q[i]) /\ e.env = q[i]
      BY <3>2, <1>6
    <3>4. i = j
      BY <3>1, <3>3, <1>12
    <3>5. f.seq \in Nat /\ f.seq = lastSeq + i
      BY <2>1, <3>1, <3>3, <3>4, <1>1, <1>2, <1>5
    <3>6. f \in new
      BY <3>3, <3>5, <1>1, <1>2, <1>5
    <3>7. PICK l \in 1..k : f.seq = lastSeq + l /\ f.cmd = CommandOf(q[l])
      BY <3>6, <1>6
    <3>8. l = i
      BY <3>5, <3>7, <1>2
    <3> QED
      BY <3>1, <3>3, <3>4, <3>7, <3>8
  <2> QED
    BY <2>2, <2>3, <1>1
<1> QED
  BY <1>13, <1>14, <1>15

\* The only steps that write the log or the receipts.
LEMMA RecordingSteps ==
  ASSUME [Next]_vars
  PROVE  \/ UNCHANGED <<log, receipts>>
         \/ \E s \in Shards : Decide(s) /\ AcceptNoOp(s)
         \/ \E s \in Shards : Compensate(s) \/ Write(s) \/ WriteBatch(s)
<1>1. ASSUME NEW s \in Shards, Work(s)
      PROVE  UNCHANGED <<log, receipts>> \/ Write(s) \/ WriteBatch(s)
  BY <1>1 DEF Work, durable, Take, CandidateArrives, PollBatch, Admit, AdmitBatch, WriteFails,
              WriteBatchFails, Swap, Publish, Finish, Refuse
<1>2. ASSUME NEW s \in Shards, Locking(s)
      PROVE  UNCHANGED <<log, receipts>> \/ (Decide(s) /\ AcceptNoOp(s)) \/ Compensate(s)
  BY <1>2 DEF Locking, durable, Decide, DecideEvents, CheckBatch
<1> QED
  BY <1>1, <1>2 DEF Next, vars, durable, Dispatch, Route, Crash, Boot

\* Every step keeps log and receipts in agreement.
LEMMA RecordsStep ==
  ASSUME LogInv, [Next]_vars
  PROVE  FiledTogether' /\ ReceiptsTellTheLog' /\ AtMostOnce'
<1>0. IInv
  BY DEF LogInv
<1>1. CASE UNCHANGED <<log, receipts>>
  BY <1>1 DEF LogInv, FiledTogether, ReceiptStatus, ReceiptsTellTheLog, AtMostOnce
<1>2. ASSUME NEW s \in Shards, Decide(s), AcceptNoOp(s)
      PROVE  FiledTogether' /\ ReceiptsTellTheLog' /\ AtMostOnce'
  <2>1. CommandOf(current[s][1]) \in Commands /\ UNCHANGED log
    BY <1>0, <1>2, Held DEF Decide, At
  <2> QED
    BY <1>2, <2>1, ReceiptAlone DEF AcceptNoOp
<1>3. ASSUME NEW s \in Shards, Compensate(s)
      PROVE  FiledTogether' /\ ReceiptsTellTheLog' /\ AtMostOnce'
  <2>1. pc[s] = "compensate" /\ Single(s) /\ UNCHANGED log
    BY <1>0, <1>3 DEF Compensate, At, IInv, WorkersInOrder
  <2>2. ReceiptStatus(CommandOf(current[s][1])) = "none" /\ CommandOf(current[s][1]) \in Commands
    BY <1>0, <2>1, Held DEF IInv, UndecidedUntilWritten, Single
  <2> QED
    BY <1>1, <1>3, <2>1, <2>2, ReceiptAlone DEF Compensate, Owner
<1>4. ASSUME NEW s \in Shards, Write(s) \/ WriteBatch(s)
      PROVE  FiledTogether' /\ ReceiptsTellTheLog' /\ AtMostOnce'
  BY <1>4, WriteKeepsLog, WriteBatchKeepsLog
<1> QED
  BY <1>1, <1>2, <1>3, <1>4, RecordingSteps

\* The invariant of log and receipts holds in every reachable state.
THEOREM LogInvariance == Spec => []LogInv
<1>1. IInv /\ [Next]_vars => IInv'
  BY NextOK
<1>2. LogInv /\ [Next]_vars => LogInv'
  BY <1>1, PlansStep, RecordsStep DEF LogInv
<1> QED
  BY LogInit, <1>2, PTL DEF Spec

\* A command executes at most once and its receipt tells its last event,
\* however it is retried, batched, interrupted or deleted.
THEOREM ExactlyOnce == Spec => [](AtMostOnce /\ ReceiptsTellTheLog)
BY LogInvariance, PTL DEF LogInv

-----------------------------------------------------------------------------
(* Refinement *)

Verdict == [c \in Commands |-> receipts[c].status]
History == {[seq |-> e.seq, cmd |-> e.cmd] : e \in log}

\* Writing a receipt is a verdict of the abstract log.
LEMMA VerdictOfReceipt ==
  ASSUME NEW c \in Commands, NEW rec, receipts \in [Commands -> {NoReceipt} \cup Receipt],
         receipts' = [receipts EXCEPT ![c] = rec]
  PROVE  Verdict' = [Verdict EXCEPT ![c] = rec.status]
BY DEF Verdict

\* The sequences in the log.
LEMMA LogSequences ==
  ASSUME LogInv
  PROVE  \A e \in log : e.seq \in Nat /\ e.seq <= lastSeq /\ lastSeq \in Nat
BY DEF LogInv, IInv, TypeOK, ModelInStep, Event

\* A commit of the commands cs, whose new rows are consecutive per command.
LEMMA CommitIsExecute ==
  ASSUME LogInv, Lasting = Commands, NEW cs \in SUBSET Commands, cs # {},
         log \subseteq log',
         \A e \in log' \ log : e.seq \in Nat /\ e.seq > lastSeq /\ e.cmd \in cs,
         \A c \in cs : \E e \in log' \ log : e.cmd = c,
         AtMostOnce',
         \A c \in cs : receipts[c].status = "none" /\ receipts'[c].status = "accepted",
         \A c \in Commands \ cs : receipts'[c] = receipts[c]
  PROVE  CmdLog!Execute(cs)
<1> DEFINE new == log' \ log
<1>0. log' = log \cup new
  OBVIOUS
<1>1. \A e \in log : e.seq \in Nat /\ e.seq <= lastSeq /\ lastSeq \in Nat
  BY LogSequences
<1> DEFINE added == {[seq |-> e.seq, cmd |-> e.cmd] : e \in new}
<1>2. History' = History \cup added
  BY <1>0 DEF History
<1>3. \A h \in History : h.seq \in Nat /\ h.seq <= lastSeq
  BY <1>1 DEF History
<1>4. \A h \in added : h.seq \in Nat /\ h.seq > lastSeq /\ h.cmd \in cs
  OBVIOUS
<1>5. lastSeq \in Nat
  BY DEF LogInv, IInv, TypeOK
<1>6. added \cap History = {}
  BY <1>3, <1>4, <1>5
<1>7. History' \ History = added
  BY <1>2, <1>6
<1>8. cs = {h.cmd : h \in added}
  <2>1. ASSUME NEW e \in new PROVE \E h \in added : h.cmd = e.cmd
    <3> WITNESS [seq |-> e.seq, cmd |-> e.cmd] \in added
    <3> QED
      OBVIOUS
  <2>2. \A h \in added : h.cmd \in cs
    BY <1>4
  <2> HIDE DEF added
  <2> QED
    BY <2>1, <2>2
<1>9. \A h \in added, i \in History : i.seq < h.seq
  BY <1>3, <1>4, <1>5
<1>10. \A h, i, j \in added :
         h.seq <= i.seq /\ i.seq <= j.seq /\ h.cmd = j.cmd => i.cmd = h.cmd
  <2>1. \A e, f, g \in new :
          e.seq <= f.seq /\ f.seq <= g.seq /\ e.cmd = g.cmd => f.cmd = e.cmd
    BY DEF AtMostOnce
  <2> HIDE DEF new
  <2> QED
    BY <2>1
<1>11. Verdict' = [c \in Commands |-> IF c \in cs THEN "accepted" ELSE Verdict[c]]
  BY DEF Verdict
<1>12. \A c \in cs : Verdict[c] = "none"
  BY DEF Verdict
<1> HIDE DEF added
<1>13. History \subseteq History'
  BY <1>2
<1>14. /\ cs = {h.cmd : h \in History' \ History}
       /\ \A h \in History' \ History, i \in History : i.seq < h.seq
       /\ \A h, i, j \in History' \ History :
            h.seq <= i.seq /\ i.seq <= j.seq /\ h.cmd = j.cmd => i.cmd = h.cmd
  BY <1>7, <1>8, <1>9, <1>10
<1> QED
  BY <1>11, <1>12, <1>13, <1>14, Zenon DEF CmdLog!Execute, Verdict, History

\* A single command's transaction is one step of the abstract log.
LEMMA WriteRefines ==
  ASSUME LogInv, LogInv', Deletions = {}, NEW s \in Shards, Write(s)
  PROVE  \E cs \in SUBSET Commands : CmdLog!Execute(cs)
<1> DEFINE n == current[s][1]
           c == CommandOf(n)
           k == Len(plan[s].streams)
           new == EventsOf(n, plan[s])
<1>0. IInv /\ IInv'
  BY DEF LogInv
<1>1. /\ pc[s] = "write" /\ Single(s) /\ plan[s].streams # <<>>
      /\ log' = log \cup new
      /\ receipts' = [receipts EXCEPT ![c] = [status |-> "accepted", seq |-> lastSeq + k,
                        aggregate |-> plan[s].streams[k]]]
  <2>1. Purged(n, plan[s]) = {}
    BY DEF Purged
  <2>2. KeptReceipts({}) = receipts
    BY <1>0, Typed DEF KeptReceipts
  <2> QED
    BY <2>1, <2>2 DEF Write, At, Kept
<1>2. /\ c \in Commands /\ k \in Nat /\ k >= 1 /\ lastSeq \in Nat
      /\ receipts \in [Commands -> {NoReceipt} \cup Receipt]
  BY <1>0, <1>1, Held, Typed, SeqTake, LockFacts
<1>3. receipts[c].status = "none"
  BY <1>1 DEF LogInv, IInv, UndecidedUntilWritten, Single, ReceiptStatus
<1>4. \A e \in new : e.seq \in Nat /\ e.seq > lastSeq /\ e.cmd = c
  BY <1>2 DEF EventsOf
<1>5. new # {}
  <2>1. 1 \in 1..k
    BY <1>2
  <2> QED
    BY <2>1 DEF EventsOf
<1>7. /\ receipts'[c].status = "accepted"
      /\ \A d \in Commands \ {c} : receipts'[d] = receipts[d]
  BY <1>1, <1>2
<1> HIDE DEF n, c, k, new
<1>8. log' \ log = new
  BY <1>1, <1>2, <1>4, LogSequences
<1>9. Lasting = Commands /\ AtMostOnce'
  BY DEF Lasting, LogInv
<1>10. PICK cs \in SUBSET Commands : cs = {c}
  BY <1>2
<1>11. CmdLog!Execute(cs)
  BY <1>1, <1>2, <1>3, <1>4, <1>5, <1>7, <1>8, <1>9, <1>10, CommitIsExecute
<1> QED
  BY <1>11

\* A batch's transaction is one step of the abstract log.
LEMMA WriteBatchRefines ==
  ASSUME LogInv, LogInv', Deletions = {}, NEW s \in Shards, WriteBatch(s)
  PROVE  \E cs \in SUBSET Commands : CmdLog!Execute(cs)
<1> DEFINE q == current[s]
           k == Len(q)
           new == BatchEvents(q)
           cs == {CommandOf(q[i]) : i \in 1..k}
<1>0. IInv /\ IInv'
  BY DEF LogInv
<1>1. /\ pc[s] = "write" /\ ~Single(s) /\ log' = log \cup new
      /\ \A c \in Commands \ cs : receipts'[c] = receipts[c]
      /\ \A c \in Commands \cap cs : receipts'[c].status = "accepted"
  BY DEF WriteBatch, At
<1>2. q \in Seq(Tickets) /\ k \in Nat /\ k >= 1 /\ lastSeq \in Nat
  BY <1>0, <1>1, Held, LockFacts
<1>3. \A i \in 1..k : CommandOf(q[i]) \in Commands /\ receipts[CommandOf(q[i])].status = "none"
  <2> TAKE i \in 1..k
  <2>1. q[i] \in Tickets
    BY <1>2, ElementOfSeq
  <2>2. CommandOf(q[i]) \in Commands
    BY <1>0, <2>1, ElementOfSeq DEF IInv, TypeOK, CommandOf, Tickets
  <2> QED
    BY <1>0, <1>1, <2>2 DEF IInv, UndecidedUntilWritten, ReceiptStatus
<1>4. \A e \in new : e.seq \in Nat /\ e.seq > lastSeq
  BY <1>2 DEF BatchEvents
<1>5. cs \subseteq Commands /\ cs # {} /\ \A c \in cs : receipts[c].status = "none"
  <2>1. 1 \in 1..k
    BY <1>2
  <2> QED
    BY <1>3, <2>1
<1>6. /\ \A e \in new : e.cmd \in cs
      /\ \A c \in cs : \E e \in new : e.cmd = c
  <2>1. ASSUME NEW e \in new PROVE e.cmd \in cs
    BY DEF BatchEvents
  <2>2. ASSUME NEW c \in cs PROVE \E e \in new : e.cmd = c
    <3>1. PICK i \in 1..k : CommandOf(q[i]) = c
      OBVIOUS
    <3> DEFINE row == [seq |-> lastSeq + i, cmd |-> CommandOf(q[i]), env |-> q[i],
                       stream |-> Owner(q[i]),
                       basis |-> IF i = 1 THEN SnapshotSequence(model) ELSE lastSeq + i - 1]
    <3>2. row \in new
      BY DEF BatchEvents
    <3> QED
      BY <3>1, <3>2
  <2> QED
    BY <2>1, <2>2
<1> HIDE DEF new, cs
<1>7. log' \ log = new
  BY <1>1, <1>2, <1>4, LogSequences
<1>8. Lasting = Commands /\ AtMostOnce'
  BY DEF Lasting, LogInv
<1>9. PICK d \in SUBSET Commands : d = cs
  BY <1>5
<1>10. CmdLog!Execute(d)
  BY <1>1, <1>4, <1>5, <1>6, <1>7, <1>8, <1>9, CommitIsExecute
<1> QED
  BY <1>10

\* Every step of the engine is a step of the abstract log, or none.
LEMMA StepRefines ==
  ASSUME LogInv, LogInv', [Next]_vars, Deletions = {}
  PROVE  [CmdLog!Next]_(CmdLog!vars)
<1>0. IInv /\ receipts \in [Commands -> {NoReceipt} \cup Receipt]
  BY DEF LogInv, IInv, TypeOK
<1>1. CASE UNCHANGED <<log, receipts>>
  BY <1>1 DEF CmdLog!vars
<1>2. ASSUME NEW s \in Shards, Decide(s), AcceptNoOp(s)
      PROVE  \E c \in Commands : CmdLog!AcceptNoOp(c)
  <2> DEFINE c == CommandOf(current[s][1])
  <2>1. c \in Commands /\ UNCHANGED log
    BY <1>0, <1>2, Held DEF Decide, At
  <2>2. receipts[c].status = "none" /\ \E rec : rec.status = "accepted" /\ receipts' = [receipts EXCEPT ![c] = rec]
    BY <1>2 DEF AcceptNoOp, ReceiptStatus
  <2> HIDE DEF c
  <2>3. Verdict' = [Verdict EXCEPT ![c] = "accepted"] /\ Verdict[c] = "none" /\ History' = History
    BY <1>0, <2>1, <2>2, VerdictOfReceipt DEF Verdict, History
  <2>4. CmdLog!AcceptNoOp(c)
    BY <2>3 DEF CmdLog!AcceptNoOp, Verdict, History
  <2> QED
    BY <2>1, <2>4 DEF CmdLog!AcceptNoOp
<1>3. ASSUME NEW s \in Shards, Compensate(s)
      PROVE  UNCHANGED <<log, receipts>> \/ \E c \in Commands : CmdLog!Reject(c)
  <2> DEFINE c == CommandOf(current[s][1])
  <2>1. pc[s] = "compensate" /\ Single(s) /\ UNCHANGED log
    BY <1>0, <1>3 DEF Compensate, At, IInv, WorkersInOrder
  <2>2. receipts[c].status = "none" /\ c \in Commands
    BY <1>0, <2>1, Held DEF IInv, UndecidedUntilWritten, Single, ReceiptStatus
  <2>3. \/ UNCHANGED receipts
        \/ \E rec : rec.status = "rejected" /\ receipts' = [receipts EXCEPT ![c] = rec]
    BY <1>3 DEF Compensate
  <2> HIDE DEF c
  <2>4. CASE \E rec : rec.status = "rejected" /\ receipts' = [receipts EXCEPT ![c] = rec]
    <3>1. Verdict' = [Verdict EXCEPT ![c] = "rejected"] /\ Verdict[c] = "none" /\ History' = History
      BY <1>0, <2>1, <2>2, <2>4, VerdictOfReceipt DEF Verdict, History
    <3>2. CmdLog!Reject(c)
      BY <3>1 DEF CmdLog!Reject, Verdict, History
    <3> QED
      BY <2>2, <3>2 DEF CmdLog!Reject
  <2> QED
    BY <2>1, <2>3, <2>4
<1>4. ASSUME NEW s \in Shards, Write(s) \/ WriteBatch(s)
      PROVE  \E cs \in SUBSET Commands : CmdLog!Execute(cs)
  BY <1>4, WriteRefines, WriteBatchRefines
<1> QED
  BY <1>1, <1>2, <1>3, <1>4, RecordingSteps DEF CmdLog!Next

\* Where no stream is ever purged, the engine implements the abstract command
\* log for every number of shards, commands, batches, retries and restarts.
THEOREM Refinement ==
  ASSUME Deletions = {}
  PROVE  Spec => ImplementsCommandLog
<1>1. Init => CmdLog!Init
  BY DEF Init, CmdLog!Init, NoReceipt
<1>2. LogInv /\ LogInv' /\ [Next]_vars => [CmdLog!Next]_(CmdLog!vars)
  BY StepRefines
<1> QED
  BY LogInvariance, <1>1, <1>2, PTL DEF Spec, ImplementsCommandLog, CmdLog!Spec

-----------------------------------------------------------------------------
(* Order, answers and fresh decisions *)

\* The values of a queue are increasing.
Increasing(q) == \A i, j \in 1..Len(q) : i < j => q[i] < q[j]

\* Every ticket of A was given before every ticket of B.
Ahead(A, B) == \A m \in A, n \in B : m < n

\* The tickets that wait behind the ones in hand on shard s.
Behind(s) == Range(todo[s]) \cup Range(pending[s]) \cup Range(shardQueue[s]) \cup Range(intake)

\* The tickets of shard s that are not answered.
Line(s) == Range(current[s]) \cup Behind(s)

\* The steps of a worker whose envelopes are committed.
Committed == {"swap", "publish", "drain"}

\* The line of shard s is in the order of dispatch, from the envelopes in hand
\* back to the router's queue.
ShardInOrder(s) ==
  /\ Increasing(current[s]) /\ Increasing(todo[s])
  /\ Increasing(pending[s]) /\ Increasing(shardQueue[s])
  /\ Ahead(Range(current[s]), Behind(s))
  /\ Ahead(Range(todo[s]), Range(pending[s]) \cup Range(shardQueue[s]) \cup Range(intake))
  /\ Ahead(Range(pending[s]), Range(shardQueue[s]) \cup Range(intake))
  /\ Ahead(Range(shardQueue[s]), Range(intake))

LineInOrder == Increasing(intake) /\ \A s \in Shards : ShardInOrder(s)

\* A batch is formed only when nothing is left of an earlier batch or poll.
WindowsAreClear ==
  \A s \in Shards :
    /\ pc[s] \in {"idle", "window", "second"} \/ ~Single(s) => todo[s] = <<>>
    /\ pc[s] \in {"window", "second"} => pending[s] = <<>>

\* The log is in the order of dispatch, shard by shard, and behind nothing that
\* still may be committed.
LogInOrder ==
  /\ \A e \in log : e.env \in Tickets /\ CommandOf(e.env) = e.cmd
  /\ \A s \in Shards : \A e \in log : e.env \in OnShard(s) =>
       /\ Ahead({e.env}, Behind(s))
       /\ pc[s] \notin Committed => Ahead({e.env}, Range(current[s]))
  /\ \A e, f \in log :
       e.seq < f.seq /\ ShardOf[Owner(e.env)] = ShardOf[Owner(f.env)] => e.env <= f.env

\* Only dispatched envelopes are answered, and in their order.
AnsweredInOrder ==
  \A n \in 1..MaxDispatches : answer[n] # "waiting" =>
     n \in Tickets /\ \A s \in Shards : n \in OnShard(s) => Ahead({n}, Line(s))

\* The events that the model or subscribers lack are those of the envelopes in
\* hand between the transaction and the publication.
MissingAreInHand ==
  \A s \in Shards : pc[s] \in {"swap", "publish"} =>
    \A e \in log : e.seq > lastSeq - Size(s) => e.env \in Range(current[s])

\* The invariant behind order and visibility.
OrderInv ==
  /\ IInv
  /\ LineInOrder
  /\ WindowsAreClear
  /\ LogInOrder
  /\ AnsweredInOrder
  /\ MissingAreInHand

\* A decision waiting for its transaction saw the newest event.
PlansAreFresh ==
  \A s \in Shards : pc[s] = "write" /\ Single(s) => plan[s].basis = lastSeq

\* Committed envelopes that are not answered yet have an accepted receipt.
CommittedHaveReceipts ==
  \A s \in Shards : pc[s] \in Committed =>
    \A n \in Range(current[s]) : ReceiptStatus(CommandOf(n)) = "accepted"

\* An answer that tells of a receipt has that receipt.
AnsweredHaveReceipts ==
  \A n \in 1..MaxDispatches : answer[n] \in {"accepted", "rejected"} =>
    ReceiptStatus(CommandOf(n)) = answer[n]

\* A dispatch that failed committed no event.
FailedLeftNothing ==
  \A n \in 1..MaxDispatches : answer[n] = "failed" => \A e \in log : e.env # n

\* The invariant behind durable answers, where nothing is deleted.
AnswersInv ==
  /\ OrderInv
  /\ CommittedHaveReceipts
  /\ AnsweredHaveReceipts
  /\ FailedLeftNothing

-----------------------------------------------------------------------------

\* A queue of one.
LEMMA Alone ==
  ASSUME NEW n \in Nat
  PROVE  Range(<<n>>) = {n} /\ Increasing(<<n>>)
BY DEF Range, Increasing

\* Without its head a queue is still in order, and behind it.
LEMMA HeadIsFirst ==
  ASSUME NEW q \in Seq(Nat), q # <<>>
  PROVE  /\ Head(q) \in Nat
         /\ Range(q) = {Head(q)} \cup Range(Tail(q))
         /\ Increasing(q) => Increasing(Tail(q)) /\ Ahead({Head(q)}, Range(Tail(q)))
<1>1. /\ Tail(q) \in Seq(Nat) /\ Len(Tail(q)) = Len(q) - 1 /\ Len(q) \in Nat /\ Len(q) >= 1
      /\ Head(q) = q[1] /\ Head(q) \in Nat
  BY SeqTake
<1>2. \A i \in 1..Len(q) - 1 : Tail(q)[i] = q[i + 1]
  BY HeadTailProperties
<1>3. DOMAIN q = 1..Len(q) /\ DOMAIN Tail(q) = 1..Len(q) - 1
  BY <1>1, LenProperties
<1>4. Range(q) = {Head(q)} \cup Range(Tail(q))
  <2>1. \A i \in 1..Len(q) : i = 1 \/ (i - 1 \in 1..Len(q) - 1 /\ q[i] = Tail(q)[i - 1])
    BY <1>1, <1>2
  <2>2. \A i \in 1..Len(q) - 1 : i + 1 \in 1..Len(q) /\ Tail(q)[i] = q[i + 1]
    BY <1>1, <1>2
  <2>3. 1 \in 1..Len(q)
    BY <1>1
  <2> DEFINE h == Head(q)
             t == Tail(q)
  <2>4. h = q[1] /\ DOMAIN t = 1..Len(q) - 1
    BY <1>1, <1>3
  <2> HIDE DEF h, t
  <2>5. \A i \in DOMAIN q : q[i] = h \/ \E j \in DOMAIN t : q[i] = t[j]
    BY <1>3, <2>1, <2>4 DEF t
  <2>6. \A j \in DOMAIN t : \E i \in DOMAIN q : t[j] = q[i]
    BY <1>3, <2>2, <2>4 DEF t
  <2>7. \E i \in DOMAIN q : h = q[i]
    BY <1>3, <2>3, <2>4
  <2> QED
    BY <2>5, <2>6, <2>7 DEF Range, h, t
<1>5. ASSUME Increasing(q) PROVE Increasing(Tail(q)) /\ Ahead({Head(q)}, Range(Tail(q)))
  <2>1. \A i, j \in 1..Len(q) - 1 : i < j => q[i + 1] < q[j + 1]
    BY <1>1, <1>5 DEF Increasing
  <2>2. Increasing(Tail(q))
    BY <1>1, <1>2, <2>1 DEF Increasing
  <2>3. \A j \in 1..Len(q) - 1 : q[1] < q[j + 1]
    BY <1>1, <1>5 DEF Increasing
  <2>4. Ahead({Head(q)}, Range(Tail(q)))
    BY <1>1, <1>2, <1>3, <2>3 DEF Ahead, Range
  <2> QED
    BY <2>2, <2>4
<1> QED
  BY <1>1, <1>4, <1>5

\* A ticket joins a queue at its end.
LEMMA JoinsAtEnd ==
  ASSUME NEW q \in Seq(Nat), NEW n \in Nat
  PROVE  /\ Range(Append(q, n)) = Range(q) \cup {n}
         /\ Increasing(q) /\ Ahead(Range(q), {n}) => Increasing(Append(q, n))
<1>1. /\ Append(q, n) \in Seq(Nat) /\ Len(Append(q, n)) = Len(q) + 1 /\ Len(q) \in Nat
      /\ \A i \in 1..Len(q) : Append(q, n)[i] = q[i]
      /\ Append(q, n)[Len(q) + 1] = n
  BY AppendProperties, LenProperties
<1>2. DOMAIN q = 1..Len(q) /\ DOMAIN Append(q, n) = 1..Len(q) + 1
  BY <1>1, LenProperties
<1>3. 1..Len(q) + 1 = (1..Len(q)) \cup {Len(q) + 1}
  BY <1>1
<1> DEFINE a == Append(q, n)
<1> HIDE DEF a
<1>4. Range(a) = Range(q) \cup {n}
  BY <1>1, <1>2, <1>3 DEF Range, a
<1>5. ASSUME Increasing(q), Ahead(Range(q), {n}) PROVE Increasing(a)
  <2>1. \A i \in 1..Len(q) : q[i] < n
    BY <1>2, <1>5 DEF Ahead, Range
  <2>2. \A i, j \in 1..Len(q) + 1 : i < j => i \in 1..Len(q) /\ (j \in 1..Len(q) \/ j = Len(q) + 1)
    BY <1>1
  <2> QED
    BY <1>1, <1>5, <2>1, <2>2 DEF Increasing, a
<1> QED
  BY <1>4, <1>5 DEF a

\* Two queues in order, one behind the other, are one queue in order.
LEMMA JoinedQueues ==
  ASSUME NEW q \in Seq(Nat), NEW r \in Seq(Nat)
  PROVE  /\ Range(q \o r) = Range(q) \cup Range(r)
         /\ Increasing(q) /\ Increasing(r) /\ Ahead(Range(q), Range(r)) => Increasing(q \o r)
<1> DEFINE a == q \o r
<1>1. /\ a \in Seq(Nat) /\ Len(a) = Len(q) + Len(r) /\ Len(q) \in Nat /\ Len(r) \in Nat
      /\ \A i \in 1..Len(q) + Len(r) : a[i] = IF i <= Len(q) THEN q[i] ELSE r[i - Len(q)]
  BY ConcatProperties, LenProperties
<1>2. DOMAIN q = 1..Len(q) /\ DOMAIN r = 1..Len(r) /\ DOMAIN a = 1..Len(q) + Len(r)
  BY <1>1, LenProperties
<1> HIDE DEF a
<1>3. /\ \A i \in 1..Len(q) : i \in 1..Len(q) + Len(r) /\ a[i] = q[i]
      /\ \A i \in 1..Len(r) : Len(q) + i \in 1..Len(q) + Len(r) /\ a[Len(q) + i] = r[i]
      /\ \A i \in 1..Len(q) + Len(r) :
           \/ i \in 1..Len(q) /\ a[i] = q[i]
           \/ i > Len(q) /\ i - Len(q) \in 1..Len(r) /\ a[i] = r[i - Len(q)]
  <2>1. ASSUME NEW i \in 1..Len(q) PROVE i \in 1..Len(q) + Len(r) /\ a[i] = q[i]
    BY <1>1
  <2>2. ASSUME NEW i \in 1..Len(r)
        PROVE  Len(q) + i \in 1..Len(q) + Len(r) /\ a[Len(q) + i] = r[i]
    <3>1. /\ Len(q) + i \in 1..Len(q) + Len(r) /\ ~(Len(q) + i <= Len(q))
          /\ (Len(q) + i) - Len(q) = i
      BY <1>1
    <3> QED
      BY <1>1, <3>1
  <2>3. ASSUME NEW i \in 1..Len(q) + Len(r)
        PROVE  \/ i \in 1..Len(q) /\ a[i] = q[i]
               \/ i > Len(q) /\ i - Len(q) \in 1..Len(r) /\ a[i] = r[i - Len(q)]
    BY <1>1
  <2> QED
    BY <2>1, <2>2, <2>3
<1>4. Range(a) = Range(q) \cup Range(r)
  <2>1. \A i \in DOMAIN a : (\E j \in DOMAIN q : a[i] = q[j]) \/ (\E j \in DOMAIN r : a[i] = r[j])
    BY <1>2, <1>3
  <2>2. \A j \in DOMAIN q : \E i \in DOMAIN a : a[i] = q[j]
    BY <1>2, <1>3
  <2>3. \A j \in DOMAIN r : \E i \in DOMAIN a : a[i] = r[j]
    BY <1>2, <1>3
  <2> QED
    BY <2>1, <2>2, <2>3 DEF Range
<1>5. ASSUME Increasing(q), Increasing(r), Ahead(Range(q), Range(r)) PROVE Increasing(a)
  <2> SUFFICES ASSUME NEW i \in 1..Len(q) + Len(r), NEW j \in 1..Len(q) + Len(r), i < j
               PROVE  a[i] < a[j]
    BY <1>1 DEF Increasing
  <2>1. \A k \in 1..Len(q), l \in 1..Len(r) : q[k] < r[l]
    BY <1>2, <1>5 DEF Ahead, Range
  <2>2. CASE j \in 1..Len(q)
    <3>1. i \in 1..Len(q)
      BY <2>2, <1>1
    <3> QED
      BY <2>2, <3>1, <1>3, <1>5 DEF Increasing
  <2>3. CASE j > Len(q) /\ j - Len(q) \in 1..Len(r) /\ a[j] = r[j - Len(q)]
    <3>1. CASE i \in 1..Len(q) /\ a[i] = q[i]
      BY <2>1, <2>3, <3>1
    <3>2. CASE i > Len(q) /\ i - Len(q) \in 1..Len(r) /\ a[i] = r[i - Len(q)]
      <4>1. i - Len(q) < j - Len(q)
        BY <1>1
      <4> QED
        BY <2>3, <3>2, <4>1, <1>5 DEF Increasing
    <3> QED
      BY <3>1, <3>2, <1>3
  <2> QED
    BY <2>2, <2>3, <1>3
<1> QED
  BY <1>4, <1>5 DEF a

\* A slice of a queue.
LEMMA SliceInOrder ==
  ASSUME NEW q \in Seq(Nat), NEW m \in 1..Len(q) + 1, NEW n \in 0..Len(q)
  PROVE  /\ SubSeq(q, m, n) \in Seq(Nat)
         /\ Range(SubSeq(q, m, n)) = {q[i] : i \in m..n}
         /\ Range(SubSeq(q, m, n)) \subseteq Range(q)
         /\ Increasing(q) => Increasing(SubSeq(q, m, n))
<1> DEFINE a == SubSeq(q, m, n)
           k == IF m <= n THEN n - m + 1 ELSE 0
<1>0. Len(q) \in Nat /\ m \in Int /\ n \in Int /\ DOMAIN q = 1..Len(q)
  BY LenProperties
<1>1. \A i \in m..n : q[i] \in Nat /\ i \in 1..Len(q)
  BY <1>0, ElementOfSeq
<1>2. a \in Seq(Nat) /\ Len(a) = k /\ \A i \in 1..n - m + 1 : a[i] = q[m + i - 1]
  BY <1>0, <1>1, SubSeqProperties
<1>3. DOMAIN a = 1..k
  BY <1>2, LenProperties
<1> HIDE DEF a
<1>4. \A i \in 1..k : m + i - 1 \in m..n /\ a[i] = q[m + i - 1]
  BY <1>0, <1>2
<1>5. \A i \in m..n : i - m + 1 \in 1..k /\ a[i - m + 1] = q[i]
  BY <1>0, <1>2
<1> HIDE DEF k
<1>6. Range(a) = {q[i] : i \in m..n}
  <2>1. \A i \in DOMAIN a : \E j \in m..n : a[i] = q[j]
    BY <1>3, <1>4
  <2>2. \A j \in m..n : \E i \in DOMAIN a : a[i] = q[j]
    BY <1>3, <1>5
  <2>3. ASSUME NEW x \in Range(a) PROVE x \in {q[i] : i \in m..n}
    BY <2>1 DEF Range
  <2>4. ASSUME NEW x \in {q[i] : i \in m..n} PROVE x \in Range(a)
    <3>1. PICK j \in m..n : x = q[j]
      OBVIOUS
    <3>2. PICK i \in DOMAIN a : a[i] = q[j]
      BY <2>2
    <3> QED
      BY <3>1, <3>2 DEF Range
  <2> QED
    BY <2>3, <2>4
<1>7. Range(a) \subseteq Range(q)
  BY <1>0, <1>1, <1>6 DEF Range
<1>8. ASSUME Increasing(q) PROVE Increasing(a)
  <2> SUFFICES ASSUME NEW i \in 1..k, NEW j \in 1..k, i < j PROVE a[i] < a[j]
    BY <1>2 DEF Increasing
  <2>1. m + i - 1 \in 1..Len(q) /\ m + j - 1 \in 1..Len(q) /\ m + i - 1 < m + j - 1
    BY <1>0, <1>1, <1>4
  <2> QED
    BY <1>4, <1>8, <2>1 DEF Increasing
<1> QED
  BY <1>2, <1>6, <1>7, <1>8 DEF a

\* A queue in order, cut in three.
LEMMA ThreeSlices ==
  ASSUME NEW q \in Seq(Nat), Increasing(q), NEW k \in 0..Len(q), NEW p \in 0..k
  PROVE  LET a == SubSeq(q, 1, p)
             b == SubSeq(q, p + 1, k)
             c == SubSeq(q, k + 1, Len(q))
         IN  /\ a \in Seq(Nat) /\ b \in Seq(Nat) /\ c \in Seq(Nat)
             /\ Increasing(a) /\ Increasing(b) /\ Increasing(c)
             /\ Range(a) \subseteq Range(q) /\ Range(b) \subseteq Range(q) /\ Range(c) \subseteq Range(q)
             /\ Ahead(Range(a), Range(b) \cup Range(c)) /\ Ahead(Range(b), Range(c))
<1>0. Len(q) \in Nat
  BY LenProperties
<1>1. /\ 1 \in 1..Len(q) + 1 /\ p \in 0..Len(q) /\ p + 1 \in 1..Len(q) + 1
      /\ k + 1 \in 1..Len(q) + 1 /\ Len(q) \in 0..Len(q)
  BY <1>0
<1> DEFINE a == SubSeq(q, 1, p)
           b == SubSeq(q, p + 1, k)
           c == SubSeq(q, k + 1, Len(q))
<1>2. /\ a \in Seq(Nat) /\ b \in Seq(Nat) /\ c \in Seq(Nat)
      /\ Increasing(a) /\ Increasing(b) /\ Increasing(c)
      /\ Range(a) \subseteq Range(q) /\ Range(b) \subseteq Range(q) /\ Range(c) \subseteq Range(q)
      /\ Range(a) = {q[i] : i \in 1..p} /\ Range(b) = {q[i] : i \in p + 1..k}
      /\ Range(c) = {q[i] : i \in k + 1..Len(q)}
  BY <1>1, SliceInOrder
<1> HIDE DEF a, b, c
<1>3. \A i \in 1..p : \A j \in (p + 1..k) \cup (k + 1..Len(q)) : q[i] < q[j]
  BY <1>0 DEF Increasing
<1>4. \A i \in p + 1..k : \A j \in k + 1..Len(q) : q[i] < q[j]
  BY <1>0 DEF Increasing
<1>5. Ahead(Range(a), Range(b) \cup Range(c)) /\ Ahead(Range(b), Range(c))
  BY <1>2, <1>3, <1>4 DEF Ahead
<1> QED
  BY <1>2, <1>5 DEF a, b, c

\* Queues hold numbers.
LEMMA Queues ==
  ASSUME IInv
  PROVE  /\ intake \in Seq(Nat) /\ Range(intake) \subseteq Tickets
         /\ \A s \in Shards :
              /\ current[s] \in Seq(Nat) /\ todo[s] \in Seq(Nat)
              /\ pending[s] \in Seq(Nat) /\ shardQueue[s] \in Seq(Nat)
              /\ Line(s) \subseteq Tickets
<1>1. \A q \in Seq(Tickets) : q \in Seq(Nat) /\ Range(q) \subseteq Tickets
  <2> SUFFICES ASSUME NEW q \in Seq(Tickets) PROVE q \in Seq(Nat) /\ Range(q) \subseteq Tickets
    OBVIOUS
  <2>1. q \in Seq(Nat)
    BY SeqMonotonic DEF Tickets
  <2>2. \A i \in DOMAIN q : q[i] \in Tickets
    BY ElementOfSeq, LenProperties
  <2> QED
    BY <2>1, <2>2 DEF Range
<1>2. intake \in Seq(Nat) /\ Range(intake) \subseteq Tickets
  BY <1>1 DEF IInv, TypeOK
<1>3. \A s \in Shards : /\ current[s] \in Seq(Tickets) /\ todo[s] \in Seq(Tickets)
                        /\ pending[s] \in Seq(Tickets) /\ shardQueue[s] \in Seq(Tickets)
  BY DEF IInv, TypeOK
<1> QED
  BY <1>1, <1>2, <1>3 DEF Line, Behind

\* An empty queue.
LEMMA Nobody == Range(<<>>) = {} /\ Increasing(<<>>)
BY EmptySeq DEF Range, Increasing

\* The worker's only envelope leaves, and the next one of its batch follows.
LEMMA AdvanceInOrder ==
  ASSUME IInv, NEW s \in Shards, ShardInOrder(s), Single(s), pc[s] # "idle",
         Advance(s), UNCHANGED <<intake, pending, shardQueue>>
  PROVE  /\ ShardInOrder(s)' /\ Line(s)' \subseteq Behind(s)
         /\ Ahead({current[s][1]}, Behind(s))
         /\ \/ pc'[s] = "idle" /\ todo'[s] = <<>>
            \/ pc'[s] = "admit" /\ Len(current'[s]) = 1
<1>1. Ahead({current[s][1]}, Behind(s))
  <2>1. DOMAIN current[s] = 1..1
    BY Held, LenProperties DEF Single
  <2>2. current[s][1] \in Range(current[s])
    BY <2>1 DEF Range
  <2> QED
    BY <2>2 DEF ShardInOrder, Ahead
<1>2. CASE todo[s] = <<>>
  <2>1. current'[s] = <<>> /\ todo' = todo /\ pc'[s] = "idle"
    BY <1>2, Typed DEF Advance
  <2> QED
    BY <1>1, <1>2, <2>1, Nobody DEF ShardInOrder, Line, Behind, Ahead
<1>3. CASE todo[s] # <<>>
  <2> DEFINE h == Head(todo[s])
             t == Tail(todo[s])
  <2>1. current'[s] = <<h>> /\ todo'[s] = t /\ pc'[s] = "admit"
    BY <1>3, Typed DEF Advance
  <2>2. /\ h \in Nat /\ Range(todo[s]) = {h} \cup Range(t)
        /\ Increasing(t) /\ Ahead({h}, Range(t))
    BY <1>3, Queues, HeadIsFirst DEF ShardInOrder
  <2>3. Range(<<h>>) = {h} /\ Increasing(<<h>>)
    BY <2>2, Alone
  <2> HIDE DEF h, t
  <2>4. ShardInOrder(s)'
    BY <2>1, <2>2, <2>3 DEF ShardInOrder, Behind, Ahead
  <2>5. Line(s)' \subseteq Behind(s)
    BY <2>1, <2>2, <2>3 DEF Line, Behind
  <2> QED
    BY <1>1, <2>1, <2>4, <2>5
<1> QED
  BY <1>2, <1>3

\* The first envelope of a batch is answered.
LEMMA AnswerInOrder ==
  ASSUME IInv, NEW s \in Shards, ShardInOrder(s), pc[s] # "idle",
         current' = [current EXCEPT ![s] = Tail(@)],
         UNCHANGED <<intake, pending, shardQueue, todo>>
  PROVE  /\ ShardInOrder(s)' /\ Behind(s)' = Behind(s) /\ Line(s)' \subseteq Line(s)
         /\ Ahead({current[s][1]}, Line(s)')
<1> DEFINE h == Head(current[s])
           t == Tail(current[s])
<1>1. current'[s] = t /\ h = current[s][1]
  BY Typed, Held
<1>2. /\ h \in Nat /\ Range(current[s]) = {h} \cup Range(t)
      /\ Increasing(t) /\ Ahead({h}, Range(t))
  BY Held, Queues, HeadIsFirst DEF ShardInOrder
<1> HIDE DEF h, t
<1>3. Behind(s)' = Behind(s)
  BY DEF Behind
<1>4. ShardInOrder(s)'
  BY <1>1, <1>2, <1>3 DEF ShardInOrder, Ahead
<1>5. Line(s)' = Range(t) \cup Behind(s) /\ Line(s) = {h} \cup Range(t) \cup Behind(s)
  BY <1>1, <1>2, <1>3 DEF Line
<1> QED
  BY <1>1, <1>2, <1>3, <1>4, <1>5 DEF ShardInOrder, Ahead

\* A batch falls back to one by one.
LEMMA FallBackInOrder ==
  ASSUME IInv, NEW s \in Shards, ShardInOrder(s), pc[s] # "idle", todo[s] = <<>>,
         FallBack(s), UNCHANGED <<intake, pending, shardQueue>>
  PROVE  /\ ShardInOrder(s)' /\ Line(s)' \subseteq Line(s)
         /\ pc'[s] = "admit" /\ Len(current'[s]) = 1
<1> DEFINE h == Head(current[s])
           t == Tail(current[s])
<1>1. current'[s] = <<h>> /\ todo'[s] = t /\ pc'[s] = "admit"
  BY Typed DEF FallBack, Goto
<1>2. /\ h \in Nat /\ Range(current[s]) = {h} \cup Range(t)
      /\ Increasing(t) /\ Ahead({h}, Range(t))
  BY Held, Queues, HeadIsFirst DEF ShardInOrder
<1>3. Range(<<h>>) = {h} /\ Increasing(<<h>>)
  BY <1>2, Alone
<1> HIDE DEF h, t
<1>4. ShardInOrder(s)'
  BY <1>1, <1>2, <1>3 DEF ShardInOrder, Behind, Ahead
<1>5. Line(s)' \subseteq Line(s)
  BY <1>1, <1>2, <1>3 DEF Line, Behind
<1> QED
  BY <1>1, <1>4, <1>5

\* The worker takes the next envelope.
LEMMA TakeInOrder ==
  ASSUME IInv, NEW s \in Shards, ShardInOrder(s), todo[s] = <<>>, Take(s)
  PROVE  /\ ShardInOrder(s)' /\ Line(s)' \subseteq Line(s)
         /\ pc'[s] \in {"window", "admit"} /\ (pc'[s] = "window" => pending'[s] = <<>>)
<1>0. current[s] = <<>> /\ UNCHANGED <<intake, todo>>
  BY DEF Take, IInv, WorkersInOrder, At
<1>1. pc'[s] \in {"window", "admit"} /\ (pc'[s] = "window" => pending'[s] = <<>>)
  BY Typed DEF Take, Goto
<1>2. CASE pending[s] # <<>>
  <2> DEFINE h == Head(pending[s])
             t == Tail(pending[s])
  <2>1. current'[s] = <<h>> /\ pending'[s] = t /\ shardQueue' = shardQueue
    BY <1>2, Typed DEF Take
  <2>2. /\ h \in Nat /\ Range(pending[s]) = {h} \cup Range(t)
        /\ Increasing(t) /\ Ahead({h}, Range(t))
    BY <1>2, Queues, HeadIsFirst DEF ShardInOrder
  <2>3. Range(<<h>>) = {h} /\ Increasing(<<h>>)
    BY <2>2, Alone
  <2> HIDE DEF h, t
  <2>4. ShardInOrder(s)'
    BY <1>0, <2>1, <2>2, <2>3, Nobody DEF ShardInOrder, Behind, Ahead
  <2>5. Line(s)' \subseteq Line(s)
    BY <1>0, <2>1, <2>2, <2>3 DEF Line, Behind
  <2> QED
    BY <1>1, <2>4, <2>5
<1>3. CASE pending[s] = <<>>
  <2> DEFINE h == Head(shardQueue[s])
             t == Tail(shardQueue[s])
  <2>1. current'[s] = <<h>> /\ shardQueue'[s] = t /\ pending' = pending /\ shardQueue[s] # <<>>
    BY <1>3, Typed DEF Take
  <2>2. /\ h \in Nat /\ Range(shardQueue[s]) = {h} \cup Range(t)
        /\ Increasing(t) /\ Ahead({h}, Range(t))
    BY <2>1, Queues, HeadIsFirst DEF ShardInOrder
  <2>3. Range(<<h>>) = {h} /\ Increasing(<<h>>)
    BY <2>2, Alone
  <2> HIDE DEF h, t
  <2>4. ShardInOrder(s)'
    BY <1>0, <1>3, <2>1, <2>2, <2>3, Nobody DEF ShardInOrder, Behind, Ahead
  <2>5. Line(s)' \subseteq Line(s)
    BY <1>0, <2>1, <2>2, <2>3 DEF Line, Behind
  <2> QED
    BY <1>1, <2>4, <2>5
<1> QED
  BY <1>2, <1>3

\* A candidate joins the batch, or is put aside.
LEMMA CandidateInOrder ==
  ASSUME IInv, NEW s \in Shards, ShardInOrder(s), todo[s] = <<>>, pending[s] = <<>>,
         CandidateArrives(s)
  PROVE  /\ ShardInOrder(s)' /\ Line(s)' \subseteq Line(s)
         /\ pc'[s] \in {"second", "admit"} /\ (pc'[s] = "second" => pending'[s] = <<>>)
<1> DEFINE h == Head(shardQueue[s])
           t == Tail(shardQueue[s])
<1>1. /\ shardQueue[s] # <<>> /\ shardQueue'[s] = t /\ UNCHANGED <<intake, todo>>
      /\ \/ current'[s] = Append(current[s], h) /\ pending' = pending /\ pc'[s] = "second"
         \/ pending'[s] = Append(pending[s], h) /\ current' = current /\ pc'[s] = "admit"
  BY Typed DEF CandidateArrives, Goto
<1>2. /\ h \in Nat /\ Range(shardQueue[s]) = {h} \cup Range(t)
      /\ Increasing(t) /\ Ahead({h}, Range(t))
  BY <1>1, Queues, HeadIsFirst DEF ShardInOrder
<1> HIDE DEF h, t
<1>3. Ahead(Range(current[s]), {h}) /\ Ahead(Range(pending[s]), {h})
  BY <1>2 DEF ShardInOrder, Behind, Ahead
<1>4. /\ Range(Append(current[s], h)) = Range(current[s]) \cup {h} /\ Increasing(Append(current[s], h))
      /\ Range(Append(pending[s], h)) = Range(pending[s]) \cup {h} /\ Increasing(Append(pending[s], h))
  BY <1>2, <1>3, Queues, JoinsAtEnd DEF ShardInOrder
<1>5. CASE current'[s] = Append(current[s], h) /\ pending' = pending /\ pc'[s] = "second"
  <2>1. ShardInOrder(s)'
    BY <1>1, <1>2, <1>4, <1>5, Nobody DEF ShardInOrder, Behind, Ahead
  <2>2. Line(s)' \subseteq Line(s)
    BY <1>1, <1>2, <1>4, <1>5 DEF Line, Behind
  <2> QED
    BY <1>5, <2>1, <2>2
<1>6. CASE pending'[s] = Append(pending[s], h) /\ current' = current /\ pc'[s] = "admit"
  <2>1. ShardInOrder(s)'
    BY <1>1, <1>2, <1>4, <1>6, Nobody DEF ShardInOrder, Behind, Ahead
  <2>2. Line(s)' \subseteq Line(s)
    BY <1>1, <1>2, <1>4, <1>6 DEF Line, Behind
  <2> QED
    BY <1>6, <2>1, <2>2
<1> QED
  BY <1>1, <1>5, <1>6

\* A window ends with a poll.
LEMMA PollInOrder ==
  ASSUME IInv, NEW s \in Shards, ShardInOrder(s), todo[s] = <<>>, pending[s] = <<>>,
         PollBatch(s)
  PROVE  ShardInOrder(s)' /\ Line(s)' \subseteq Line(s) /\ pc'[s] = "admit"
<1> DEFINE q == shardQueue[s]
<1>1. PICK k \in 0..Len(q) :
        /\ \E p \in 0..k :
             /\ current' = [current EXCEPT ![s] = @ \o SubSeq(q, 1, p)]
             /\ pending' = [pending EXCEPT ![s] = @ \o SubSeq(q, p + 1, k)]
        /\ shardQueue' = [shardQueue EXCEPT ![s] = SubSeq(@, k + 1, Len(@))]
  BY DEF PollBatch
<1>2. PICK p \in 0..k :
        /\ current' = [current EXCEPT ![s] = @ \o SubSeq(q, 1, p)]
        /\ pending' = [pending EXCEPT ![s] = @ \o SubSeq(q, p + 1, k)]
  BY <1>1
<1> DEFINE a == SubSeq(q, 1, p)
           b == SubSeq(q, p + 1, k)
           c == SubSeq(q, k + 1, Len(q))
<1>3. /\ current'[s] = current[s] \o a /\ pending'[s] = pending[s] \o b /\ shardQueue'[s] = c
      /\ pc'[s] = "admit" /\ UNCHANGED <<intake, todo>>
  BY <1>1, <1>2, Typed DEF PollBatch, Goto
<1>4. /\ a \in Seq(Nat) /\ b \in Seq(Nat) /\ c \in Seq(Nat)
      /\ Increasing(a) /\ Increasing(b) /\ Increasing(c)
      /\ Range(a) \subseteq Range(q) /\ Range(b) \subseteq Range(q) /\ Range(c) \subseteq Range(q)
      /\ Ahead(Range(a), Range(b) \cup Range(c)) /\ Ahead(Range(b), Range(c))
  BY Queues, ThreeSlices DEF ShardInOrder
<1> HIDE DEF a, b, c
<1>5. Ahead(Range(current[s]), Range(a)) /\ Ahead(Range(pending[s]), Range(b))
  BY <1>4 DEF ShardInOrder, Behind, Ahead
<1>6. /\ Range(current[s] \o a) = Range(current[s]) \cup Range(a) /\ Increasing(current[s] \o a)
      /\ Range(pending[s] \o b) = Range(pending[s]) \cup Range(b) /\ Increasing(pending[s] \o b)
  BY <1>4, <1>5, Queues, JoinedQueues DEF ShardInOrder
<1>7. ShardInOrder(s)'
  BY <1>3, <1>4, <1>6, Nobody DEF ShardInOrder, Behind, Ahead
<1>8. Line(s)' \subseteq Line(s)
  BY <1>3, <1>4, <1>6 DEF Line, Behind
<1> QED
  BY <1>3, <1>7, <1>8

\* How a step of worker s moves the line of its shard: nobody joins it, who is
\* answered was ahead of everybody left, and a committed envelope leaves.
LEMMA WorkerInOrder ==
  ASSUME IInv, LineInOrder, WindowsAreClear, NEW s \in Shards, Work(s) \/ Locking(s)
  PROVE  /\ UNCHANGED <<dispatched, intake>> /\ LineInOrder' /\ WindowsAreClear'
         /\ \A r \in Shards : Line(r)' \subseteq Line(r)
         /\ \A r \in Shards : pc[r] \in Committed =>
              /\ Behind(r)' \subseteq Behind(r)
              /\ pc'[r] \notin Committed => Line(r)' \subseteq Behind(r)
         /\ \/ UNCHANGED answer
            \/ /\ pc[s] # "idle" /\ Ahead({current[s][1]}, Line(s)')
               /\ \E v : answer' = [answer EXCEPT ![current[s][1]] = v]
<1> DEFINE Moved ==
             /\ ShardInOrder(s)' /\ Line(s)' \subseteq Line(s)
             /\ pc'[s] \in {"idle", "window", "second"} \/ Len(current'[s]) # 1 => todo'[s] = <<>>
             /\ pc'[s] \in {"window", "second"} => pending'[s] = <<>>
             /\ pc[s] \in Committed =>
                  /\ Behind(s)' \subseteq Behind(s)
                  /\ pc'[s] \notin Committed => Line(s)' \subseteq Behind(s)
           Told ==
             \/ UNCHANGED answer
             \/ /\ pc[s] # "idle" /\ Ahead({current[s][1]}, Line(s)')
                /\ \E v : answer' = [answer EXCEPT ![current[s][1]] = v]
<1>0. ShardInOrder(s) /\ Increasing(intake)
  BY DEF LineInOrder
<1>1. /\ UNCHANGED <<dispatched, intake>>
      /\ \A r \in Shards \ {s} : /\ current'[r] = current[r] /\ todo'[r] = todo[r] /\ pc'[r] = pc[r]
                                 /\ pending'[r] = pending[r] /\ shardQueue'[r] = shardQueue[r]
  <2> USE Typed DEF callers, queues, Goto, Advance, FallBack, Fail
  <2>1. CASE Take(s)
    BY <2>1 DEF Take
  <2>2. CASE CandidateArrives(s)
    BY <2>2 DEF CandidateArrives
  <2>3. CASE PollBatch(s)
    BY <2>3 DEF PollBatch
  <2>4. CASE Admit(s)
    BY <2>4 DEF Admit, Replay
  <2>5. CASE AdmitBatch(s)
    BY <2>5 DEF AdmitBatch
  <2>6. CASE Write(s) \/ WriteBatch(s) \/ Swap(s) \/ Publish(s)
    BY <2>6 DEF Write, WriteBatch, Swap, Publish
  <2>7. CASE WriteFails(s) \/ WriteBatchFails(s)
    BY <2>7 DEF WriteFails, WriteBatchFails
  <2>8. CASE Finish(s) \/ Refuse(s)
    BY <2>8 DEF Finish, Refuse
  <2>9. CASE Decide(s)
    BY <2>9 DEF Decide, DecideEvents, AcceptNoOp, Replay
  <2>10. CASE CheckBatch(s)
    BY <2>10 DEF CheckBatch
  <2>11. CASE Compensate(s)
    BY <2>11 DEF Compensate
  <2> QED
    BY <2>1, <2>2, <2>3, <2>4, <2>5, <2>6, <2>7, <2>8, <2>9, <2>10, <2>11 DEF Work, Locking
<1>W. pc[s] \in {"idle", "window", "second"} \/ ~Single(s) => todo[s] = <<>>
  BY DEF WindowsAreClear
<1>2. ASSUME UNCHANGED <<current, todo, pending, shardQueue, answer>>,
             pc[s] \notin {"idle", "window", "second"}, pc'[s] \notin {"idle", "window", "second"},
             pc[s] \in Committed => pc'[s] \in Committed
      PROVE  Moved /\ Told
  BY <1>0, <1>1, <1>2, <1>W DEF ShardInOrder, Line, Behind, Single
<1>3. ASSUME Advance(s), Single(s), pc[s] # "idle", UNCHANGED <<pending, shardQueue>>,
             Answered(current[s][1], "failed") \/ Answered(current[s][1], "accepted")
               \/ Answered(current[s][1], ReceiptStatus(CommandOf(current[s][1])))
      PROVE  Moved /\ Told
  <2>1. /\ ShardInOrder(s)' /\ Line(s)' \subseteq Behind(s)
        /\ Ahead({current[s][1]}, Behind(s))
        /\ \/ pc'[s] = "idle" /\ todo'[s] = <<>>
           \/ pc'[s] = "admit" /\ Len(current'[s]) = 1
    BY <1>0, <1>1, <1>3, AdvanceInOrder
  <2>2. Told
    BY <1>3, <2>1 DEF Ahead, Answered
  <2> QED
    BY <2>1, <2>2 DEF Line
<1> HIDE DEF Moved, Told
<1>4. ASSUME Take(s) PROVE Moved /\ Told
  <2>1. todo[s] = <<>> /\ UNCHANGED answer /\ pc[s] = "idle" /\ todo' = todo
    BY <1>4 DEF Take, WindowsAreClear, At, callers
  <2> QED
    BY <1>0, <1>4, <2>1, TakeInOrder DEF Moved, Told, Committed
<1>5. ASSUME CandidateArrives(s) PROVE Moved /\ Told
  <2>1. /\ todo[s] = <<>> /\ pending[s] = <<>> /\ UNCHANGED answer /\ pc[s] = "window"
        /\ todo' = todo
    BY <1>5 DEF CandidateArrives, WindowsAreClear, At, callers
  <2> QED
    BY <1>0, <1>5, <2>1, CandidateInOrder DEF Moved, Told, Committed
<1>6. ASSUME PollBatch(s) PROVE Moved /\ Told
  <2>1. /\ todo[s] = <<>> /\ pending[s] = <<>> /\ UNCHANGED <<answer, todo>>
        /\ pc[s] \in {"window", "second"}
    BY <1>6 DEF PollBatch, WindowsAreClear, At, callers
  <2> QED
    BY <1>0, <1>6, <2>1, PollInOrder DEF Moved, Told, Committed
<1>7. ASSUME Admit(s) PROVE Moved /\ Told
  BY <1>2, <1>3, <1>7, Typed DEF Admit, Replay, Fail, Goto, queues, At, Committed
<1>8. ASSUME FallBack(s), pc[s] \in {"admit", "commit", "write"}, UNCHANGED <<pending, shardQueue, answer>>, ~Single(s)
      PROVE  Moved /\ Told
  <2>1. todo[s] = <<>>
    BY <1>8 DEF WindowsAreClear
  <2> QED
    BY <1>0, <1>1, <1>8, <2>1, FallBackInOrder DEF Moved, Told, Committed
<1>9. ASSUME AdmitBatch(s) PROVE Moved /\ Told
  BY <1>2, <1>8, <1>9, Typed DEF AdmitBatch, Goto, queues, callers, At, Committed
<1>10. ASSUME Write(s) \/ WriteBatch(s) \/ Swap(s) \/ Publish(s) PROVE Moved /\ Told
  BY <1>2, <1>10, Typed DEF Write, WriteBatch, Swap, Publish, Goto, queues, callers, At, Committed
<1>11. ASSUME WriteFails(s) PROVE Moved /\ Told
  BY <1>2, <1>11, Typed DEF WriteFails, Fail, Goto, queues, At, Committed
<1>12. ASSUME WriteBatchFails(s) PROVE Moved /\ Told
  BY <1>8, <1>12, Typed DEF WriteBatchFails, queues, callers, At, Committed
<1>13. ASSUME Finish(s) PROVE Moved /\ Told
  <2>1. ASSUME Single(s) PROVE Moved /\ Told
    BY <1>3, <1>13, <2>1 DEF Finish, queues, At
  <2>2. ASSUME ~Single(s) PROVE Moved /\ Told
    <3>1. /\ current' = [current EXCEPT ![s] = Tail(@)] /\ pc[s] = "drain" /\ pc' = pc
          /\ UNCHANGED <<pending, shardQueue, todo>> /\ Answered(current[s][1], "accepted")
      BY <1>13, <2>2 DEF Finish, queues, At
    <3> QED
      BY <1>0, <1>1, <1>W, <2>2, <3>1, AnswerInOrder DEF Moved, Told, Committed, Answered
  <2> QED
    BY <2>1, <2>2
<1>14. ASSUME Refuse(s) PROVE Moved /\ Told
  <2>1. pc[s] = "refuse" /\ Single(s)
    BY <1>14 DEF Refuse, At, IInv, WorkersInOrder
  <2> QED
    BY <1>3, <1>14, <2>1 DEF Refuse, queues
<1>15. ASSUME Decide(s) PROVE Moved /\ Told
  BY <1>2, <1>3, <1>15, Typed DEF Decide, DecideEvents, AcceptNoOp, Replay, Fail, Goto, queues, At, Committed
<1>16. ASSUME CheckBatch(s) PROVE Moved /\ Told
  BY <1>2, <1>8, <1>16, Typed DEF CheckBatch, Goto, queues, callers, At, Committed
<1>17. ASSUME Compensate(s) PROVE Moved /\ Told
  BY <1>2, <1>17, Typed DEF Compensate, Goto, queues, callers, At, Committed
<1>18. Moved /\ Told
  BY <1>4, <1>5, <1>6, <1>7, <1>9, <1>10, <1>11, <1>12, <1>13, <1>14, <1>15, <1>16, <1>17
     DEF Work, Locking
<1>19. \A r \in Shards \ {s} : Line(r)' = Line(r) /\ Behind(r)' = Behind(r) /\ (ShardInOrder(r) => ShardInOrder(r)')
  BY <1>1 DEF Line, Behind, ShardInOrder
<1>20. LineInOrder'
  BY <1>1, <1>18, <1>19 DEF LineInOrder, Moved
<1>21. WindowsAreClear'
  BY <1>1, <1>18 DEF WindowsAreClear, Moved, Single
<1> QED
  BY <1>1, <1>18, <1>19, <1>20, <1>21 DEF Moved, Told

\* The router moves the first ticket to the end of its shard's queue.
LEMMA RouteInOrder ==
  ASSUME IInv, LineInOrder, WindowsAreClear, Route
  PROVE  /\ LineInOrder' /\ WindowsAreClear' /\ pc' = pc
         /\ \A r \in Shards : Line(r)' \subseteq Line(r) /\ Behind(r)' \subseteq Behind(r)
<1> DEFINE n == Head(intake)
           t == Tail(intake)
           d == ShardOf[Owner(n)]
<1>1. /\ intake # <<>> /\ intake' = t
      /\ shardQueue' = [shardQueue EXCEPT ![d] = Append(@, n)]
      /\ UNCHANGED <<pending, dispatched, current, todo, pc>>
  BY DEF Route, callers, workers
<1>2. /\ n \in Nat /\ Range(intake) = {n} \cup Range(t)
      /\ Increasing(t) /\ Ahead({n}, Range(t))
  BY <1>1, Queues, HeadIsFirst DEF LineInOrder
<1> HIDE DEF n, t, d
<1>3. ASSUME NEW r \in Shards
      PROVE  ShardInOrder(r)' /\ Line(r)' \subseteq Line(r) /\ Behind(r)' \subseteq Behind(r)
  <2>1. ShardInOrder(r)
    BY DEF LineInOrder
  <2>2. CASE r # d
    <3>1. shardQueue'[r] = shardQueue[r]
      BY <1>1, <2>2, Typed
    <3> QED
      BY <1>1, <1>2, <2>1, <3>1 DEF ShardInOrder, Line, Behind, Ahead
  <2>3. CASE r = d
    <3>1. shardQueue'[r] = Append(shardQueue[r], n)
      BY <1>1, <2>3, Typed
    <3>2. Ahead(Range(shardQueue[r]), {n})
      BY <1>2, <2>1 DEF ShardInOrder, Ahead
    <3>3. /\ Range(Append(shardQueue[r], n)) = Range(shardQueue[r]) \cup {n}
          /\ Increasing(Append(shardQueue[r], n))
      BY <1>2, <2>1, <3>2, Queues, JoinsAtEnd DEF ShardInOrder
    <3>4. Behind(r)' \subseteq Behind(r) /\ Line(r)' \subseteq Line(r)
      BY <1>1, <1>2, <3>1, <3>3 DEF Line, Behind
    <3>5. ShardInOrder(r)'
      BY <1>1, <1>2, <2>1, <3>1, <3>3 DEF ShardInOrder, Behind, Ahead
    <3> QED
      BY <3>4, <3>5
  <2> QED
    BY <2>2, <2>3
<1>4. LineInOrder'
  BY <1>1, <1>2, <1>3 DEF LineInOrder
<1>5. WindowsAreClear'
  BY <1>1 DEF WindowsAreClear, Single
<1> QED
  BY <1>1, <1>3, <1>4, <1>5

\* A new ticket is behind everybody.
LEMMA DispatchInOrder ==
  ASSUME IInv, LineInOrder, WindowsAreClear, NEW c \in Commands, Dispatch(c)
  PROVE  /\ LineInOrder' /\ WindowsAreClear' /\ UNCHANGED <<pc, current, log, answer>>
         /\ Tickets \subseteq Tickets' /\ \A n \in Tickets : CommandOf(n)' = CommandOf(n)
         /\ \A r \in Shards : \A n \in Tickets : n \in OnShard(r)' => n \in OnShard(r)
         /\ \A r \in Shards :
              /\ \A n \in Line(r)' \ Line(r) : \A m \in Tickets : m < n
              /\ \A n \in Behind(r)' \ Behind(r) : \A m \in Tickets : m < n
<1> DEFINE new == Len(dispatched) + 1
<1>1. /\ dispatched' = Append(dispatched, c) /\ intake' = Append(intake, new)
      /\ UNCHANGED <<answer, shardQueue, pending, current, todo, pc, log>>
  BY DEF Dispatch, workers, durable
<1>2. /\ Len(dispatched) \in Nat /\ Len(dispatched') = new
      /\ \A i \in 1..Len(dispatched) : dispatched'[i] = dispatched[i]
  BY <1>1, AppendProperties, LenProperties DEF IInv, TypeOK
<1>3. new \in Nat /\ Tickets \subseteq Tickets' /\ \A m \in Tickets : m < new
  BY <1>2 DEF Tickets
<1>4. \A n \in Tickets : CommandOf(n)' = CommandOf(n)
  BY <1>2 DEF Tickets, CommandOf
<1>5. \A r \in Shards : \A n \in Tickets : n \in OnShard(r)' => n \in OnShard(r)
  BY <1>4 DEF OnShard, Owner
<1>6. Ahead(Range(intake), {new})
  BY <1>3, Queues DEF Ahead
<1> HIDE DEF new
<1>7. Range(Append(intake, new)) = Range(intake) \cup {new} /\ Increasing(Append(intake, new))
  BY <1>3, <1>6, Queues, JoinsAtEnd DEF LineInOrder
<1>8. \A r \in Shards : Line(r)' = Line(r) \cup {new} /\ Behind(r)' = Behind(r) \cup {new}
  BY <1>1, <1>7 DEF Line, Behind
<1>9. ASSUME NEW r \in Shards PROVE ShardInOrder(r)'
  <2>1. ShardInOrder(r) /\ Ahead(Line(r), {new})
    BY <1>3, Queues DEF LineInOrder, Ahead
  <2> QED
    BY <1>1, <1>7, <2>1 DEF ShardInOrder, Line, Behind, Ahead
<1>10. LineInOrder'
  BY <1>1, <1>7, <1>9 DEF LineInOrder
<1>11. WindowsAreClear'
  BY <1>1 DEF WindowsAreClear, Single
<1> QED
  BY <1>1, <1>3, <1>4, <1>5, <1>8, <1>10, <1>11

\* Every other step: nobody joins a line, and a new answer is for a ticket
\* ahead of all that are left.
LEMMA LinesStep ==
  ASSUME IInv, LineInOrder, WindowsAreClear, [Next]_vars, UNCHANGED dispatched
  PROVE  /\ LineInOrder' /\ WindowsAreClear'
         /\ \A r \in Shards : Line(r)' \subseteq Line(r)
         /\ \A r \in Shards : pc[r] \in Committed =>
              /\ Behind(r)' \subseteq Behind(r)
              /\ pc'[r] \notin Committed => Line(r)' \subseteq Behind(r)
         /\ \A n \in 1..MaxDispatches : answer'[n] # "waiting" =>
              \/ answer[n] # "waiting"
              \/ n \in Tickets /\ \A r \in Shards : n \in OnShard(r) => Ahead({n}, Line(r)')
<1> DEFINE Post ==
         /\ LineInOrder' /\ WindowsAreClear'
         /\ \A r \in Shards : Line(r)' \subseteq Line(r)
         /\ \A r \in Shards : pc[r] \in Committed =>
              /\ Behind(r)' \subseteq Behind(r)
              /\ pc'[r] \notin Committed => Line(r)' \subseteq Behind(r)
         /\ \A n \in 1..MaxDispatches : answer'[n] # "waiting" =>
              \/ answer[n] # "waiting"
              \/ n \in Tickets /\ \A r \in Shards : n \in OnShard(r) => Ahead({n}, Line(r)')
<1>1. ASSUME NEW s \in Shards, Work(s) \/ Locking(s) PROVE Post
  <2> DEFINE first == current[s][1]
  <2>1. /\ LineInOrder' /\ WindowsAreClear'
        /\ \A r \in Shards : Line(r)' \subseteq Line(r)
        /\ \A r \in Shards : pc[r] \in Committed =>
             /\ Behind(r)' \subseteq Behind(r)
             /\ pc'[r] \notin Committed => Line(r)' \subseteq Behind(r)
        /\ \/ UNCHANGED answer
           \/ /\ pc[s] # "idle" /\ Ahead({first}, Line(s)')
              /\ \E v : answer' = [answer EXCEPT ![first] = v]
    BY <1>1, WorkerInOrder
  <2>2. ASSUME NEW n \in 1..MaxDispatches, answer'[n] # "waiting", answer[n] = "waiting"
        PROVE  n \in Tickets /\ \A r \in Shards : n \in OnShard(r) => Ahead({n}, Line(r)')
    <3>1. /\ pc[s] # "idle" /\ Ahead({first}, Line(s)')
          /\ \E v : answer' = [answer EXCEPT ![first] = v]
      BY <2>1, <2>2
    <3>2. n = first
      BY <2>2, <3>1, Typed
    <3>3. first \in OnShard(s) /\ first \in Tickets
      BY <3>1, Held
    <3>4. \A r \in Shards : first \in OnShard(r) => r = s
      BY <3>3 DEF OnShard
    <3> QED
      BY <3>1, <3>2, <3>3, <3>4
  <2> QED
    BY <2>1, <2>2
<1>2. CASE Route
  <2>1. answer' = answer
    BY <1>2 DEF Route, callers
  <2> QED
    BY <1>2, <2>1, RouteInOrder
<1>3. CASE Crash
  <2>1. /\ intake' = <<>>
        /\ \A r \in Shards : /\ current'[r] = <<>> /\ todo'[r] = <<>> /\ pc'[r] = "idle"
                             /\ pending'[r] = <<>> /\ shardQueue'[r] = <<>>
    BY <1>3 DEF Crash
  <2>2. \A r \in Shards : Line(r)' = {} /\ Behind(r)' = {} /\ ShardInOrder(r)'
    BY <2>1, Nobody DEF Line, Behind, ShardInOrder, Ahead
  <2>3. \A n \in 1..MaxDispatches : answer'[n] # "waiting" => answer[n] # "waiting" \/ n \in Tickets
    BY <1>3 DEF Crash, Tickets, IInv, TypeOK
  <2>4. LineInOrder' /\ WindowsAreClear'
    BY <2>1, <2>2, Nobody DEF LineInOrder, WindowsAreClear
  <2> QED
    BY <2>2, <2>3, <2>4 DEF Ahead
<1>4. CASE UNCHANGED <<answer, intake, shardQueue, pending, current, todo, pc>>
  BY <1>4 DEF LineInOrder, ShardInOrder, WindowsAreClear, Line, Behind, Single
<1>5. CASE Boot \/ UNCHANGED vars
  BY <1>4, <1>5 DEF Boot, vars, callers, queues, workers
<1>6. ~\E c \in Commands : Dispatch(c)
  <2> SUFFICES ASSUME NEW c \in Commands, dispatched' = Append(dispatched, c) PROVE FALSE
    BY DEF Dispatch
  <2>1. Len(dispatched') = Len(dispatched) + 1 /\ Len(dispatched) \in Nat
    BY AppendProperties, LenProperties DEF IInv, TypeOK
  <2> QED
    BY <2>1
<1> QED
  BY <1>1, <1>2, <1>3, <1>5, <1>6 DEF Next

\* The events a transaction adds are those of the envelopes in hand, in order.
LEMMA NewEvents ==
  ASSUME IInv, NEW s \in Shards, ShardInOrder(s), Write(s) \/ WriteBatch(s)
  PROVE  /\ pc[s] = "write" /\ pc'[s] = "swap" /\ UNCHANGED <<dispatched, current, answer>>
         /\ Behind(s)' = Behind(s)
         /\ \A e \in log' \ log : /\ e.seq \in Nat /\ e.seq > lastSeq
                                  /\ e.env \in Range(current[s]) /\ e.cmd = CommandOf(e.env)
         /\ \A e, f \in log' \ log : e.seq < f.seq => e.env <= f.env
<1>0. lastSeq \in Nat /\ DOMAIN current[s] = 1..Len(current[s])
  BY Typed, LenProperties, LockFacts
<1>1. /\ pc[s] = "write" /\ pc'[s] = "swap" /\ UNCHANGED <<dispatched, current, answer>>
      /\ Behind(s)' = Behind(s)
  BY Typed DEF Write, WriteBatch, At, Goto, callers, queues, Behind
<1>2. CASE Write(s)
  <2> DEFINE n == current[s][1]
             new == EventsOf(n, plan[s])
  <2>1. log' \subseteq log \cup new
    BY <1>2 DEF Write, Kept
  <2>2. n \in Range(current[s]) /\ n \in Nat
    <3>1. 1 \in 1..Len(current[s]) /\ n \in Tickets
      BY <1>1, Held
    <3> QED
      BY <1>0, <3>1 DEF Range, Tickets
  <2>3. \A e \in new : e.seq \in Nat /\ e.seq > lastSeq /\ e.env = n /\ e.cmd = CommandOf(n)
    BY <1>0 DEF EventsOf
  <2> HIDE DEF n, new
  <2> QED
    BY <1>1, <2>1, <2>2, <2>3
<1>3. CASE WriteBatch(s)
  <2> DEFINE q == current[s]
             new == BatchEvents(q)
  <2>1. log' = log \cup new
    BY <1>3 DEF WriteBatch
  <2>2. \A e \in new : \E i \in 1..Len(q) :
          e.seq = lastSeq + i /\ e.env = q[i] /\ e.cmd = CommandOf(q[i])
    BY DEF BatchEvents
  <2>3. \A i, j \in 1..Len(q) : i < j => q[i] < q[j]
    BY DEF ShardInOrder, Increasing
  <2>4. \A i \in 1..Len(q) : q[i] \in Nat
    BY Queues, ElementOfSeq
  <2> HIDE DEF new
  <2>5. \A e \in new : /\ e.seq \in Nat /\ e.seq > lastSeq
                       /\ e.env \in Range(q) /\ e.cmd = CommandOf(e.env)
    BY <1>0, <2>2 DEF Range
  <2>6. ASSUME NEW e \in new, NEW f \in new, e.seq < f.seq PROVE e.env <= f.env
    <3>1. PICK i \in 1..Len(q) : e.seq = lastSeq + i /\ e.env = q[i]
      BY <2>2
    <3>2. PICK j \in 1..Len(q) : f.seq = lastSeq + j /\ f.env = q[j]
      BY <2>2
    <3>3. i < j
      BY <1>0, <2>6, <3>1, <3>2
    <3> QED
      BY <2>3, <2>4, <3>1, <3>2, <3>3
  <2> QED
    BY <1>1, <2>1, <2>5, <2>6
<1> QED
  BY <1>2, <1>3

\* Only the transactions of a worker add to the log.
LEMMA LogSteps ==
  ASSUME [Next]_vars
  PROVE  log' = log \/ \E s \in Shards : Write(s) \/ WriteBatch(s)
<1>1. ASSUME NEW s \in Shards, Decide(s) \/ Compensate(s) PROVE log' = log
  BY <1>1 DEF Decide, Compensate
<1> QED
  BY <1>1, RecordingSteps

\* Only a dispatch makes a ticket.
LEMMA DispatchOnly ==
  ASSUME [Next]_vars
  PROVE  UNCHANGED dispatched \/ \E c \in Commands : Dispatch(c)
<1>1. ASSUME NEW s \in Shards, Work(s) \/ Locking(s) PROVE UNCHANGED dispatched
  BY <1>1 DEF Work, Locking, callers, Take, CandidateArrives, PollBatch, Admit, AdmitBatch,
              Write, WriteFails, WriteBatch, WriteBatchFails, Swap, Publish, Finish, Refuse,
              Decide, CheckBatch, Compensate
<1> QED
  BY <1>1 DEF Next, vars, callers, Route, Crash, Boot

\* The log stays in the order of dispatch.
LEMMA LogInOrderStep ==
  ASSUME IInv, LineInOrder, WindowsAreClear, LogInOrder, [Next]_vars
  PROVE  LogInOrder'
<1>1. ASSUME NEW c \in Commands, Dispatch(c) PROVE LogInOrder'
  <2>1. /\ UNCHANGED <<pc, current, log>>
        /\ Tickets \subseteq Tickets' /\ \A n \in Tickets : CommandOf(n)' = CommandOf(n)
        /\ \A r \in Shards : \A n \in Tickets : n \in OnShard(r)' => n \in OnShard(r)
        /\ \A r \in Shards : \A n \in Behind(r)' \ Behind(r) : \A m \in Tickets : m < n
    BY <1>1, DispatchInOrder
  <2>2. \A e \in log : e.env \in Tickets /\ CommandOf(e.env)' = e.cmd /\ Owner(e.env)' = Owner(e.env)
    BY <2>1 DEF LogInOrder, Owner
  <2> QED
    BY <2>1, <2>2 DEF LogInOrder, Ahead
<1>2. ASSUME UNCHANGED dispatched PROVE LogInOrder'
  <2>0. /\ Tickets' = Tickets /\ \A r : OnShard(r)' = OnShard(r)
        /\ \A n : CommandOf(n)' = CommandOf(n) /\ Owner(n)' = Owner(n)
    BY <1>2, SameTickets DEF CommandOf, Owner
  <2>1. /\ \A r \in Shards : Line(r)' \subseteq Line(r)
        /\ \A r \in Shards : pc[r] \in Committed =>
             /\ Behind(r)' \subseteq Behind(r)
             /\ pc'[r] \notin Committed => Line(r)' \subseteq Behind(r)
    BY <1>2, LinesStep
  <2>2. \A r \in Shards : \A e \in log : e.env \in OnShard(r) =>
          /\ Ahead({e.env}, Behind(r)')
          /\ pc'[r] \notin Committed => Ahead({e.env}, Range(current'[r]))
    <3> SUFFICES ASSUME NEW r \in Shards, NEW e \in log, e.env \in OnShard(r)
                 PROVE  /\ Ahead({e.env}, Behind(r)')
                        /\ pc'[r] \notin Committed => Ahead({e.env}, Range(current'[r]))
      OBVIOUS
    <3>1. Ahead({e.env}, Behind(r)) /\ (pc[r] \notin Committed => Ahead({e.env}, Line(r)))
      BY DEF LogInOrder, Line, Ahead
    <3>2. Behind(r)' \subseteq Line(r)' /\ Range(current'[r]) \subseteq Line(r)'
      BY DEF Line
    <3> QED
      BY <2>1, <3>1, <3>2 DEF Ahead
  <2>3. CASE log' = log
    BY <2>0, <2>2, <2>3 DEF LogInOrder
  <2>4. ASSUME NEW s \in Shards, Write(s) \/ WriteBatch(s) PROVE LogInOrder'
    <3>1. /\ pc[s] = "write" /\ pc'[s] = "swap" /\ Behind(s)' = Behind(s)
          /\ \A e \in log' \ log : /\ e.seq \in Nat /\ e.seq > lastSeq
                                   /\ e.env \in Range(current[s]) /\ e.cmd = CommandOf(e.env)
          /\ \A e, f \in log' \ log : e.seq < f.seq => e.env <= f.env
      BY <2>4, NewEvents DEF LineInOrder
    <3>2. \A n \in Range(current[s]) : n \in Tickets /\ n \in Nat /\ n \in OnShard(s)
      <4>1. current[s] \in Seq(OnShard(s)) /\ DOMAIN current[s] = 1..Len(current[s])
        BY <3>1, Held, LenProperties
      <4>2. \A i \in DOMAIN current[s] : current[s][i] \in OnShard(s)
        BY <4>1, ElementOfSeq
      <4> QED
        BY <4>2 DEF Range, OnShard, Tickets
    <3>3. \A n \in Range(current[s]) : \A r \in Shards : n \in OnShard(r) => r = s
      BY <3>2 DEF OnShard
    <3>4. \A e \in log : e.seq \in Nat /\ e.seq <= lastSeq /\ lastSeq \in Nat
      BY DEF IInv, TypeOK, ModelInStep, Event
    <3>5. \A e \in log' : e.env \in Tickets /\ CommandOf(e.env) = e.cmd
      BY <3>1, <3>2 DEF LogInOrder
    <3>6. ASSUME NEW r \in Shards, NEW e \in log' \ log, e.env \in OnShard(r)
          PROVE  Ahead({e.env}, Behind(r)') /\ pc'[r] \in Committed
      <4>1. r = s /\ e.env \in Range(current[s])
        BY <3>1, <3>3, <3>6
      <4>2. Ahead({e.env}, Behind(s))
        BY <4>1 DEF LineInOrder, ShardInOrder, Ahead
      <4> QED
        BY <3>1, <4>1, <4>2 DEF Committed
    <3>7. ASSUME NEW e \in log', NEW f \in log', e.seq < f.seq,
                 ShardOf[Owner(e.env)] = ShardOf[Owner(f.env)]
          PROVE  e.env <= f.env
      <4>1. CASE e \in log /\ f \in log
        BY <3>7, <4>1 DEF LogInOrder
      <4>2. CASE e \in log /\ f \in log' \ log
        <5>1. f.env \in Range(current[s]) /\ f.env \in OnShard(s) /\ f.env \in Nat
          BY <3>1, <3>2, <4>2
        <5>2. e.env \in OnShard(s) /\ e.env \in Nat
          BY <3>5, <3>7, <5>1 DEF OnShard, Tickets
        <5>3. Ahead({e.env}, Range(current[s]))
          BY <3>1, <4>2, <5>2 DEF LogInOrder, Committed
        <5> QED
          BY <5>1, <5>2, <5>3 DEF Ahead
      <4>3. CASE e \in log' \ log /\ f \in log
        BY <3>1, <3>4, <3>7, <4>3
      <4>4. CASE e \in log' \ log /\ f \in log' \ log
        BY <3>1, <3>7, <4>4
      <4> QED
        BY <4>1, <4>2, <4>3, <4>4
    <3> QED
      BY <2>0, <2>2, <3>5, <3>6, <3>7 DEF LogInOrder
  <2> QED
    BY <2>3, <2>4, LogSteps
<1>3. UNCHANGED dispatched \/ \E c \in Commands : Dispatch(c)
  BY DispatchOnly
<1> QED
  BY <1>1, <1>2, <1>3

\* Answers stay in the order of dispatch.
LEMMA AnsweredInOrderStep ==
  ASSUME IInv, LineInOrder, WindowsAreClear, AnsweredInOrder, [Next]_vars
  PROVE  AnsweredInOrder'
<1>1. ASSUME NEW c \in Commands, Dispatch(c) PROVE AnsweredInOrder'
  <2>1. /\ answer' = answer
        /\ Tickets \subseteq Tickets'
        /\ \A r \in Shards : \A n \in Tickets : n \in OnShard(r)' => n \in OnShard(r)
        /\ \A r \in Shards : \A n \in Line(r)' \ Line(r) : \A m \in Tickets : m < n
    BY <1>1, DispatchInOrder
  <2> QED
    BY <2>1 DEF AnsweredInOrder, Ahead
<1>2. ASSUME UNCHANGED dispatched PROVE AnsweredInOrder'
  <2>1. Tickets' = Tickets /\ \A r : OnShard(r)' = OnShard(r)
    BY <1>2, SameTickets
  <2>2. /\ \A r \in Shards : Line(r)' \subseteq Line(r)
        /\ \A n \in 1..MaxDispatches : answer'[n] # "waiting" =>
             \/ answer[n] # "waiting"
             \/ n \in Tickets /\ \A r \in Shards : n \in OnShard(r) => Ahead({n}, Line(r)')
    BY <1>2, LinesStep
  <2> QED
    BY <2>1, <2>2 DEF AnsweredInOrder, Ahead
<1> QED
  BY <1>1, <1>2, DispatchOnly

\* How a worker comes to have committed envelopes in hand, and keeps them.
LEMMA CommittedMoves ==
  ASSUME IInv, NEW s \in Shards, Work(s) \/ Locking(s), NEW r \in Shards,
         pc'[r] \in Committed,
         ~(r = s /\ (Write(s) \/ WriteBatch(s) \/ (Decide(s) /\ AcceptNoOp(s))))
  PROVE  /\ pc[r] \in Committed
         /\ current'[r] = current[r] \/ (pc'[r] = "drain" /\ current'[r] = Tail(current[r]))
         /\ pc'[r] \in {"swap", "publish"} =>
              /\ pc[r] \in {"swap", "publish"} /\ plan'[r] = plan[r]
              /\ UNCHANGED <<log, lastSeq>>
<1> USE Typed DEF At, Goto, Advance, FallBack, Committed
<1>0. ASSUME r # s, pc[r] \in {"swap", "publish"} PROVE pc[s] \notin Section
  BY <1>0, LockFacts DEF Section
<1>1. CASE Take(s)
  BY <1>1 DEF Take, durable
<1>2. CASE CandidateArrives(s)
  BY <1>2 DEF CandidateArrives, durable
<1>3. CASE PollBatch(s)
  <2>1. /\ pc' = [pc EXCEPT ![s] = "admit"] /\ UNCHANGED <<plan, durable>>
        /\ \E q : current' = [current EXCEPT ![s] = q]
    BY <1>3 DEF PollBatch
  <2> QED
    BY <2>1 DEF durable
<1>4. CASE Admit(s)
  BY <1>4 DEF Admit, Replay, Fail, durable
<1>5. CASE AdmitBatch(s)
  BY <1>5 DEF AdmitBatch, durable
<1>6. CASE Write(s) \/ WriteBatch(s)
  BY <1>0, <1>6 DEF Write, WriteBatch, Section
<1>7. CASE Swap(s) \/ Publish(s)
  BY <1>7 DEF Swap, Publish, durable
<1>8. CASE WriteFails(s) \/ WriteBatchFails(s)
  BY <1>8 DEF WriteFails, Fail, WriteBatchFails, durable
<1>9. CASE Finish(s) \/ Refuse(s)
  BY <1>9 DEF Finish, Refuse, durable
<1>10. CASE Decide(s)
  <2>1. CASE DecideEvents(s)
    BY <1>10, <2>1 DEF Decide, DecideEvents
  <2>2. CASE AcceptNoOp(s)
    BY <1>10, <2>2, Held DEF Decide, AcceptNoOp
  <2>3. CASE ~DecideEvents(s) /\ ~AcceptNoOp(s)
    BY <1>10, <2>3 DEF Decide, Replay, Fail
  <2> QED
    BY <2>1, <2>2, <2>3
<1>11. CASE CheckBatch(s)
  BY <1>11 DEF CheckBatch, durable
<1>12. CASE Compensate(s)
  BY <1>12 DEF Compensate
<1> QED
  BY <1>1, <1>2, <1>3, <1>4, <1>5, <1>6, <1>7, <1>8, <1>9, <1>10, <1>11, <1>12 DEF Work, Locking

\* The sequence of a model of n events.
LEMMA SequenceOfCount ==
  ASSUME NEW n \in Nat
  PROVE  SnapshotSequence(Count(n)) = n
BY CountIsSeq, EmptySeq DEF SnapshotSequence

\* What model and subscribers lack is in hand.
LEMMA MissingStep ==
  ASSUME OrderInv, IInv', [Next]_vars
  PROVE  MissingAreInHand'
<1>0. IInv /\ LineInOrder /\ MissingAreInHand
  BY DEF OrderInv
<1> SUFFICES ASSUME NEW r \in Shards, pc'[r] \in {"swap", "publish"},
                    NEW e \in log', e.seq > lastSeq' - Size(r)'
             PROVE  e.env \in Range(current'[r])
  BY DEF MissingAreInHand
<1>1. ASSUME pc[r] = pc'[r] \/ pc[r] \in {"swap", "publish"}, UNCHANGED <<log, lastSeq>>,
             current'[r] = current[r], plan'[r] = plan[r]
      PROVE  e.env \in Range(current'[r])
  BY <1>0, <1>1 DEF MissingAreInHand, Size, Single
<1>2. ASSUME NEW s \in Shards, Work(s) \/ Locking(s), ~(r = s /\ (Write(s) \/ WriteBatch(s)))
      PROVE  e.env \in Range(current'[r])
  <2>1. ~(r = s /\ Decide(s) /\ AcceptNoOp(s))
    BY <1>0, Typed DEF AcceptNoOp, Goto
  <2>2. /\ pc[r] \in {"swap", "publish"} /\ plan'[r] = plan[r] /\ UNCHANGED <<log, lastSeq>>
        /\ current'[r] = current[r]
    BY <1>0, <1>2, <2>1, CommittedMoves DEF Committed
  <2> QED
    BY <1>1, <2>2
<1>3. ASSUME Write(r) \/ WriteBatch(r) PROVE e.env \in Range(current'[r])
  <2>1. /\ pc[r] = "write" /\ current' = current
        /\ \A f \in log' \ log : f.env \in Range(current[r])
    BY <1>0, <1>3, NewEvents DEF LineInOrder
  <2>2. /\ \A f \in log : f.seq \in Nat /\ f.seq <= lastSeq
        /\ lastSeq \in Nat /\ Size(r) \in Nat
    BY <1>0, <2>1, Held, Typed, LenProperties DEF IInv, TypeOK, ModelInStep, Event, Size
  <2>3. lastSeq' = lastSeq + Size(r) /\ Size(r)' = Size(r)
    BY <1>3, <2>1 DEF Write, WriteBatch, Size, Single
  <2>4. lastSeq' - Size(r)' = lastSeq
    BY <2>2, <2>3
  <2>5. e \notin log
    BY <2>2, <2>4
  <2> QED
    BY <2>1, <2>5
<1>4. ASSUME NEW c \in Commands, Dispatch(c) PROVE e.env \in Range(current'[r])
  BY <1>1, <1>4 DEF Dispatch, workers, durable
<1>5. ASSUME Route \/ UNCHANGED vars \/ Boot PROVE e.env \in Range(current'[r])
  BY <1>1, <1>5 DEF Route, Boot, vars, workers, durable
<1>6. ~Crash
  BY DEF Crash
<1> QED
  BY <1>2, <1>3, <1>4, <1>5, <1>6 DEF Next

\* The invariant of order holds initially.
LEMMA OrderInit == Init => OrderInv
<1> SUFFICES ASSUME Init PROVE OrderInv
  OBVIOUS
<1>1. IInv
  BY InitOK
<1>2. \A s \in Shards : ShardInOrder(s)
  BY Nobody DEF Init, ShardInOrder, Line, Behind, Ahead
<1>3. LineInOrder /\ WindowsAreClear
  BY <1>2, Nobody DEF Init, LineInOrder, WindowsAreClear
<1>4. LogInOrder /\ AnsweredInOrder /\ MissingAreInHand
  BY DEF Init, LogInOrder, AnsweredInOrder, MissingAreInHand
<1> QED
  BY <1>1, <1>3, <1>4 DEF OrderInv

\* The invariant of order is inductive.
LEMMA OrderStep == OrderInv /\ [Next]_vars => OrderInv'
<1> SUFFICES ASSUME OrderInv, [Next]_vars PROVE OrderInv'
  OBVIOUS
<1>0. IInv /\ LineInOrder /\ WindowsAreClear /\ LogInOrder /\ AnsweredInOrder
  BY DEF OrderInv
<1>1. IInv'
  BY <1>0, NextOK
<1>2. LineInOrder' /\ WindowsAreClear'
  BY <1>0, LinesStep, DispatchInOrder, DispatchOnly
<1> QED
  BY <1>0, <1>1, <1>2, LogInOrderStep, AnsweredInOrderStep, MissingStep DEF OrderInv

\* Lines, log and answers are in the order of dispatch in every reachable state.
THEOREM OrderInvariance == Spec => []OrderInv
BY OrderInit, OrderStep, PTL DEF Spec

\* The commands of one aggregate commit in the order they were dispatched.
THEOREM CommitsAreFIFO == Spec => []PerAggregateFIFO
<1>1. OrderInv => PerAggregateFIFO
  BY DEF OrderInv, LogInOrder, PerAggregateFIFO, Owner
<1> QED
  BY OrderInvariance, <1>1, PTL

\* An event that is not in hand is in the model and was published.
LEMMA SeenEvents ==
  ASSUME OrderInv, up, NEW e \in log,
         \A r \in Shards : pc[r] \in {"swap", "publish"} => e.env \notin Range(current[r])
  PROVE  e.seq <= SnapshotSequence(model) /\ e.seq <= SnapshotSequence(published)
<1>0. IInv /\ MissingAreInHand
  BY DEF OrderInv
<1>1. lastSeq \in Nat /\ e.seq \in Nat /\ e.seq <= lastSeq
  BY <1>0, LockFacts DEF IInv, TypeOK, ModelInStep, Event
<1>2. ASSUME NEW r \in Shards, pc[r] \in {"swap", "publish"}
      PROVE  e.seq <= SnapshotSequence(model) /\ e.seq <= SnapshotSequence(published)
  <2>1. Size(r) \in Nat
    BY <1>0, <1>2, Held, Typed, LenProperties DEF Size
  <2>2. /\ Size(r) <= lastSeq /\ published = Count(lastSeq - Size(r))
        /\ model = published \/ model = Count(lastSeq)
    BY <1>0, <1>2 DEF IInv, ModelInStep
  <2>3. ~(e.seq > lastSeq - Size(r))
    BY <1>0, <1>2 DEF MissingAreInHand
  <2> DEFINE seen == lastSeq - Size(r)
  <2>4. seen \in Nat /\ e.seq <= seen
    BY <1>1, <2>1, <2>2, <2>3
  <2> HIDE DEF seen
  <2>5. SnapshotSequence(Count(seen)) = seen /\ SnapshotSequence(Count(lastSeq)) = lastSeq
    BY <1>1, <2>4, SequenceOfCount
  <2>6. published = Count(seen)
    BY <2>2 DEF seen
  <2> QED
    BY <1>1, <2>2, <2>4, <2>5, <2>6
<1>3. CASE \A r \in Shards : pc[r] \notin {"swap", "publish"}
  <2>1. model = Count(lastSeq) /\ published = Count(lastSeq)
    BY <1>0, <1>3 DEF IInv, ModelInStep
  <2> QED
    BY <1>1, <2>1, SequenceOfCount
<1> QED
  BY <1>2, <1>3

\* A caller that was answered reads its own events.
THEOREM AnswersAreVisible == Spec => []AnsweredIsVisible
<1>1. ASSUME OrderInv PROVE AnsweredIsVisible
  <2> SUFFICES ASSUME up, NEW n \in 1..Len(dispatched), NEW e \in log,
                      answer[n] = "accepted", e.cmd = CommandOf(n), e.env <= n
               PROVE  /\ e.seq <= SnapshotSequence(model)
                      /\ e.seq <= SnapshotSequence(published)
    BY DEF AnsweredIsVisible
  <2>0. IInv /\ LogInOrder /\ AnsweredInOrder
    BY <1>1 DEF OrderInv
  <2>1. n \in Tickets /\ n \in 1..MaxDispatches /\ n \in Nat /\ e.env \in Tickets /\ e.env \in Nat
    BY <2>0, TicketBound DEF Tickets, LogInOrder
  <2>2. ASSUME NEW r \in Shards, pc[r] \in {"swap", "publish"}, e.env \in Range(current[r])
        PROVE  FALSE
    <3>1. e.env \in OnShard(r)
      <4>1. current[r] \in Seq(OnShard(r)) /\ DOMAIN current[r] = 1..Len(current[r])
        BY <2>0, <2>2, Held, LenProperties
      <4> QED
        BY <2>2, <4>1, ElementOfSeq DEF Range
    <3>2. n \in OnShard(r)
      BY <2>0, <2>1, <3>1 DEF OnShard, Owner, LogInOrder
    <3>3. Ahead({n}, Line(r))
      BY <2>0, <2>1, <3>2 DEF AnsweredInOrder
    <3>4. n < e.env
      BY <2>2, <3>3 DEF Ahead, Line
    <3> QED
      BY <2>1, <3>4
  <2> QED
    BY <1>1, <2>2, SeenEvents
<1> QED
  BY OrderInvariance, <1>1, PTL

\* The model of the lock's holder, and of a free lock, has every event.
LEMMA FreshUnderLock ==
  ASSUME IInv, up, lock = NoShard \/ \E s \in Shards : pc[s] = "write"
  PROVE  SnapshotSequence(model) = lastSeq /\ lastSeq \in Nat
<1>1. \A s \in Shards : pc[s] \notin {"swap", "publish"}
  BY LockFacts DEF Section
<1>2. model = Count(lastSeq) /\ lastSeq \in Nat
  BY <1>1, LockFacts DEF IInv, ModelInStep
<1> QED
  BY <1>2, SequenceOfCount

\* The other workers stay where they are.
LEMMA WorkerAlone ==
  ASSUME IInv, NEW s \in Shards, Work(s) \/ Locking(s)
  PROVE  \A r \in Shards \ {s} : pc'[r] = pc[r]
<1> USE Typed DEF Goto, Advance, FallBack, Fail
<1>1. CASE Take(s) \/ CandidateArrives(s) \/ PollBatch(s)
  BY <1>1 DEF Take, CandidateArrives, PollBatch
<1>2. CASE Admit(s) \/ Decide(s)
  BY <1>2 DEF Admit, Decide, DecideEvents, AcceptNoOp, Replay
<1>3. CASE AdmitBatch(s) \/ CheckBatch(s)
  BY <1>3 DEF AdmitBatch, CheckBatch
<1>4. CASE Write(s) \/ WriteBatch(s) \/ WriteFails(s) \/ WriteBatchFails(s)
  BY <1>4 DEF Write, WriteBatch, WriteFails, WriteBatchFails
<1>5. CASE Swap(s) \/ Publish(s) \/ Finish(s) \/ Refuse(s) \/ Compensate(s)
  BY <1>5 DEF Swap, Publish, Finish, Refuse, Compensate
<1> QED
  BY <1>1, <1>2, <1>3, <1>4, <1>5 DEF Work, Locking

\* A decision stays fresh until its transaction: the lock keeps others out.
LEMMA PlansAreFreshStep ==
  ASSUME IInv, PlansAreFresh, [Next]_vars
  PROVE  PlansAreFresh'
<1> SUFFICES ASSUME NEW r \in Shards, pc'[r] = "write", Single(r)'
             PROVE  plan'[r].basis = lastSeq'
  BY DEF PlansAreFresh
<1>1. ASSUME UNCHANGED <<lastSeq, pc, plan, current>> PROVE plan'[r].basis = lastSeq'
  BY <1>1 DEF PlansAreFresh, Single
<1>2. ASSUME NEW s \in Shards, Work(s) \/ Locking(s) PROVE plan'[r].basis = lastSeq'
  <2>1. \/ pc[r] = "write" /\ current'[r] = current[r] /\ plan'[r] = plan[r]
        \/ pc[r] = "commit" /\ current'[r] = current[r]
    BY <1>2, Moves
  <2>2. CASE pc[r] = "write" /\ current'[r] = current[r] /\ plan'[r] = plan[r]
    <3>1. ~Write(s) /\ ~WriteBatch(s)
      BY <2>2, LockFacts, Typed DEF Section, Write, WriteBatch, At, Goto
    <3>2. lastSeq' = lastSeq
      BY <1>2, <3>1 DEF Work, Locking, durable, Take, CandidateArrives, PollBatch, Admit,
         AdmitBatch, WriteFails, WriteBatchFails, Swap, Publish, Finish, Refuse, Decide,
         CheckBatch, Compensate
    <3> QED
      BY <2>2, <3>2 DEF PlansAreFresh, Single
  <2>3. CASE pc[r] = "commit" /\ current'[r] = current[r]
    <3>1. r = s /\ Decide(s) /\ DecideEvents(s)
      <4>1. Single(r)
        BY <2>3 DEF Single
      <4>2. r = s
        <5>1. \A t \in Shards \ {s} : pc'[t] = pc[t]
          BY <1>2, WorkerAlone
        <5> QED
          BY <2>3, <5>1
      <4>3. Decide(s)
        BY <1>2, <2>3, <4>1, <4>2 DEF Work, Locking, Take, CandidateArrives, PollBatch, Admit,
           AdmitBatch, Write, WriteBatch, WriteFails, WriteBatchFails, Swap, Publish, Finish,
           Refuse, CheckBatch, Compensate, At
      <4>4. DecideEvents(s)
        BY <2>3, <4>2, <4>3, Typed DEF Decide, AcceptNoOp, Replay, Advance, Fail, Goto
      <4> QED
        BY <4>2, <4>3, <4>4
    <3>2. SnapshotSequence(model) = lastSeq /\ lastSeq' = lastSeq
      BY <3>1, FreshUnderLock DEF Decide, CommitLockFree
    <3>3. plan'[r].basis = SnapshotSequence(model)
      BY <3>1, Typed DEF DecideEvents
    <3> QED
      BY <3>2, <3>3
  <2> QED
    BY <2>1, <2>2, <2>3
<1>3. ASSUME NEW c \in Commands, Dispatch(c) PROVE plan'[r].basis = lastSeq'
  BY <1>1, <1>3 DEF Dispatch, workers, durable
<1>4. ASSUME Route \/ UNCHANGED vars \/ Boot PROVE plan'[r].basis = lastSeq'
  BY <1>1, <1>4 DEF Route, Boot, vars, workers, durable
<1>5. ~Crash
  BY DEF Crash
<1> QED
  BY <1>2, <1>3, <1>4, <1>5 DEF Next

\* No transaction adds an event that was decided on an older model.
LEMMA DecidedStep ==
  ASSUME IInv, PlansAreFresh, DecidedOnFreshModel, [Next]_vars
  PROVE  DecidedOnFreshModel'
<1>1. CASE log' = log
  BY <1>1 DEF DecidedOnFreshModel
<1>2. ASSUME NEW s \in Shards, Write(s) \/ WriteBatch(s) PROVE DecidedOnFreshModel'
  <2>1. SnapshotSequence(model) = lastSeq /\ lastSeq \in Nat
    BY <1>2, FreshUnderLock DEF Write, WriteBatch, At
  <2>2. \A e \in log : e.seq \in Nat /\ e.seq <= lastSeq
    BY DEF IInv, TypeOK, ModelInStep, Event
  <2>3. \E new :
          /\ log' \subseteq log \cup new
          /\ \A e \in new : e.seq \in Nat /\ e.seq > lastSeq /\ e.basis \in Nat /\ e.basis >= lastSeq
          /\ \A e, f \in new : e.basis < f.seq /\ f.seq < e.seq => f.env = e.env
    <3>1. CASE Write(s)
      <4> DEFINE new == EventsOf(current[s][1], plan[s])
      <4>1. log' \subseteq log \cup new /\ plan[s].basis = lastSeq
        BY <3>1 DEF Write, Kept, PlansAreFresh, At
      <4>2. \A e \in new : /\ e.seq \in Nat /\ e.seq > lastSeq /\ e.basis = lastSeq
                           /\ e.env = current[s][1]
        BY <2>1, <4>1 DEF EventsOf
      <4> HIDE DEF new
      <4> QED
        BY <2>1, <4>1, <4>2
    <3>2. CASE WriteBatch(s)
      <4> DEFINE new == BatchEvents(current[s])
      <4>1. log' = log \cup new
        BY <3>2 DEF WriteBatch
      <4>2. \A e \in new : \E i \in 1..Len(current[s]) :
              e.seq = lastSeq + i /\ e.basis = lastSeq + i - 1
        BY <2>1 DEF BatchEvents
      <4> HIDE DEF new
      <4>3. \A e \in new : /\ e.seq \in Nat /\ e.seq > lastSeq /\ e.basis \in Nat
                           /\ e.basis >= lastSeq /\ e.basis = e.seq - 1
        BY <2>1, <4>2
      <4>4. \A e, f \in new : ~(e.basis < f.seq /\ f.seq < e.seq)
        BY <4>3
      <4> QED
        BY <4>1, <4>3, <4>4
    <3> QED
      BY <1>2, <3>1, <3>2
  <2>4. PICK new :
          /\ log' \subseteq log \cup new
          /\ \A e \in new : e.seq \in Nat /\ e.seq > lastSeq /\ e.basis \in Nat /\ e.basis >= lastSeq
          /\ \A e, f \in new : e.basis < f.seq /\ f.seq < e.seq => f.env = e.env
    BY <2>3
  <2> SUFFICES ASSUME NEW e \in log', NEW f \in log', e.basis < f.seq, f.seq < e.seq
               PROVE  f.env = e.env
    BY DEF DecidedOnFreshModel
  <2>5. CASE e \in new
    <3>1. f \notin log
      BY <2>1, <2>2, <2>4, <2>5
    <3> QED
      BY <2>4, <2>5, <3>1
  <2>6. CASE e \in log
    <3>1. f \notin new
      BY <2>1, <2>2, <2>4, <2>6
    <3> QED
      BY <2>4, <2>6, <3>1 DEF DecidedOnFreshModel
  <2> QED
    BY <2>4, <2>5, <2>6
<1> QED
  BY <1>1, <1>2, LogSteps

\* Every event was decided on a model that held all the events before it.
THEOREM DecisionsAreFresh == Spec => []DecidedOnFreshModel
<1> DEFINE FreshInv == IInv /\ PlansAreFresh /\ DecidedOnFreshModel
<1>1. Init => FreshInv
  BY InitOK DEF Init, PlansAreFresh, DecidedOnFreshModel
<1>2. FreshInv /\ [Next]_vars => FreshInv'
  BY NextOK, PlansAreFreshStep, DecidedStep
<1> QED
  BY <1>1, <1>2, PTL DEF Spec

\* Where no stream is purged, a receipt that is there stays.
LEMMA ReceiptsStay ==
  ASSUME IInv, Deletions = {}, [Next]_vars, NEW c \in Commands, receipts[c].status # "none"
  PROVE  receipts'[c] = receipts[c]
BY VerdictStep DEF Purged

\* Where no stream is purged, committed envelopes keep their receipt.
LEMMA CommittedStep ==
  ASSUME OrderInv, Deletions = {}, CommittedHaveReceipts, [Next]_vars
  PROVE  CommittedHaveReceipts'
<1>0. IInv /\ LineInOrder
  BY DEF OrderInv
<1>1. \A n \in Tickets : CommandOf(n) \in Commands
  BY <1>0, ElementOfSeq DEF IInv, TypeOK, Tickets, CommandOf
<1> SUFFICES ASSUME NEW r \in Shards, pc'[r] \in Committed, NEW n \in Range(current'[r])
             PROVE  receipts'[CommandOf(n)'].status = "accepted"
  BY DEF CommittedHaveReceipts, ReceiptStatus
<1>2. ASSUME pc[r] \in Committed, n \in Range(current[r]), CommandOf(n)' = CommandOf(n)
      PROVE  receipts'[CommandOf(n)'].status = "accepted"
  <2>1. n \in Tickets /\ receipts[CommandOf(n)].status = "accepted"
    BY <1>0, <1>2, Queues DEF CommittedHaveReceipts, ReceiptStatus, Line
  <2> QED
    BY <1>0, <1>1, <1>2, <2>1, ReceiptsStay
<1>3. ASSUME NEW s \in Shards, Work(s) \/ Locking(s),
             ~(r = s /\ (Write(s) \/ WriteBatch(s) \/ (Decide(s) /\ AcceptNoOp(s))))
      PROVE  receipts'[CommandOf(n)'].status = "accepted"
  <2>1. /\ pc[r] \in Committed
        /\ current'[r] = current[r] \/ current'[r] = Tail(current[r])
    BY <1>0, <1>3, CommittedMoves
  <2>2. current[r] # <<>> /\ current[r] \in Seq(Nat)
    BY <1>0, <2>1, Held, Queues DEF Committed
  <2>3. n \in Range(current[r])
    BY <2>1, <2>2, HeadIsFirst
  <2>4. dispatched' = dispatched
    BY <1>0, <1>3, WorkerInOrder DEF OrderInv
  <2> QED
    BY <1>2, <2>1, <2>3, <2>4 DEF CommandOf
<1>4. ASSUME Write(r) PROVE receipts'[CommandOf(n)'].status = "accepted"
  <2>1. /\ pc[r] = "write" /\ Single(r) /\ UNCHANGED <<current, dispatched>>
        /\ CommandOf(current[r][1]) \in Commands
    BY <1>0, <1>4, Held DEF Write, At, callers
  <2>2. n = current[r][1]
    BY <1>0, <2>1, Held, LenProperties DEF Range, Single
  <2>3. receipts'[CommandOf(n)].status = "accepted"
    BY <1>4, <2>1, <2>2 DEF Write, KeptReceipts
  <2> QED
    BY <2>1, <2>3 DEF CommandOf
<1>5. ASSUME WriteBatch(r) PROVE receipts'[CommandOf(n)'].status = "accepted"
  <2>1. /\ pc[r] = "write" /\ UNCHANGED <<current, dispatched>>
        /\ current[r] \in Seq(Tickets) /\ DOMAIN current[r] = 1..Len(current[r])
    BY <1>0, <1>5, Held, LenProperties DEF WriteBatch, At, callers
  <2>2. PICK i \in 1..Len(current[r]) : n = current[r][i]
    BY <2>1 DEF Range
  <2>3. CommandOf(n) \in Commands
    BY <1>1, <2>1, <2>2, ElementOfSeq
  <2>4. receipts'[CommandOf(n)].status = "accepted"
    BY <1>5, <2>2, <2>3 DEF WriteBatch
  <2> QED
    BY <2>1, <2>4 DEF CommandOf
<1>6. ASSUME Decide(r), AcceptNoOp(r) PROVE receipts'[CommandOf(n)'].status = "accepted"
  <2>1. /\ pc[r] = "commit" /\ Single(r) /\ UNCHANGED <<current, dispatched>>
        /\ CommandOf(current[r][1]) \in Commands
    BY <1>0, <1>6, Held DEF Decide, AcceptNoOp, At
  <2>2. n = current[r][1]
    BY <1>0, <2>1, Held, LenProperties DEF Range, Single
  <2>3. receipts'[CommandOf(n)].status = "accepted"
    BY <1>0, <1>6, <2>1, <2>2, Typed DEF AcceptNoOp
  <2> QED
    BY <2>1, <2>3 DEF CommandOf
<1>7. ASSUME NEW c \in Commands, Dispatch(c) PROVE receipts'[CommandOf(n)'].status = "accepted"
  <2>1. /\ UNCHANGED <<pc, current>> /\ \A m \in Tickets : CommandOf(m)' = CommandOf(m)
    BY <1>7, DispatchInOrder DEF OrderInv
  <2> QED
    BY <1>0, <1>2, <2>1, Queues DEF Line
<1>8. ASSUME Route \/ UNCHANGED vars \/ Boot PROVE receipts'[CommandOf(n)'].status = "accepted"
  BY <1>2, <1>8 DEF Route, Boot, vars, callers, workers, CommandOf
<1>9. ~Crash
  BY DEF Crash, Committed
<1> QED
  BY <1>3, <1>4, <1>5, <1>6, <1>7, <1>8, <1>9 DEF Next

\* Every ticket is of a command.
LEMMA CommandsOfTickets ==
  ASSUME IInv
  PROVE  \A n \in Tickets : CommandOf(n) \in Commands
BY ElementOfSeq DEF IInv, TypeOK, Tickets, CommandOf

\* How a caller comes to hear of its envelope.
LEMMA NewAnswers ==
  ASSUME IInv, [Next]_vars, NEW n \in 1..MaxDispatches, answer'[n] # answer[n]
  PROVE  /\ UNCHANGED <<dispatched, log, receipts>>
         /\ \/ answer'[n] = "lost"
            \/ answer'[n] = ReceiptStatus(CommandOf(n))
            \/ \E s \in Shards :
                 /\ n = current[s][1]
                 /\ \/ pc[s] = "drain" /\ answer'[n] = "accepted"
                    \/ pc[s] = "refuse" /\ answer'[n] = "failed"
<1> DEFINE Post ==
         /\ UNCHANGED <<dispatched, log, receipts>>
         /\ \/ answer'[n] = "lost"
            \/ answer'[n] = ReceiptStatus(CommandOf(n))
            \/ \E s \in Shards :
                 /\ n = current[s][1]
                 /\ \/ pc[s] = "drain" /\ answer'[n] = "accepted"
                    \/ pc[s] = "refuse" /\ answer'[n] = "failed"
<1>0. answer \in [1..MaxDispatches -> Verdicts]
  BY DEF IInv, TypeOK
<1>1. ASSUME NEW s \in Shards, Finish(s) PROVE Post
  BY <1>0, <1>1 DEF Finish, Answered, At, durable
<1>2. ASSUME NEW s \in Shards, Refuse(s) PROVE Post
  BY <1>0, <1>2 DEF Refuse, Answered, At, durable
<1>3. ASSUME NEW s \in Shards, Admit(s) PROVE Post
  BY <1>0, <1>3 DEF Admit, Replay, Fail, Answered, durable
<1>4. ASSUME NEW s \in Shards, Decide(s) PROVE Post
  BY <1>0, <1>4 DEF Decide, DecideEvents, AcceptNoOp, Replay, Fail, Answered
<1>5. ASSUME Crash PROVE Post
  BY <1>0, <1>5 DEF Crash, durable
<1> HIDE DEF Post
<1>6. ASSUME NEW s \in Shards, Work(s) \/ Locking(s) PROVE Post
  BY <1>1, <1>2, <1>3, <1>4, <1>6 DEF Work, Locking, callers, Take, CandidateArrives, PollBatch,
     AdmitBatch, Write, WriteFails, WriteBatch, WriteBatchFails, Swap, Publish, CheckBatch,
     Compensate, Fail
<1>7. /\ Next
      /\ ~Route /\ ~Boot /\ \A c \in Commands : ~Dispatch(c)
  BY DEF vars, callers, Dispatch, Route, Boot
<1>8. Post
  BY <1>5, <1>6, <1>7 DEF Next
<1> QED
  BY <1>8 DEF Post

\* A dispatch that failed left no event, whatever is deleted.
LEMMA FailedStep ==
  ASSUME OrderInv, FailedLeftNothing, [Next]_vars
  PROVE  FailedLeftNothing'
<1>0. IInv /\ LineInOrder /\ LogInOrder /\ AnsweredInOrder
  BY DEF OrderInv
<1> SUFFICES ASSUME NEW n \in 1..MaxDispatches, answer'[n] = "failed", NEW e \in log', e.env = n
             PROVE  FALSE
  BY DEF FailedLeftNothing
<1>1. CASE answer[n] = "failed"
  <2>1. e \in log' \ log
    BY <1>1 DEF FailedLeftNothing
  <2>2. PICK s \in Shards : Write(s) \/ WriteBatch(s)
    BY <2>1, LogSteps
  <2>3. n \in Range(current[s]) /\ pc[s] = "write"
    BY <1>0, <2>1, <2>2, NewEvents DEF LineInOrder
  <2>4. n \in OnShard(s) /\ n \in Nat
    <3>1. current[s] \in Seq(OnShard(s)) /\ DOMAIN current[s] = 1..Len(current[s])
      BY <1>0, <2>3, Held, LenProperties
    <3> QED
      BY <2>3, <3>1, ElementOfSeq DEF Range
  <2>5. Ahead({n}, Line(s))
    BY <1>0, <1>1, <2>4 DEF AnsweredInOrder
  <2> QED
    BY <2>3, <2>4, <2>5 DEF Ahead, Line
<1>2. CASE answer[n] # "failed"
  <2>1. \/ answer'[n] = ReceiptStatus(CommandOf(n))
        \/ \E s \in Shards : n = current[s][1] /\ pc[s] = "refuse"
    BY <1>0, <1>2, NewAnswers
  <2>2. log' = log
    BY <1>0, <1>2, NewAnswers
  <2>3. CommandOf(n) \in Commands
    BY <1>0, <2>2, CommandsOfTickets DEF LogInOrder
  <2>4. ReceiptStatus(CommandOf(n)) # "failed"
    <3>1. receipts[CommandOf(n)] \in {NoReceipt} \cup Receipt
      BY <1>0, <2>3 DEF IInv, TypeOK
    <3> QED
      BY <3>1 DEF ReceiptStatus, NoReceipt, Receipt
  <2>5. PICK s \in Shards : n = current[s][1] /\ pc[s] = "refuse"
    BY <2>1, <2>4
  <2>6. DOMAIN current[s] = 1..Len(current[s]) /\ Len(current[s]) \in Nat /\ Len(current[s]) >= 1
    BY <1>0, <2>5, Held, LenProperties
  <2>7. n \in Range(current[s]) /\ n \in OnShard(s)
    BY <1>0, <2>5, <2>6, Held DEF Range
  <2>8. Ahead({n}, Range(current[s]))
    BY <1>0, <2>2, <2>5, <2>7 DEF LogInOrder, Committed
  <2> QED
    BY <2>7, <2>8 DEF Ahead
<1> QED
  BY <1>1, <1>2

\* Where no stream is purged, an answer keeps its receipt.
LEMMA AnsweredStep ==
  ASSUME OrderInv, Deletions = {}, CommittedHaveReceipts, AnsweredHaveReceipts, [Next]_vars
  PROVE  AnsweredHaveReceipts'
<1>0. IInv /\ LineInOrder /\ WindowsAreClear /\ AnsweredInOrder
  BY DEF OrderInv
<1> SUFFICES ASSUME NEW n \in 1..MaxDispatches, answer'[n] \in {"accepted", "rejected"}
             PROVE  receipts'[CommandOf(n)'].status = answer'[n]
  BY DEF AnsweredHaveReceipts, ReceiptStatus
<1>1. CASE answer'[n] = answer[n]
  <2>1. n \in Tickets /\ receipts[CommandOf(n)].status = answer[n]
    BY <1>0, <1>1 DEF AnsweredInOrder, AnsweredHaveReceipts, ReceiptStatus, Verdicts
  <2>2. receipts'[CommandOf(n)] = receipts[CommandOf(n)]
    <3>1. CommandOf(n) \in Commands
      BY <1>0, <2>1, CommandsOfTickets
    <3> QED
      BY <1>0, <1>1, <2>1, <3>1, ReceiptsStay DEF ReceiptStatus
  <2>3. CommandOf(n)' = CommandOf(n)
    BY <1>0, <2>1, DispatchOnly, DispatchInOrder DEF CommandOf
  <2> QED
    BY <1>1, <2>1, <2>2, <2>3
<1>2. CASE answer'[n] # answer[n]
  <2>1. UNCHANGED <<dispatched, receipts>>
    BY <1>0, <1>2, NewAnswers
  <2>2. CASE answer'[n] = ReceiptStatus(CommandOf(n))
    BY <2>1, <2>2 DEF ReceiptStatus, CommandOf
  <2>3. CASE answer'[n] # ReceiptStatus(CommandOf(n))
    <3>1. PICK s \in Shards : n = current[s][1] /\ pc[s] = "drain" /\ answer'[n] = "accepted"
      BY <1>0, <1>2, <2>3, NewAnswers
    <3>2. DOMAIN current[s] = 1..Len(current[s]) /\ Len(current[s]) \in Nat /\ Len(current[s]) >= 1
      BY <1>0, <3>1, Held, LenProperties
    <3>3. n \in Range(current[s])
      BY <3>1, <3>2 DEF Range
    <3> QED
      BY <2>1, <3>1, <3>3 DEF CommittedHaveReceipts, Committed, ReceiptStatus, CommandOf
  <2> QED
    BY <2>2, <2>3
<1> QED
  BY <1>1, <1>2

\* Whatever is deleted: a dispatch that failed committed none of its events.
THEOREM FailuresLeaveNothing == Spec => []FailedLeftNothing
<1>1. Init => FailedLeftNothing
  BY DEF Init, FailedLeftNothing
<1> QED
  BY <1>1, OrderInit, OrderStep, FailedStep, PTL DEF Spec

\* Where nothing is deleted, what a caller was told is durable.
THEOREM AnswersLast ==
  ASSUME Deletions = {}
  PROVE  Spec => []AnswersAreDurable
<1>1. Init => AnswersInv
  BY OrderInit DEF Init, AnswersInv, CommittedHaveReceipts, AnsweredHaveReceipts,
                   FailedLeftNothing, Committed
<1>2. AnswersInv /\ [Next]_vars => AnswersInv'
  BY OrderStep, CommittedStep, AnsweredStep, FailedStep DEF AnswersInv
<1>3. AnswersInv => AnswersAreDurable
  <2>1. AnswersInv => \A n \in 1..Len(dispatched) : n \in 1..MaxDispatches
    BY TicketBound DEF AnswersInv, OrderInv, Tickets
  <2> QED
    BY <2>1 DEF AnswersInv, AnsweredHaveReceipts, FailedLeftNothing, AnswersAreDurable, ReceiptStatus
<1> QED
  BY <1>1, <1>2, <1>3, PTL DEF Spec

\* A command whose events are in the log has an accepted receipt for them.
THEOREM ReceiptsAreTrue == Spec => []ReceiptsTellTheLog
<1>1. LogInv => ReceiptsTellTheLog
  BY DEF LogInv
<1> QED
  BY LogInvariance, <1>1, PTL

=============================================================================
