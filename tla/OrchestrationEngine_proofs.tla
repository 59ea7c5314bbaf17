---------------------- MODULE OrchestrationEngine_proofs ----------------------
(***************************************************************************)
(* Proofs about OrchestrationEngine: the inductive invariant IInv, one     *)
(* lemma per action, and what follows from it for the read model and the   *)
(* receipts.                                                               *)
(***************************************************************************)
EXTENDS OrchestrationEngine, SequenceTheorems, FiniteSetTheorems, TLAPS

\* Taking the head of a non-empty queue.
LEMMA SeqTake ==
  ASSUME NEW T, NEW q \in Seq(T), q # <<>>
  PROVE  /\ Head(q) \in T /\ Head(q) = q[1] /\ q[1] \in T
         /\ <<Head(q)>> \in Seq(T) /\ Len(<<Head(q)>>) = 1
         /\ Tail(q) \in Seq(T) /\ Len(Tail(q)) = Len(q) - 1
         /\ Len(q) \in Nat /\ Len(q) >= 1
BY HeadTailProperties, EmptySeq, LenProperties

\* A slice of a queue is a queue of the same elements.
LEMMA SeqSlice ==
  ASSUME NEW T, NEW q \in Seq(T), NEW m \in 1..Len(q) + 1, NEW n \in 0..Len(q)
  PROVE  SubSeq(q, m, n) \in Seq(T)
<1>1. \A i \in m..n : q[i] \in T
  BY ElementOfSeq, LenProperties
<1> QED
  BY <1>1, SubSeqProperties, LenProperties

\* Count(n) is the sequence of the first n positions.
LEMMA CountIsSeq ==
  ASSUME NEW n \in Nat
  PROVE  /\ Count(n) \in Seq(Nat) /\ Len(Count(n)) = n
         /\ \A i \in 1..n : Count(n)[i] = i
BY DEF Count

\* A model of n events that applies the k next ones is the model of n + k.
LEMMA CountExtends ==
  ASSUME NEW n \in Nat, NEW k \in Nat
  PROVE  Count(n) \o [i \in 1..k |-> n + i] = Count(n + k)
<1> DEFINE a == Count(n)
           b == [i \in 1..k |-> n + i]
           c == Count(n + k)
<1>1. b \in Seq(Nat) /\ Len(b) = k /\ \A i \in 1..k : b[i] = n + i
  OBVIOUS
<1>2. a \in Seq(Nat) /\ Len(a) = n /\ \A i \in 1..n : a[i] = i
  BY CountIsSeq
<1>3. c \in Seq(Nat) /\ Len(c) = n + k /\ \A i \in 1..n + k : c[i] = i
  BY CountIsSeq, n + k \in Nat
<1> HIDE DEF a, b, c
<1>4. /\ a \o b \in Seq(Nat) /\ Len(a \o b) = n + k
      /\ \A i \in 1..n + k : (a \o b)[i] = IF i <= n THEN a[i] ELSE b[i - n]
  BY <1>1, <1>2, ConcatProperties
<1>5. \A i \in 1..n + k : (a \o b)[i] = c[i]
  BY <1>1, <1>2, <1>3, <1>4
<1>6. a \o b = c
  BY <1>3, <1>4, <1>5, SeqEqual
<1> QED
  BY <1>6 DEF a, b, c

\* Publishing the last k of n events completes what the first n - k left out.
LEMMA CountSplits ==
  ASSUME NEW n \in Nat, NEW k \in 0..n
  PROVE  Count(n - k) \o SubSeq(Count(n), n + 1 - k, n) = Count(n)
<1> DEFINE b == SubSeq(Count(n), n + 1 - k, n)
<1>1. Count(n) \in Seq(Nat) /\ Len(Count(n)) = n /\ \A i \in 1..n : Count(n)[i] = i
  BY CountIsSeq
<1>2. b = [i \in 1..k |-> n - k + i]
  <2>1. \A i \in n + 1 - k..n : Count(n)[i] \in Nat
    BY <1>1
  <2>2. /\ b \in Seq(Nat) /\ Len(b) = k
        /\ \A i \in 1..k : b[i] = Count(n)[n - k + i]
    <3>1. n + 1 - k \in Int /\ n \in Int
      OBVIOUS
    <3>2. /\ b \in Seq(Nat)
          /\ Len(b) = IF n + 1 - k <= n THEN n - (n + 1 - k) + 1 ELSE 0
          /\ \A i \in 1..n - (n + 1 - k) + 1 : b[i] = Count(n)[n + 1 - k + i - 1]
      BY <2>1, <3>1, SubSeqProperties
    <3> HIDE DEF b
    <3> QED
      BY <3>2
  <2> HIDE DEF b
  <2> QED
    BY <1>1, <2>2, LenProperties
<1> DEFINE m == n - k
<1>3. m \in Nat /\ k \in Nat /\ m + k = n
  OBVIOUS
<1> HIDE DEF b, m
<1>4. Count(m) \o [i \in 1..k |-> m + i] = Count(m + k)
  BY <1>3, CountExtends
<1> QED
  BY <1>2, <1>3, <1>4 DEF m, b

\* No missing event means that nothing is replayed.
LEMMA NothingInOrder == InOrder({}) = <<>>
<1>1. Cardinality({}) = 0
  BY FS_EmptySet
<1>2. \A q \in [1..0 -> {}] : q = <<>>
  OBVIOUS
<1>3. <<>> \in [1..0 -> {}]
  BY EmptySeq, LenProperties
<1>4. DOMAIN <<>> = {}
  OBVIOUS
<1> QED
  BY <1>1, <1>2, <1>3, <1>4 DEF InOrder

\* The inductive invariant holds initially.
LEMMA InitOK == Init => IInv
<1> SUFFICES ASSUME Init PROVE IInv
  OBVIOUS
<1> USE EngineConstants DEF Init
<1>1. TypeOK
  BY DEF TypeOK, Tickets, NoPlan, NoReceipt, Steps, Verdicts
<1>2. WorkersInOrder
  BY DEF WorkersInOrder
<1>3. LockIsHeld
  BY DEF LockIsHeld, Section
<1>4. EnvelopesArePlaced
  BY EmptySeq DEF EnvelopesArePlaced
<1>5. ModelInStep
  BY DEF ModelInStep, Count
<1>6. UndecidedUntilWritten
  BY DEF UndecidedUntilWritten
<1> QED
  BY <1>1, <1>2, <1>3, <1>4, <1>5, <1>6 DEF IInv

\* A new envelope changes neither the older ones nor their shards.
LEMMA DispatchOK ==
  ASSUME IInv, NEW c \in Commands, Dispatch(c)
  PROVE  IInv'
<1> USE EngineConstants DEF IInv, workers, memory, durable, process
<1> DEFINE n == Len(dispatched) + 1
<1>1. /\ dispatched' \in Seq(Commands) /\ Len(dispatched') = n
      /\ Len(dispatched) \in Nat /\ n <= MaxDispatches
      /\ \A i \in Tickets : dispatched'[i] = dispatched[i]
  BY AppendProperties, LenProperties DEF Dispatch, TypeOK, Tickets
<1>2. Tickets \subseteq Tickets' /\ n \in Tickets'
  BY <1>1 DEF Tickets
<1>3. \A s \in Shards : OnShard(s) \subseteq OnShard(s)'
  BY <1>1, <1>2 DEF OnShard, Owner, CommandOf
<1>4. EnvelopesArePlaced'
  <2> SUFFICES ASSUME NEW s \in Shards
               PROVE  /\ shardQueue[s] \in Seq(OnShard(s)') /\ pending[s] \in Seq(OnShard(s)')
                      /\ current[s] \in Seq(OnShard(s)') /\ todo[s] \in Seq(OnShard(s)')
    BY DEF EnvelopesArePlaced, Dispatch
  <2> QED
    BY <1>3, SeqMonotonic DEF EnvelopesArePlaced
<1>5. TypeOK'
  <2>1. intake' \in Seq(Tickets')
    <3>1. intake \in Seq(Tickets')
      BY <1>2, SeqMonotonic DEF TypeOK
    <3> QED
      BY <1>2, <3>1, AppendProperties DEF Dispatch
  <2>2. \A q \in Seq(Tickets) : q \in Seq(Tickets')
    BY <1>2, SeqMonotonic
  <2> QED
    BY <1>1, <2>1, <2>2 DEF TypeOK, Dispatch
<1>6. WorkersInOrder'
  BY DEF WorkersInOrder, Dispatch, Single
<1>7. LockIsHeld'
  BY DEF LockIsHeld, Dispatch
<1>8. ModelInStep'
  BY DEF ModelInStep, Dispatch, Size, Single
<1>9. UndecidedUntilWritten'
  <2> SUFFICES ASSUME NEW s \in Shards, pc[s] \in {"write", "compensate"},
                      NEW i \in 1..Len(current[s])
               PROVE  receipts[dispatched'[current[s][i]]].status = "none"
    BY DEF UndecidedUntilWritten, Dispatch, ReceiptStatus, CommandOf
  <2>1. current[s][i] \in Tickets
    BY ElementOfSeq DEF TypeOK
  <2> QED
    BY <1>1, <2>1 DEF UndecidedUntilWritten, Dispatch, ReceiptStatus, CommandOf
<1> QED
  BY <1>4, <1>5, <1>6, <1>7, <1>8, <1>9

\* The router puts an envelope on the shard of its aggregate.
LEMMA RouteOK ==
  ASSUME IInv, Route
  PROVE  IInv'
<1> USE EngineConstants DEF IInv, callers, workers, memory, durable, process
<1> DEFINE n == Head(intake)
           t == ShardOf[Owner(n)]
<1>1. /\ n \in Tickets /\ Tail(intake) \in Seq(Tickets) /\ t \in Shards /\ n \in OnShard(t)
      /\ shardQueue' = [shardQueue EXCEPT ![t] = Append(@, n)]
  <2>1. n \in Tickets /\ Tail(intake) \in Seq(Tickets)
    BY SeqTake DEF Route, TypeOK
  <2>2. CommandOf(n) \in Commands
    BY <2>1, ElementOfSeq DEF TypeOK, Tickets, CommandOf
  <2> QED
    BY <2>1, <2>2 DEF Route, Owner, OnShard
<1> HIDE DEF n, t
<1>2. Tickets' = Tickets /\ \A s \in Shards : OnShard(s)' = OnShard(s)
  BY DEF Route, Tickets, OnShard, Owner, CommandOf
<1>3. Append(shardQueue[t], n) \in Seq(OnShard(t)) /\ Append(shardQueue[t], n) \in Seq(Tickets)
  BY <1>1, AppendProperties DEF EnvelopesArePlaced, TypeOK
<1>4. EnvelopesArePlaced'
  BY <1>1, <1>2, <1>3 DEF EnvelopesArePlaced, Route, TypeOK
<1>5. TypeOK'
  <2>1. shardQueue' \in [Shards -> Seq(Tickets)]
    BY <1>1, <1>3 DEF TypeOK
  <2>2. intake' \in Seq(Tickets)
    BY <1>1 DEF Route
  <2> QED
    BY <1>2, <2>1, <2>2 DEF TypeOK, Route
<1>6. WorkersInOrder' /\ LockIsHeld' /\ ModelInStep'
  BY DEF WorkersInOrder, LockIsHeld, ModelInStep, Route, Size, Single
<1>7. UndecidedUntilWritten'
  BY DEF UndecidedUntilWritten, Route, ReceiptStatus, CommandOf
<1> QED
  BY <1>4, <1>5, <1>6, <1>7

\* Taking an envelope from a queue of shard s.
LEMMA ShardTake ==
  ASSUME NEW s, NEW q \in Seq(OnShard(s)), q # <<>>
  PROVE  /\ <<Head(q)>> \in Seq(OnShard(s)) /\ <<Head(q)>> \in Seq(Tickets)
         /\ Tail(q) \in Seq(OnShard(s)) /\ Tail(q) \in Seq(Tickets)
         /\ <<Head(q)>> # <<>>
<1>1. \A r \in Seq(OnShard(s)) : r \in Seq(Tickets)
  BY SeqMonotonic DEF OnShard
<1>2. /\ <<Head(q)>> \in Seq(OnShard(s)) /\ Tail(q) \in Seq(OnShard(s))
      /\ Len(<<Head(q)>>) = 1
  BY SeqTake
<1>3. <<Head(q)>> # <<>>
  BY <1>2, EmptySeq
<1> QED
  BY <1>1, <1>2, <1>3

\* A worker that is not idle holds an envelope of its own shard.
LEMMA Held ==
  ASSUME IInv, NEW s \in Shards, pc[s] # "idle"
  PROVE  /\ current[s] # <<>> /\ Head(current[s]) = current[s][1]
         /\ current[s][1] \in Tickets /\ current[s][1] \in OnShard(s)
         /\ CommandOf(current[s][1]) \in Commands
         /\ Owner(current[s][1]) \in Aggregates
         /\ current[s] \in Seq(OnShard(s)) /\ current[s] \in Seq(Tickets)
         /\ Len(current[s]) \in Nat /\ Len(current[s]) >= 1
<1>1. current[s] # <<>>
  BY DEF IInv, WorkersInOrder
<1>2. current[s] \in Seq(OnShard(s)) /\ current[s] \in Seq(Tickets)
  BY DEF IInv, EnvelopesArePlaced, TypeOK
<1>3. Head(current[s]) = current[s][1] /\ current[s][1] \in OnShard(s)
  BY <1>1, <1>2, SeqTake
<1>4. Len(current[s]) \in Nat /\ Len(current[s]) >= 1
  BY <1>1, <1>2, SeqTake
<1>5. current[s][1] \in Tickets
  BY <1>3 DEF OnShard
<1>6. CommandOf(current[s][1]) \in Commands
  BY <1>5, ElementOfSeq DEF CommandOf, IInv, TypeOK, Tickets
<1> QED
  BY <1>1, <1>2, <1>3, <1>4, <1>5, <1>6, EngineConstants DEF Owner

\* Without a dispatch the envelopes and their shards stay.
LEMMA SameTickets ==
  ASSUME UNCHANGED dispatched
  PROVE  Tickets' = Tickets /\ \A s : OnShard(s)' = OnShard(s)
BY DEF Tickets, OnShard, Owner, CommandOf

\* A step outside the commit section that leaves model, log and receipts alone
\* disturbs neither the lock nor the model.
LEMMA QuietStep ==
  ASSUME IInv, NEW s \in Shards,
         UNCHANGED <<dispatched, memory, durable, process>>,
         \A r \in Shards \ {s} : /\ pc'[r] = pc[r] /\ current'[r] = current[r]
                                 /\ plan'[r] = plan[r] /\ staged'[r] = staged[r],
         pc[s] \notin Section, pc'[s] \notin Section,
         pc'[s] = "compensate" => \A i \in 1..Len(current'[s]) :
           ReceiptStatus(CommandOf(current'[s][i])) = "none"
  PROVE  LockIsHeld' /\ ModelInStep' /\ UndecidedUntilWritten'
<1> USE DEF IInv, memory, durable, process, Section
<1>1. LockIsHeld'
  BY DEF LockIsHeld
<1>2. ModelInStep'
  BY DEF ModelInStep, Size, Single
<1>3. UndecidedUntilWritten'
  BY DEF UndecidedUntilWritten, ReceiptStatus, CommandOf
<1> QED
  BY <1>1, <1>2, <1>3

\* A quiet, well-typed step of worker s preserves the whole invariant.
LEMMA WorkerStep ==
  ASSUME IInv, NEW s \in Shards, up,
         UNCHANGED <<dispatched, intake, memory, durable, process>>,
         answer' \in [1..MaxDispatches -> Verdicts],
         shardQueue' \in [Shards -> Seq(Tickets)], shardQueue'[s] \in Seq(OnShard(s)),
         pending' \in [Shards -> Seq(Tickets)], pending'[s] \in Seq(OnShard(s)),
         current' \in [Shards -> Seq(Tickets)], current'[s] \in Seq(OnShard(s)),
         todo' \in [Shards -> Seq(Tickets)], todo'[s] \in Seq(OnShard(s)),
         pc' \in [Shards -> Steps],
         fault' \in [Shards -> {"none", "invariant", "empty", "other"}],
         plan' \in [Shards -> [basis : Nat, streams : Seq(Aggregates)]],
         staged' \in [Shards -> Seq(Nat)],
         \A r \in Shards \ {s} :
           /\ shardQueue'[r] = shardQueue[r] /\ pending'[r] = pending[r]
           /\ current'[r] = current[r] /\ todo'[r] = todo[r] /\ pc'[r] = pc[r]
           /\ plan'[r] = plan[r] /\ staged'[r] = staged[r],
         pc[s] \notin Section, pc'[s] \notin Section,
         pc'[s] = "idle" <=> current'[s] = <<>>,
         pc'[s] \in {"compensate", "refuse"} => Len(current'[s]) = 1,
         pc'[s] = "compensate" => \A i \in 1..Len(current'[s]) :
           ReceiptStatus(CommandOf(current'[s][i])) = "none"
  PROVE  IInv'
<1> USE DEF memory, durable, process
<1>0. Tickets' = Tickets /\ \A r : OnShard(r)' = OnShard(r)
  BY SameTickets
<1>1. EnvelopesArePlaced'
  BY <1>0 DEF EnvelopesArePlaced, IInv
<1>2. TypeOK'
  BY <1>0 DEF TypeOK, IInv
<1>3. WorkersInOrder'
  BY DEF WorkersInOrder, Single, IInv
<1>4. LockIsHeld' /\ ModelInStep' /\ UndecidedUntilWritten'
  BY QuietStep
<1> QED
  BY <1>1, <1>2, <1>3, <1>4 DEF IInv

\* The part of the state a worker step leaves to the type invariant.
LEMMA Typed ==
  ASSUME IInv, NEW s \in Shards
  PROVE  /\ answer \in [1..MaxDispatches -> Verdicts]
         /\ shardQueue \in [Shards -> Seq(Tickets)] /\ shardQueue[s] \in Seq(OnShard(s))
         /\ pending \in [Shards -> Seq(Tickets)] /\ pending[s] \in Seq(OnShard(s))
         /\ current \in [Shards -> Seq(Tickets)] /\ current[s] \in Seq(OnShard(s))
         /\ todo \in [Shards -> Seq(Tickets)] /\ todo[s] \in Seq(OnShard(s))
         /\ pc \in [Shards -> Steps]
         /\ fault \in [Shards -> {"none", "invariant", "empty", "other"}]
         /\ plan \in [Shards -> [basis : Nat, streams : Seq(Aggregates)]]
         /\ staged \in [Shards -> Seq(Nat)]
         /\ receipts \in [Commands -> {NoReceipt} \cup Receipt]
BY DEF IInv, TypeOK, EnvelopesArePlaced

\* Advance hands the worker another envelope of its shard, or makes it idle.
LEMMA AdvanceOK ==
  ASSUME IInv, NEW s \in Shards, Advance(s)
  PROVE  /\ current' \in [Shards -> Seq(Tickets)] /\ todo' \in [Shards -> Seq(Tickets)]
         /\ pc' \in [Shards -> Steps]
         /\ current'[s] \in Seq(OnShard(s)) /\ todo'[s] \in Seq(OnShard(s))
         /\ \/ pc'[s] = "idle" /\ current'[s] = <<>>
            \/ pc'[s] = "admit" /\ current'[s] # <<>>
         /\ \A r \in Shards \ {s} : pc'[r] = pc[r] /\ current'[r] = current[r] /\ todo'[r] = todo[r]
<1>1. /\ current \in [Shards -> Seq(Tickets)] /\ todo \in [Shards -> Seq(Tickets)]
      /\ pc \in [Shards -> Steps] /\ todo[s] \in Seq(OnShard(s)) /\ todo[s] \in Seq(Tickets)
  BY DEF IInv, TypeOK, EnvelopesArePlaced
<1>2. CASE todo[s] = <<>>
  BY <1>1, <1>2, EmptySeq DEF Advance, Steps
<1>3. CASE todo[s] # <<>>
  <2>1. /\ <<Head(todo[s])>> \in Seq(OnShard(s)) /\ <<Head(todo[s])>> \in Seq(Tickets)
        /\ Tail(todo[s]) \in Seq(OnShard(s)) /\ Tail(todo[s]) \in Seq(Tickets)
        /\ <<Head(todo[s])>> # <<>>
    BY <1>1, <1>3, ShardTake
  <2> QED
    BY <1>1, <1>3, <2>1 DEF Advance, Steps
<1> QED
  BY <1>2, <1>3

\* Take preserves the invariant.
LEMMA TakeOK ==
  ASSUME IInv, NEW s \in Shards, Take(s)
  PROVE  IInv'
<1> USE EngineConstants DEF callers, memory, durable, process
<1> DEFINE n == current'[s][1]
<1>1. /\ shardQueue \in [Shards -> Seq(Tickets)] /\ pending \in [Shards -> Seq(Tickets)]
      /\ current \in [Shards -> Seq(Tickets)] /\ pc \in [Shards -> Steps]
      /\ shardQueue[s] \in Seq(OnShard(s)) /\ pending[s] \in Seq(OnShard(s))
      /\ shardQueue[s] \in Seq(Tickets) /\ pending[s] \in Seq(Tickets)
  BY DEF IInv, TypeOK, EnvelopesArePlaced
<1>2. /\ shardQueue' \in [Shards -> Seq(Tickets)] /\ pending' \in [Shards -> Seq(Tickets)]
      /\ current' \in [Shards -> Seq(Tickets)]
      /\ shardQueue'[s] \in Seq(OnShard(s)) /\ pending'[s] \in Seq(OnShard(s))
      /\ current'[s] \in Seq(OnShard(s)) /\ current'[s] # <<>>
      /\ \A r \in Shards \ {s} : /\ shardQueue'[r] = shardQueue[r]
                                 /\ pending'[r] = pending[r] /\ current'[r] = current[r]
  <2>1. CASE pending[s] # <<>>
    <3>1. /\ <<Head(pending[s])>> \in Seq(OnShard(s)) /\ Tail(pending[s]) \in Seq(OnShard(s))
          /\ <<Head(pending[s])>> \in Seq(Tickets) /\ Tail(pending[s]) \in Seq(Tickets)
          /\ <<Head(pending[s])>> # <<>>
      BY <1>1, <2>1, ShardTake
    <3>2. /\ current' = [current EXCEPT ![s] = <<Head(pending[s])>>]
          /\ pending' = [pending EXCEPT ![s] = Tail(@)] /\ shardQueue' = shardQueue
      BY <2>1 DEF Take
    <3> QED
      BY <1>1, <3>1, <3>2
  <2>2. CASE pending[s] = <<>>
    <3>0. shardQueue[s] # <<>>
      BY <2>2 DEF Take
    <3>1. /\ <<Head(shardQueue[s])>> \in Seq(OnShard(s)) /\ Tail(shardQueue[s]) \in Seq(OnShard(s))
          /\ <<Head(shardQueue[s])>> \in Seq(Tickets) /\ Tail(shardQueue[s]) \in Seq(Tickets)
          /\ <<Head(shardQueue[s])>> # <<>>
      BY <1>1, <3>0, ShardTake
    <3>2. /\ current' = [current EXCEPT ![s] = <<Head(shardQueue[s])>>]
          /\ shardQueue' = [shardQueue EXCEPT ![s] = Tail(@)] /\ pending' = pending
      BY <2>2 DEF Take
    <3> QED
      BY <1>1, <3>1, <3>2
  <2> QED
    BY <2>1, <2>2
<1>3. /\ pc' \in [Shards -> Steps] /\ pc'[s] \in {"window", "admit"} /\ pc[s] = "idle" /\ up
      /\ \A r \in Shards \ {s} : pc'[r] = pc[r]
  BY <1>1 DEF Take, Goto, At, Steps
<1>4. UNCHANGED <<dispatched, intake, todo, fault, plan, staged, callers, memory, durable, process>>
  BY DEF Take
<1> QED
  BY <1>1, <1>2, <1>3, <1>4, Typed, WorkerStep DEF Section

\* CandidateArrives preserves the invariant.
LEMMA CandidateOK ==
  ASSUME IInv, NEW s \in Shards, CandidateArrives(s)
  PROVE  IInv'
<1> USE EngineConstants DEF callers, memory, durable, process
<1> DEFINE n == Head(shardQueue[s])
<1>1. /\ shardQueue \in [Shards -> Seq(Tickets)] /\ pending \in [Shards -> Seq(Tickets)]
      /\ current \in [Shards -> Seq(Tickets)] /\ pc \in [Shards -> Steps]
      /\ shardQueue[s] \in Seq(OnShard(s)) /\ pending[s] \in Seq(OnShard(s))
      /\ current[s] \in Seq(OnShard(s)) /\ shardQueue[s] # <<>>
  BY DEF IInv, TypeOK, EnvelopesArePlaced, CandidateArrives
<1>2. /\ n \in OnShard(s) /\ n \in Tickets
      /\ Tail(shardQueue[s]) \in Seq(OnShard(s)) /\ Tail(shardQueue[s]) \in Seq(Tickets)
  BY <1>1, SeqTake, ShardTake DEF OnShard
<1>3. Append(current[s], n) \in Seq(OnShard(s)) /\ Append(current[s], n) # <<>>
  <2>1. /\ Append(current[s], n) \in Seq(OnShard(s))
        /\ Len(Append(current[s], n)) = Len(current[s]) + 1
    BY <1>1, <1>2, AppendProperties
  <2>2. Len(current[s]) \in Nat
    BY <1>1, LenProperties
  <2>3. Len(<<>>) = 0
    BY EmptySeq
  <2> QED
    BY <2>1, <2>2, <2>3
<1>4. Append(pending[s], n) \in Seq(OnShard(s))
  BY <1>1, <1>2, AppendProperties
<1>5. /\ shardQueue' = [shardQueue EXCEPT ![s] = Tail(@)]
      /\ \/ /\ current' = [current EXCEPT ![s] = Append(@, n)]
            /\ pending' = pending
            /\ pc' = [pc EXCEPT ![s] = "second"]
         \/ /\ pending' = [pending EXCEPT ![s] = Append(@, n)]
            /\ current' = current
            /\ pc' = [pc EXCEPT ![s] = "admit"]
  BY DEF CandidateArrives, Goto
<1>6. /\ UNCHANGED <<dispatched, intake, todo, fault, plan, staged, callers, memory, durable, process>>
      /\ pc[s] = "window" /\ up
  BY DEF CandidateArrives, At
<1> HIDE DEF n
<1>7. /\ shardQueue' \in [Shards -> Seq(Tickets)] /\ pending' \in [Shards -> Seq(Tickets)]
      /\ current' \in [Shards -> Seq(Tickets)] /\ pc' \in [Shards -> Steps]
      /\ shardQueue'[s] \in Seq(OnShard(s)) /\ pending'[s] \in Seq(OnShard(s))
      /\ current'[s] \in Seq(OnShard(s)) /\ current'[s] # <<>>
      /\ pc'[s] \in {"second", "admit"}
      /\ \A r \in Shards \ {s} : /\ shardQueue'[r] = shardQueue[r] /\ pc'[r] = pc[r]
                                 /\ pending'[r] = pending[r] /\ current'[r] = current[r]
  <2>1. current[s] # <<>>
    BY <1>6, Held
  <2>2. \A q \in Seq(OnShard(s)) : q \in Seq(Tickets)
    BY SeqMonotonic DEF OnShard
  <2>3. /\ shardQueue' \in [Shards -> Seq(Tickets)] /\ shardQueue'[s] \in Seq(OnShard(s))
        /\ \A r \in Shards \ {s} : shardQueue'[r] = shardQueue[r]
    BY <1>1, <1>2, <1>5
  <2>4. CASE /\ current' = [current EXCEPT ![s] = Append(@, n)]
             /\ pending' = pending
             /\ pc' = [pc EXCEPT ![s] = "second"]
    BY <1>1, <1>3, <2>2, <2>3, <2>4 DEF Steps
  <2>5. CASE /\ pending' = [pending EXCEPT ![s] = Append(@, n)]
             /\ current' = current
             /\ pc' = [pc EXCEPT ![s] = "admit"]
    BY <1>1, <1>4, <2>1, <2>2, <2>3, <2>5 DEF Steps
  <2> QED
    BY <1>5, <2>4, <2>5
<1> QED
  BY <1>6, <1>7, Typed, WorkerStep DEF Section

\* PollBatch preserves the invariant.
LEMMA PollOK ==
  ASSUME IInv, NEW s \in Shards, PollBatch(s)
  PROVE  IInv'
<1> USE EngineConstants DEF callers, memory, durable, process
<1>1. /\ shardQueue \in [Shards -> Seq(Tickets)] /\ pending \in [Shards -> Seq(Tickets)]
      /\ current \in [Shards -> Seq(Tickets)] /\ pc \in [Shards -> Steps]
      /\ shardQueue[s] \in Seq(OnShard(s)) /\ pending[s] \in Seq(OnShard(s))
      /\ current[s] \in Seq(OnShard(s))
  BY DEF IInv, TypeOK, EnvelopesArePlaced
<1>2. /\ UNCHANGED <<dispatched, intake, todo, fault, plan, staged, callers, memory, durable, process>>
      /\ pc[s] \in {"window", "second"} /\ up /\ pc' = [pc EXCEPT ![s] = "admit"]
  BY DEF PollBatch, Goto
<1>3. PICK k \in 0..Len(shardQueue[s]) :
        /\ \E p \in 0..k :
             /\ current' = [current EXCEPT ![s] = @ \o SubSeq(shardQueue[s], 1, p)]
             /\ pending' = [pending EXCEPT ![s] = @ \o SubSeq(shardQueue[s], p + 1, k)]
        /\ shardQueue' = [shardQueue EXCEPT ![s] = SubSeq(@, k + 1, Len(@))]
  BY DEF PollBatch
<1>A. PICK p \in 0..k :
         /\ current' = [current EXCEPT ![s] = @ \o SubSeq(shardQueue[s], 1, p)]
         /\ pending' = [pending EXCEPT ![s] = @ \o SubSeq(shardQueue[s], p + 1, k)]
  BY <1>3
<1> DEFINE a == SubSeq(shardQueue[s], 1, p)
           b == SubSeq(shardQueue[s], p + 1, k)
           c == SubSeq(shardQueue[s], k + 1, Len(shardQueue[s]))
<1>4. /\ a \in Seq(OnShard(s)) /\ b \in Seq(OnShard(s)) /\ c \in Seq(OnShard(s))
  <2>0. Len(shardQueue[s]) \in Nat
    BY <1>1, LenProperties
  <2>1. /\ p \in 0..Len(shardQueue[s]) /\ k \in 0..Len(shardQueue[s])
        /\ 1 \in 1..Len(shardQueue[s]) + 1 /\ p + 1 \in 1..Len(shardQueue[s]) + 1
        /\ k + 1 \in 1..Len(shardQueue[s]) + 1
        /\ Len(shardQueue[s]) \in 0..Len(shardQueue[s])
    BY <2>0
  <2> QED
    BY <1>1, <2>1, SeqSlice
<1> HIDE DEF a, b, c
<1>5. /\ current[s] \o a \in Seq(OnShard(s)) /\ pending[s] \o b \in Seq(OnShard(s))
      /\ current[s] \o a # <<>>
  <2>1. current[s] # <<>>
    BY <1>2, Held
  <2> QED
    BY <1>1, <1>4, <2>1, ConcatProperties, ConcatEqualIffEmpty
<1>6. \A q \in Seq(OnShard(s)) : q \in Seq(Tickets)
  BY SeqMonotonic DEF OnShard
<1>7. /\ shardQueue' \in [Shards -> Seq(Tickets)] /\ pending' \in [Shards -> Seq(Tickets)]
      /\ current' \in [Shards -> Seq(Tickets)] /\ pc' \in [Shards -> Steps]
      /\ shardQueue'[s] \in Seq(OnShard(s)) /\ pending'[s] \in Seq(OnShard(s))
      /\ current'[s] \in Seq(OnShard(s)) /\ current'[s] # <<>>
      /\ pc'[s] = "admit"
      /\ \A r \in Shards \ {s} : /\ shardQueue'[r] = shardQueue[r] /\ pc'[r] = pc[r]
                                 /\ pending'[r] = pending[r] /\ current'[r] = current[r]
  <2>1. /\ current' = [current EXCEPT ![s] = @ \o a] /\ pending' = [pending EXCEPT ![s] = @ \o b]
        /\ shardQueue' = [shardQueue EXCEPT ![s] = c]
    BY <1>3, <1>A DEF a, b, c
  <2> QED
    BY <1>1, <1>2, <1>4, <1>5, <1>6, <2>1 DEF Steps
<1> QED
  BY <1>2, <1>7, Typed, WorkerStep DEF Section

\* An answer that comes from a receipt is a verdict.
LEMMA ReplayTyped ==
  ASSUME IInv, NEW s \in Shards, Replay(s), pc[s] # "idle"
  PROVE  answer' \in [1..MaxDispatches -> Verdicts]
<1>1. CommandOf(current[s][1]) \in Commands
  BY Held
<1>2. ReceiptStatus(CommandOf(current[s][1])) \in {"accepted", "rejected"}
  BY <1>1, Typed DEF Replay, ReceiptStatus, NoReceipt, Receipt
<1> QED
  BY <1>2, Typed DEF Replay, Answered, Verdicts

\* What a failure before or in the transaction does to the worker.
LEMMA FailTyped ==
  ASSUME IInv, NEW s \in Shards, NEW why \in {"invariant", "empty", "other"}, Fail(s, why)
  PROVE  /\ pc' = [pc EXCEPT ![s] = "compensate"] /\ pc' \in [Shards -> Steps]
         /\ fault' \in [Shards -> {"none", "invariant", "empty", "other"}]
         /\ plan' \in [Shards -> [basis : Nat, streams : Seq(Aggregates)]]
         /\ \A r \in Shards \ {s} : plan'[r] = plan[r]
         /\ UNCHANGED <<current, todo, staged, answer>>
<1>1. NoPlan \in [basis : Nat, streams : Seq(Aggregates)]
  BY EmptySeq DEF NoPlan
<1> QED
  BY <1>1, Typed DEF Fail, Goto, Steps

\* A worker that answers from a receipt, or fails, before any commit.
LEMMA ReplayOK ==
  ASSUME IInv, NEW s \in Shards, Replay(s), up, pc[s] \in {"admit", "commit"},
         UNCHANGED <<dispatched, queues, memory, durable, process>>
  PROVE  IInv'
<1>1. answer' \in [1..MaxDispatches -> Verdicts]
  BY ReplayTyped
<1>2. Advance(s) /\ UNCHANGED <<fault, plan, staged>>
  BY DEF Replay
<1>3. UNCHANGED <<shardQueue, pending, intake>>
  BY DEF queues
<1> QED
  BY <1>1, <1>2, <1>3, AdvanceOK, Typed, WorkerStep DEF Section

\* A failure before the commit preserves the invariant.
LEMMA FailOK ==
  ASSUME IInv, NEW s \in Shards, NEW why \in {"invariant", "empty", "other"}, Fail(s, why),
         up, pc[s] \in {"admit", "commit"}, Single(s),
         ReceiptStatus(CommandOf(current[s][1])) = "none",
         UNCHANGED <<dispatched, queues, memory, durable, process>>
  PROVE  IInv'
<1>1. UNCHANGED <<shardQueue, pending, intake>>
  BY DEF queues
<1>2. current[s] # <<>> /\ Len(current[s]) = 1
  BY Held DEF Single
<1>3. \A i \in 1..Len(current'[s]) : ReceiptStatus(CommandOf(current'[s][i])) = "none"
  BY <1>2, FailTyped
<1>4. /\ pc' = [pc EXCEPT ![s] = "compensate"] /\ pc' \in [Shards -> Steps]
      /\ fault' \in [Shards -> {"none", "invariant", "empty", "other"}]
      /\ plan' \in [Shards -> [basis : Nat, streams : Seq(Aggregates)]]
      /\ \A r \in Shards \ {s} : plan'[r] = plan[r]
      /\ UNCHANGED <<current, todo, staged, answer>>
  BY FailTyped
<1>5. /\ pc'[s] = "compensate" /\ \A r \in Shards \ {s} : pc'[r] = pc[r]
  BY <1>4, Typed
<1> QED
  BY <1>1, <1>2, <1>3, <1>4, <1>5, Typed, WorkerStep DEF Section

\* Admit preserves the invariant.
LEMMA AdmitOK ==
  ASSUME IInv, NEW s \in Shards, Admit(s)
  PROVE  IInv'
<1>1. /\ up /\ pc[s] = "admit" /\ Single(s)
      /\ UNCHANGED <<dispatched, queues, memory, durable, process>>
  BY DEF Admit, At
<1>2. CASE Replay(s)
  BY <1>1, <1>2, ReplayOK
<1>3. CASE Goto(s, "commit") /\ UNCHANGED <<current, todo, fault, plan, staged, answer>>
  <2>1. UNCHANGED <<shardQueue, pending, intake>>
    BY <1>1 DEF queues
  <2>2. current[s] # <<>>
    BY <1>1, Held
  <2> QED
    BY <1>1, <1>3, <2>1, <2>2, Typed, WorkerStep DEF Section, Goto, Steps
<1>4. CASE /\ ReceiptStatus(CommandOf(current[s][1])) = "none"
           /\ \E why \in {"invariant", "other"} : Fail(s, why)
  BY <1>1, <1>4, FailOK
<1> QED
  BY <1>2, <1>3, <1>4 DEF Admit

\* A batch that falls back keeps its envelopes on the shard.
LEMMA FallBackOK ==
  ASSUME IInv, NEW s \in Shards, FallBack(s), pc[s] # "idle"
  PROVE  /\ current' \in [Shards -> Seq(Tickets)] /\ todo' \in [Shards -> Seq(Tickets)]
         /\ current'[s] \in Seq(OnShard(s)) /\ todo'[s] \in Seq(OnShard(s))
         /\ pc' \in [Shards -> Steps] /\ pc'[s] = "admit" /\ current'[s] # <<>>
         /\ \A r \in Shards \ {s} : pc'[r] = pc[r] /\ current'[r] = current[r] /\ todo'[r] = todo[r]
<1>1. /\ <<Head(current[s])>> \in Seq(OnShard(s)) /\ <<Head(current[s])>> \in Seq(Tickets)
      /\ Tail(current[s]) \in Seq(OnShard(s)) /\ Tail(current[s]) \in Seq(Tickets)
      /\ <<Head(current[s])>> # <<>>
  BY Held, ShardTake
<1> QED
  BY <1>1, Typed DEF FallBack, Goto, Steps

\* AdmitBatch preserves the invariant.
LEMMA AdmitBatchOK ==
  ASSUME IInv, NEW s \in Shards, AdmitBatch(s)
  PROVE  IInv'
<1>1. /\ up /\ pc[s] = "admit"
      /\ UNCHANGED <<fault, plan, staged, callers, queues, memory, durable, process>>
  BY DEF AdmitBatch, At
<1>2. UNCHANGED <<dispatched, answer, shardQueue, pending, intake>>
  BY <1>1 DEF queues, callers
<1>3. CASE Goto(s, "commit") /\ UNCHANGED <<current, todo>>
  <2>1. current[s] # <<>>
    BY <1>1, Held
  <2> QED
    BY <1>1, <1>2, <1>3, <2>1, Typed, WorkerStep DEF Section, Goto, Steps
<1>4. CASE FallBack(s)
  BY <1>1, <1>2, <1>4, FallBackOK, Typed, WorkerStep DEF Section
<1> QED
  BY <1>3, <1>4 DEF AdmitBatch

\* Finish preserves the invariant.
LEMMA FinishOK ==
  ASSUME IInv, NEW s \in Shards, Finish(s)
  PROVE  IInv'
<1>1. /\ up /\ pc[s] = "drain" /\ Answered(current[s][1], "accepted")
      /\ UNCHANGED <<fault, plan, staged, dispatched, queues, memory, durable, process>>
  BY DEF Finish, At
<1>2. UNCHANGED <<shardQueue, pending, intake>>
  BY <1>1 DEF queues
<1>3. answer' \in [1..MaxDispatches -> Verdicts]
  BY <1>1, Typed DEF Answered, Verdicts
<1>4. CASE Single(s)
  <2>1. Advance(s)
    BY <1>4 DEF Finish
  <2> QED
    BY <1>1, <1>2, <1>3, <2>1, AdvanceOK, Typed, WorkerStep DEF Section
<1>5. CASE ~Single(s)
  <2>1. current' = [current EXCEPT ![s] = Tail(@)] /\ UNCHANGED <<todo, pc>>
    BY <1>5 DEF Finish
  <2>2. /\ Tail(current[s]) \in Seq(OnShard(s)) /\ Tail(current[s]) \in Seq(Tickets)
        /\ Tail(current[s]) # <<>>
    <3>1. current[s] # <<>> /\ current[s] \in Seq(OnShard(s)) /\ Len(current[s]) \in Nat
      BY <1>1, Held
    <3>2. Tail(current[s]) \in Seq(OnShard(s)) /\ Tail(current[s]) \in Seq(Tickets)
      BY <3>1, ShardTake
    <3>3. Len(Tail(current[s])) = Len(current[s]) - 1
      BY <3>1, SeqTake
    <3>4. Len(current[s]) >= 1 /\ Len(current[s]) # 1
      BY <1>1, <1>5, Held DEF Single
    <3>5. Len(Tail(current[s])) # 0
      BY <3>1, <3>3, <3>4
    <3>6. Tail(current[s]) # <<>>
      BY <3>5, EmptySeq
    <3> QED
      BY <3>2, <3>6
  <2>3. /\ current' \in [Shards -> Seq(Tickets)] /\ current'[s] \in Seq(OnShard(s))
        /\ current'[s] # <<>>
        /\ \A r \in Shards \ {s} : current'[r] = current[r]
    BY <2>1, <2>2, Typed
  <2> QED
    BY <1>1, <1>2, <1>3, <2>1, <2>3, Typed, WorkerStep DEF Section
<1> QED
  BY <1>4, <1>5

\* Refuse preserves the invariant.
LEMMA RefuseOK ==
  ASSUME IInv, NEW s \in Shards, Refuse(s)
  PROVE  IInv'
<1>1. /\ up /\ pc[s] = "refuse" /\ Answered(current[s][1], "failed") /\ Advance(s)
      /\ UNCHANGED <<fault, plan, staged, dispatched, queues, memory, durable, process>>
  BY DEF Refuse, At
<1>2. UNCHANGED <<shardQueue, pending, intake>>
  BY <1>1 DEF queues
<1>3. answer' \in [1..MaxDispatches -> Verdicts]
  BY <1>1, Typed DEF Answered, Verdicts
<1> QED
  BY <1>1, <1>2, <1>3, AdvanceOK, Typed, WorkerStep DEF Section

\* What the holder of the lock, and its absence, say of workers and model.
LEMMA LockFacts ==
  ASSUME IInv
  PROVE  /\ lock = NoShard => \A r \in Shards : pc[r] \notin Section
         /\ \A s \in Shards : pc[s] \in Section =>
              lock = s /\ \A r \in Shards \ {s} : pc[r] \notin Section
         /\ up /\ lock = NoShard => model = Count(lastSeq) /\ published = Count(lastSeq)
         /\ model \in Seq(Nat) /\ published \in Seq(Nat) /\ lastSeq \in Nat
<1>1. /\ lock = NoShard => \A r \in Shards : pc[r] \notin Section
      /\ \A s \in Shards : pc[s] \in Section =>
           lock = s /\ \A r \in Shards \ {s} : pc[r] \notin Section
  BY EngineConstants DEF IInv, LockIsHeld
<1>2. up /\ lock = NoShard => model = Count(lastSeq) /\ published = Count(lastSeq)
  BY <1>1 DEF IInv, ModelInStep, Section
<1> QED
  BY <1>1, <1>2 DEF IInv, TypeOK

\* A read model has a snapshot sequence.
LEMMA SequenceIsNat ==
  ASSUME NEW m \in Seq(Nat)
  PROVE  SnapshotSequence(m) \in Nat
<1>1. CASE m = <<>>
  BY <1>1 DEF SnapshotSequence
<1>2. CASE m # <<>>
  <2>1. Len(m) \in Nat /\ Len(m) >= 1
    BY <1>2, SeqTake
  <2>2. m[Len(m)] \in Nat
    BY <2>1, ElementOfSeq
  <2> QED
    BY <1>2, <2>2 DEF SnapshotSequence
<1> QED
  BY <1>1, <1>2

\* A step of worker s that keeps its envelopes in hand.
LEMMA InHandStep ==
  ASSUME IInv, NEW s \in Shards, UNCHANGED <<dispatched, queues, current, todo, up>>,
         pc[s] # "idle", pc'[s] # "idle", \A r \in Shards \ {s} : pc'[r] = pc[r],
         pc'[s] \in {"compensate", "refuse"} => Single(s), up
  PROVE  EnvelopesArePlaced' /\ WorkersInOrder' /\ Tickets' = Tickets
<1>1. EnvelopesArePlaced'
  BY SameTickets DEF EnvelopesArePlaced, IInv, queues
<1>2. WorkersInOrder'
  BY DEF WorkersInOrder, IInv, Single
<1> QED
  BY <1>1, <1>2, SameTickets

\* Entering the section with a decision preserves the invariant.
LEMMA DecideEventsOK ==
  ASSUME IInv, NEW s \in Shards, DecideEvents(s), up, pc[s] = "commit", Single(s), CommitLockFree,
         UNCHANGED <<dispatched, queues, model, published, log, lastSeq, process>>
  PROVE  IInv'
<1> DEFINE c == CommandOf(current[s][1])
<1>1. PICK streams \in Outcomes[c] :
        plan' = [plan EXCEPT ![s] = [basis |-> SnapshotSequence(model), streams |-> streams]]
  BY DEF DecideEvents
<1>2. /\ lock' = s /\ pc' = [pc EXCEPT ![s] = "write"] /\ ReceiptStatus(c) = "none"
      /\ UNCHANGED <<current, todo, fault, staged, answer, receipts, up, crashes>>
  BY DEF DecideEvents, Goto, process
<1>3. plan' \in [Shards -> [basis : Nat, streams : Seq(Aggregates)]]
  <2>1. c \in Commands
    BY Held
  <2>2. streams \in Seq(Aggregates)
    BY <1>1, <2>1, EngineConstants
  <2>3. SnapshotSequence(model) \in Nat
    BY LockFacts, SequenceIsNat
  <2> QED
    BY <1>1, <2>2, <2>3, Typed
<1>4. /\ pc' \in [Shards -> Steps] /\ pc'[s] = "write" /\ \A r \in Shards \ {s} : pc'[r] = pc[r]
  BY <1>2, Typed DEF Steps
<1>5. \A r \in Shards : pc[r] \notin Section
  BY LockFacts DEF CommitLockFree
<1>6. EnvelopesArePlaced' /\ WorkersInOrder' /\ Tickets' = Tickets
  BY <1>2, <1>4, InHandStep
<1>7. TypeOK'
  BY <1>2, <1>3, <1>4, <1>6 DEF TypeOK, IInv, queues
<1>8. LockIsHeld'
  BY <1>2, <1>4, <1>5 DEF LockIsHeld, Section
<1>9. ModelInStep'
  BY <1>2, <1>4, <1>5 DEF ModelInStep, IInv, Section
<1>10. UndecidedUntilWritten'
  <2>1. Len(current[s]) = 1
    BY DEF Single
  <2> QED
    BY <1>2, <1>4, <2>1 DEF UndecidedUntilWritten, IInv, ReceiptStatus, CommandOf
<1> QED
  BY <1>6, <1>7, <1>8, <1>9, <1>10 DEF IInv

\* Two workers never hold the same command.
LEMMA OtherCommands ==
  ASSUME IInv, NEW r \in Shards, NEW s \in Shards, r # s,
         NEW i \in 1..Len(current[r]), NEW j \in 1..Len(current[s])
  PROVE  CommandOf(current[r][i]) # CommandOf(current[s][j])
<1>1. current[r][i] \in OnShard(r) /\ current[s][j] \in OnShard(s)
  BY Typed, ElementOfSeq
<1> QED
  BY <1>1 DEF OnShard, Owner

\* Recording a no-op preserves the invariant.
LEMMA AcceptNoOpOK ==
  ASSUME IInv, NEW s \in Shards, AcceptNoOp(s), up, pc[s] = "commit", Single(s), CommitLockFree,
         UNCHANGED <<dispatched, queues, model, published, log, lastSeq, process>>
  PROVE  IInv'
<1> DEFINE c == CommandOf(current[s][1])
<1>1. /\ receipts' = [receipts EXCEPT ![c] = [status |-> "accepted",
                        seq |-> SnapshotSequence(model), aggregate |-> AggregateOf[c]]]
      /\ pc' = [pc EXCEPT ![s] = "drain"]
      /\ UNCHANGED <<current, todo, fault, plan, staged, lock, answer, up, crashes>>
  BY DEF AcceptNoOp, Goto, process
<1>2. /\ pc' \in [Shards -> Steps] /\ pc'[s] = "drain" /\ \A r \in Shards \ {s} : pc'[r] = pc[r]
  BY <1>1, Typed DEF Steps
<1>3. c \in Commands /\ AggregateOf[c] \in Aggregates
  BY Held, EngineConstants
<1>4. receipts' \in [Commands -> {NoReceipt} \cup Receipt]
  BY <1>1, <1>3, Typed, LockFacts, SequenceIsNat DEF Receipt
<1>5. EnvelopesArePlaced' /\ WorkersInOrder' /\ Tickets' = Tickets
  BY <1>1, <1>2, InHandStep
<1>6. TypeOK'
  BY <1>1, <1>2, <1>4, <1>5 DEF TypeOK, IInv, queues
<1>7. LockIsHeld'
  BY <1>1, <1>2 DEF LockIsHeld, IInv, Section
<1>8. ModelInStep'
  BY <1>1, <1>2, LockFacts DEF ModelInStep, IInv, Section, CommitLockFree
<1>9. UndecidedUntilWritten'
  <2> SUFFICES ASSUME NEW r \in Shards, pc'[r] \in {"write", "compensate"},
                      NEW i \in 1..Len(current[r])
               PROVE  receipts'[CommandOf(current[r][i])].status = "none"
    BY <1>1 DEF UndecidedUntilWritten, ReceiptStatus, CommandOf
  <2>1. r # s /\ pc[r] \in {"write", "compensate"}
    BY <1>2
  <2>2. CommandOf(current[r][i]) # c
    BY <2>1, OtherCommands DEF Single
  <2>3. receipts[CommandOf(current[r][i])].status = "none"
    BY <2>1 DEF IInv, UndecidedUntilWritten, ReceiptStatus
  <2>4. CommandOf(current[r][i]) \in Commands
    BY Typed, ElementOfSeq, <2>1 DEF IInv, TypeOK, CommandOf, Tickets
  <2> QED
    BY <1>1, <2>2, <2>3, <2>4, Typed
<1> QED
  BY <1>5, <1>6, <1>7, <1>8, <1>9 DEF IInv

\* Decide preserves the invariant.
LEMMA DecideOK ==
  ASSUME IInv, NEW s \in Shards, Decide(s)
  PROVE  IInv'
<1>1. /\ up /\ pc[s] = "commit" /\ Single(s) /\ CommitLockFree
      /\ UNCHANGED <<dispatched, queues, model, published, log, lastSeq, process>>
  BY DEF Decide, At
<1>2. CASE DecideEvents(s)
  BY <1>1, <1>2, DecideEventsOK
<1>3. CASE AcceptNoOp(s)
  BY <1>1, <1>3, AcceptNoOpOK
<1>4. CASE Replay(s) /\ UNCHANGED <<lock, receipts>>
  BY <1>1, <1>4, ReplayOK DEF memory, durable
<1>5. CASE /\ ReceiptStatus(CommandOf(current[s][1])) = "none"
           /\ \E why \in {"invariant", "other"} : Fail(s, why)
           /\ UNCHANGED <<lock, receipts>>
  BY <1>1, <1>5, FailOK DEF memory, durable
<1> QED
  BY <1>2, <1>3, <1>4, <1>5 DEF Decide

\* CheckBatch preserves the invariant.
LEMMA CheckBatchOK ==
  ASSUME IInv, NEW s \in Shards, CheckBatch(s)
  PROVE  IInv'
<1>1. /\ up /\ pc[s] = "commit" /\ CommitLockFree
      /\ UNCHANGED <<fault, plan, staged, model, published, callers, queues, durable, process>>
  BY DEF CheckBatch, At
<1>2. UNCHANGED <<dispatched, answer, shardQueue, pending, intake, up, crashes>>
  BY <1>1 DEF queues, callers, process
<1>3. CASE FallBack(s) /\ UNCHANGED lock
  BY <1>1, <1>2, <1>3, FallBackOK, Typed, WorkerStep DEF Section, memory
<1>4. CASE /\ \A i \in 1..Len(current[s]) : ReceiptStatus(CommandOf(current[s][i])) = "none"
           /\ lock' = s /\ Goto(s, "write") /\ UNCHANGED <<current, todo>>
  <2>1. /\ pc' \in [Shards -> Steps] /\ pc'[s] = "write" /\ \A r \in Shards \ {s} : pc'[r] = pc[r]
    BY <1>4, Typed DEF Steps, Goto
  <2>2. \A r \in Shards : pc[r] \notin Section
    BY <1>1, LockFacts DEF CommitLockFree
  <2>3. EnvelopesArePlaced' /\ WorkersInOrder' /\ Tickets' = Tickets
    BY <1>1, <1>2, <1>4, <2>1, InHandStep
  <2>4. TypeOK'
    BY <1>1, <1>2, <1>4, <2>1, <2>3 DEF TypeOK, IInv, durable
  <2>5. LockIsHeld'
    BY <1>4, <2>1, <2>2 DEF LockIsHeld, Section
  <2>6. ModelInStep'
    BY <1>1, <1>2, <2>1, <2>2 DEF ModelInStep, IInv, Section, durable
  <2>7. UndecidedUntilWritten'
    BY <1>1, <1>2, <1>4, <2>1 DEF UndecidedUntilWritten, IInv, ReceiptStatus, CommandOf, durable
  <2> QED
    BY <2>3, <2>4, <2>5, <2>6, <2>7 DEF IInv
<1> QED
  BY <1>3, <1>4 DEF CheckBatch

\* The worker of s leaves the section with its transaction rolled back.
LEMMA WriteFailsOK ==
  ASSUME IInv, NEW s \in Shards, WriteFails(s)
  PROVE  IInv'
<1>1. /\ up /\ pc[s] = "write" /\ Single(s) /\ lock' = NoShard
      /\ UNCHANGED <<dispatched, queues, model, published, log, lastSeq, receipts, up, crashes>>
  BY DEF WriteFails, At, durable, process
<1>2. PICK why \in {"invariant", "empty", "other"} : Fail(s, why)
  BY DEF WriteFails
<1>3. /\ pc' = [pc EXCEPT ![s] = "compensate"] /\ pc' \in [Shards -> Steps]
      /\ fault' \in [Shards -> {"none", "invariant", "empty", "other"}]
      /\ plan' \in [Shards -> [basis : Nat, streams : Seq(Aggregates)]]
      /\ UNCHANGED <<current, todo, staged, answer>>
  BY <1>2, FailTyped
<1>4. /\ pc'[s] = "compensate" /\ \A r \in Shards \ {s} : pc'[r] = pc[r]
  BY <1>3, Typed
<1>5. EnvelopesArePlaced' /\ WorkersInOrder' /\ Tickets' = Tickets
  BY <1>1, <1>3, <1>4, InHandStep
<1>6. TypeOK'
  BY <1>1, <1>3, <1>5 DEF TypeOK, IInv, queues
<1>7. \A r \in Shards \ {s} : pc[r] \notin Section
  BY <1>1, LockFacts DEF Section
<1>8. LockIsHeld'
  BY <1>1, <1>4, <1>7, EngineConstants DEF LockIsHeld, Section
<1>9. ModelInStep'
  BY <1>1, <1>4, <1>7 DEF ModelInStep, IInv, Section
<1>10. UndecidedUntilWritten'
  BY <1>1, <1>3, <1>4 DEF UndecidedUntilWritten, IInv, ReceiptStatus, CommandOf
<1> QED
  BY <1>5, <1>6, <1>8, <1>9, <1>10 DEF IInv

\* A batch that rolls back preserves the invariant.
LEMMA WriteBatchFailsOK ==
  ASSUME IInv, NEW s \in Shards, WriteBatchFails(s)
  PROVE  IInv'
<1>1. /\ up /\ pc[s] = "write" /\ FallBack(s) /\ lock' = NoShard
      /\ UNCHANGED <<fault, plan, staged, model, published, callers, queues, durable, process>>
  BY DEF WriteBatchFails, At
<1>2. UNCHANGED <<dispatched, answer, shardQueue, pending, intake, log, lastSeq, receipts, up, crashes>>
  BY <1>1 DEF queues, callers, process, durable
<1>3. /\ current' \in [Shards -> Seq(Tickets)] /\ todo' \in [Shards -> Seq(Tickets)]
      /\ current'[s] \in Seq(OnShard(s)) /\ todo'[s] \in Seq(OnShard(s))
      /\ pc' \in [Shards -> Steps] /\ pc'[s] = "admit" /\ current'[s] # <<>>
      /\ \A r \in Shards \ {s} : pc'[r] = pc[r] /\ current'[r] = current[r] /\ todo'[r] = todo[r]
  BY <1>1, FallBackOK
<1>4. Tickets' = Tickets /\ \A r : OnShard(r)' = OnShard(r)
  BY <1>2, SameTickets
<1>5. EnvelopesArePlaced'
  BY <1>2, <1>3, <1>4 DEF EnvelopesArePlaced, IInv
<1>6. WorkersInOrder'
  BY <1>1, <1>2, <1>3 DEF WorkersInOrder, IInv, Single
<1>7. TypeOK'
  BY <1>1, <1>2, <1>3, <1>4 DEF TypeOK, IInv
<1>8. \A r \in Shards \ {s} : pc[r] \notin Section
  BY <1>1, LockFacts DEF Section
<1>9. LockIsHeld'
  BY <1>1, <1>3, <1>8, EngineConstants DEF LockIsHeld, Section
<1>10. ModelInStep'
  BY <1>1, <1>2, <1>3, <1>8 DEF ModelInStep, IInv, Section
<1>11. UndecidedUntilWritten'
  <2> SUFFICES ASSUME NEW r \in Shards, pc'[r] \in {"write", "compensate"},
                      NEW i \in 1..Len(current'[r])
               PROVE  receipts[CommandOf(current'[r][i])].status = "none"
    BY <1>2 DEF UndecidedUntilWritten, ReceiptStatus, CommandOf
  <2>1. pc[r] \in {"write", "compensate"} /\ current'[r] = current[r]
    BY <1>3
  <2> QED
    BY <2>1 DEF UndecidedUntilWritten, IInv, ReceiptStatus
<1> QED
  BY <1>5, <1>6, <1>7, <1>9, <1>10, <1>11 DEF IInv

\* Envelopes are numbered up to the bound on dispatches.
LEMMA TicketBound ==
  ASSUME IInv
  PROVE  Tickets \subseteq 1..MaxDispatches
<1>1. Len(dispatched) \in Nat /\ Len(dispatched) <= MaxDispatches
  BY LenProperties DEF IInv, TypeOK
<1> QED
  BY <1>1, EngineConstants DEF Tickets

\* The worker of s commits k events and goes on to the swap.
LEMMA CommitStep ==
  ASSUME IInv, NEW s \in Shards, NEW k \in Nat, up, pc[s] = "write",
         k = Size(s), pc' = [pc EXCEPT ![s] = "swap"],
         UNCHANGED <<current, todo, fault, plan, callers, queues, memory, process>>,
         log' \subseteq Event, \A e \in log' : e.seq <= lastSeq + k,
         lastSeq' = lastSeq + k,
         receipts' \in [Commands -> {NoReceipt} \cup Receipt],
         \A r \in Shards \ {s} : \A i \in 1..Len(current[r]) :
           ReceiptStatus(CommandOf(current[r][i])) = "none" =>
             receipts'[CommandOf(current[r][i])].status = "none",
         staged' = [staged EXCEPT ![s] = model \o Appended(k)]
  PROVE  IInv'
<1> USE DEF callers, memory, process
<1>1. /\ pc' \in [Shards -> Steps] /\ pc'[s] = "swap" /\ \A r \in Shards \ {s} : pc'[r] = pc[r]
  BY Typed DEF Steps
<1>2. \A r \in Shards \ {s} : pc[r] \notin Section
  BY LockFacts DEF Section
<1>3. model = Count(lastSeq) /\ published = Count(lastSeq) /\ lastSeq \in Nat
  BY <1>2, LockFacts DEF IInv, ModelInStep, Section
<1>4. staged'[s] = Count(lastSeq') /\ staged' \in [Shards -> Seq(Nat)] /\ lastSeq' \in Nat
  <2>1. model \o Appended(k) = Count(lastSeq + k)
    BY <1>3, CountExtends DEF Appended
  <2>2. Count(lastSeq + k) \in Seq(Nat) /\ lastSeq + k \in Nat
    <3>1. \A m \in Nat : Count(m) \in Seq(Nat)
      BY CountIsSeq
    <3>2. lastSeq + k \in Nat
      BY <1>3
    <3> QED
      BY <3>1, <3>2
  <2> QED
    BY <2>1, <2>2, Typed
<1>5. EnvelopesArePlaced' /\ WorkersInOrder' /\ Tickets' = Tickets
  BY <1>1, InHandStep
<1>6. TypeOK'
  BY <1>1, <1>4, <1>5 DEF TypeOK, IInv, queues
<1>7. LockIsHeld'
  BY <1>1 DEF LockIsHeld, IInv, Section
<1>8. ModelInStep'
  <2>1. Size(s)' = k
    BY DEF Size, Single
  <2>2. k <= lastSeq' /\ lastSeq' - k = lastSeq
    BY <1>3
  <2>3. \A e \in log' : e.seq <= lastSeq'
    OBVIOUS
  <2>4. published' = Count(lastSeq' - k) /\ model' = published'
    BY <1>3, <2>2
  <2>5. \A r \in Shards \ {s} : pc'[r] \notin {"swap", "publish"}
    BY <1>1, <1>2 DEF Section
  <2> QED
    BY <1>1, <1>4, <2>1, <2>2, <2>3, <2>4, <2>5 DEF ModelInStep
<1>9. UndecidedUntilWritten'
  BY <1>1 DEF UndecidedUntilWritten, IInv, ReceiptStatus, CommandOf
<1> QED
  BY <1>5, <1>6, <1>7, <1>8, <1>9 DEF IInv

\* Write preserves the invariant.
LEMMA WriteOK ==
  ASSUME IInv, NEW s \in Shards, Write(s)
  PROVE  IInv'
<1> DEFINE n == current[s][1]
           c == CommandOf(n)
           q == plan[s].streams
           k == Len(q)
           gone == Purged(n, plan[s])
<1>1. /\ up /\ pc[s] = "write" /\ Single(s) /\ q # <<>>
      /\ pc' = [pc EXCEPT ![s] = "swap"]
      /\ log' = Kept(log \cup EventsOf(n, plan[s]), gone)
      /\ lastSeq' = lastSeq + k
      /\ receipts' = [KeptReceipts(gone) EXCEPT ![c] =
                       [status |-> "accepted", seq |-> lastSeq + k, aggregate |-> q[k]]]
      /\ staged' = [staged EXCEPT ![s] = model \o Appended(k)]
      /\ UNCHANGED <<current, todo, fault, plan, callers, queues, memory, process>>
  BY DEF Write, At, Goto
<1>2. /\ q \in Seq(Aggregates) /\ plan[s].basis \in Nat /\ k \in Nat /\ k >= 1
      /\ \A i \in 1..k : q[i] \in Aggregates
  BY <1>1, Typed, SeqTake, ElementOfSeq
<1>3. n \in Tickets /\ n \in 1..MaxDispatches /\ c \in Commands
  <2>1. n \in Tickets /\ c \in Commands
    BY <1>1, Held
  <2> QED
    BY <2>1, TicketBound
<1>4. lastSeq \in Nat
  BY LockFacts
<1> HIDE DEF n, c, q, k, gone
<1>5. /\ EventsOf(n, plan[s]) \subseteq Event
      /\ \A e \in EventsOf(n, plan[s]) : e.seq <= lastSeq + k
  BY <1>2, <1>3, <1>4 DEF EventsOf, Event, q, k, c
<1>6. log' \subseteq Event /\ \A e \in log' : e.seq <= lastSeq + k
  <2>1. log \subseteq Event /\ \A e \in log : e.seq <= lastSeq
    BY DEF IInv, TypeOK, ModelInStep
  <2>2. \A e \in log : e.seq <= lastSeq + k
    BY <1>2, <1>4, <2>1 DEF Event
  <2> QED
    BY <1>1, <1>5, <2>1, <2>2 DEF Kept
<1>7. KeptReceipts(gone) \in [Commands -> {NoReceipt} \cup Receipt]
  BY Typed DEF KeptReceipts
<1>8. receipts' \in [Commands -> {NoReceipt} \cup Receipt]
  BY <1>1, <1>2, <1>3, <1>4, <1>7 DEF Receipt
<1>9. ASSUME NEW r \in Shards \ {s}, NEW i \in 1..Len(current[r]),
             ReceiptStatus(CommandOf(current[r][i])) = "none"
      PROVE  receipts'[CommandOf(current[r][i])].status = "none"
  <2> DEFINE d == CommandOf(current[r][i])
  <2>1. d # c
    BY <1>1, OtherCommands DEF Single, n, c
  <2>2. d \in Commands
    BY Typed, ElementOfSeq DEF IInv, TypeOK, CommandOf, Tickets
  <2>3. receipts[d].status = "none"
    BY <1>9 DEF ReceiptStatus
  <2> QED
    BY <1>1, <1>7, <2>1, <2>2, <2>3 DEF KeptReceipts, NoReceipt
<1>10. k = Size(s)
  BY <1>1 DEF Size, k, q
<1> QED
  BY <1>1, <1>2, <1>6, <1>8, <1>9, <1>10, CommitStep

\* WriteBatch preserves the invariant.
LEMMA WriteBatchOK ==
  ASSUME IInv, NEW s \in Shards, WriteBatch(s)
  PROVE  IInv'
<1> DEFINE q == current[s]
           k == Len(q)
<1>1. /\ up /\ pc[s] = "write" /\ ~Single(s)
      /\ pc' = [pc EXCEPT ![s] = "swap"]
      /\ log' = log \cup BatchEvents(q)
      /\ lastSeq' = lastSeq + k
      /\ receipts' = [c \in Commands |->
              IF \E i \in 1..k : CommandOf(q[i]) = c
              THEN [status |-> "accepted",
                    seq |-> lastSeq + CHOOSE i \in 1..k : CommandOf(q[i]) = c,
                    aggregate |-> AggregateOf[c]]
              ELSE receipts[c]]
      /\ staged' = [staged EXCEPT ![s] = model \o Appended(k)]
      /\ UNCHANGED <<current, todo, fault, plan, callers, queues, memory, process>>
  BY DEF WriteBatch, At, Goto
<1>2. q \in Seq(Tickets) /\ k \in Nat
  BY <1>1, Held
<1>3. lastSeq \in Nat /\ SnapshotSequence(model) \in Nat
  BY LockFacts, SequenceIsNat
<1>4. ASSUME NEW i \in 1..k
      PROVE  /\ q[i] \in 1..MaxDispatches /\ CommandOf(q[i]) \in Commands
             /\ Owner(q[i]) \in Aggregates
  <2>1. q[i] \in Tickets
    BY <1>2, ElementOfSeq
  <2>2. CommandOf(q[i]) \in Commands
    BY <2>1, ElementOfSeq DEF IInv, TypeOK, CommandOf, Tickets
  <2>3. q[i] \in 1..MaxDispatches
    BY <2>1, TicketBound
  <2> QED
    BY <2>2, <2>3, EngineConstants DEF Owner
<1> HIDE DEF q, k
<1>5. /\ BatchEvents(q) \subseteq Event
      /\ \A e \in BatchEvents(q) : e.seq <= lastSeq + k
  BY <1>2, <1>3, <1>4 DEF BatchEvents, Event, k
<1>6. log' \subseteq Event /\ \A e \in log' : e.seq <= lastSeq + k
  <2>1. log \subseteq Event /\ \A e \in log : e.seq <= lastSeq
    BY DEF IInv, TypeOK, ModelInStep
  <2>2. \A e \in log : e.seq <= lastSeq + k
    BY <1>2, <1>3, <2>1 DEF Event
  <2> QED
    BY <1>1, <1>5, <2>1, <2>2
<1>7. receipts' \in [Commands -> {NoReceipt} \cup Receipt]
  <2> SUFFICES ASSUME NEW c \in Commands PROVE receipts'[c] \in {NoReceipt} \cup Receipt
    BY <1>1
  <2>1. CASE \E i \in 1..k : CommandOf(q[i]) = c
    <3> DEFINE j == CHOOSE i \in 1..k : CommandOf(q[i]) = c
    <3>1. j \in 1..k
      BY <2>1
    <3>2. lastSeq + j \in Nat
      BY <1>2, <1>3, <3>1
    <3>3. AggregateOf[c] \in Aggregates
      BY EngineConstants
    <3> HIDE DEF j
    <3>4. receipts'[c] = [status |-> "accepted", seq |-> lastSeq + j, aggregate |-> AggregateOf[c]]
      BY <1>1, <2>1 DEF j
    <3> QED
      BY <3>2, <3>3, <3>4 DEF Receipt
  <2>2. CASE ~\E i \in 1..k : CommandOf(q[i]) = c
    BY <1>1, <2>2, Typed
  <2> QED
    BY <2>1, <2>2
<1>8. ASSUME NEW r \in Shards \ {s}, NEW i \in 1..Len(current[r]),
             ReceiptStatus(CommandOf(current[r][i])) = "none"
      PROVE  receipts'[CommandOf(current[r][i])].status = "none"
  <2> DEFINE d == CommandOf(current[r][i])
  <2>1. \A j \in 1..k : CommandOf(q[j]) # d
    BY OtherCommands DEF q, k
  <2>2. d \in Commands
    BY Typed, ElementOfSeq DEF IInv, TypeOK, CommandOf, Tickets
  <2>3. receipts[d].status = "none"
    BY <1>8 DEF ReceiptStatus
  <2> HIDE DEF d
  <2>4. receipts'[d] = receipts[d]
    BY <1>1, <2>1, <2>2
  <2> QED
    BY <2>3, <2>4 DEF d
<1>9. k = Size(s)
  BY <1>1 DEF Size, k, q
<1> QED
  BY <1>1, <1>2, <1>6, <1>7, <1>8, <1>9, CommitStep

\* Swap preserves the invariant.
LEMMA SwapOK ==
  ASSUME IInv, NEW s \in Shards, Swap(s)
  PROVE  IInv'
<1>1. /\ up /\ pc[s] = "swap" /\ model' = staged[s] /\ pc' = [pc EXCEPT ![s] = "publish"]
      /\ UNCHANGED <<current, todo, fault, plan, staged, lock, published>>
      /\ UNCHANGED <<callers, queues, durable, process>>
  BY DEF Swap, At, Goto
<1>2. UNCHANGED <<dispatched, answer, log, lastSeq, receipts, up, crashes>>
  BY <1>1 DEF callers, durable, process
<1>3. /\ pc' \in [Shards -> Steps] /\ pc'[s] = "publish" /\ \A r \in Shards \ {s} : pc'[r] = pc[r]
  BY <1>1, Typed DEF Steps
<1>4. \A r \in Shards \ {s} : pc[r] \notin Section
  BY <1>1, LockFacts DEF Section
<1>5. EnvelopesArePlaced' /\ WorkersInOrder' /\ Tickets' = Tickets
  BY <1>1, <1>2, <1>3, InHandStep
<1>6. TypeOK'
  BY <1>1, <1>2, <1>3, <1>5, Typed DEF TypeOK, IInv, queues
<1>7. LockIsHeld'
  BY <1>1, <1>3 DEF LockIsHeld, IInv, Section
<1>8. ModelInStep'
  <2>1. Size(s)' = Size(s)
    BY <1>1 DEF Size, Single
  <2>2. \A r \in Shards \ {s} : pc'[r] \notin {"swap", "publish"}
    BY <1>3, <1>4 DEF Section
  <2> QED
    BY <1>1, <1>2, <1>3, <2>1, <2>2 DEF ModelInStep, IInv
<1>9. UndecidedUntilWritten'
  BY <1>1, <1>2, <1>3 DEF UndecidedUntilWritten, IInv, ReceiptStatus, CommandOf
<1> QED
  BY <1>5, <1>6, <1>7, <1>8, <1>9 DEF IInv

\* Publish preserves the invariant: afterwards model and subscribers have it all.
LEMMA PublishOK ==
  ASSUME IInv, NEW s \in Shards, Publish(s)
  PROVE  IInv'
<1>1. /\ up /\ pc[s] = "publish"
      /\ published' = published \o
           SubSeq(staged[s], Len(staged[s]) + 1 - Size(s), Len(staged[s]))
      /\ plan' = [plan EXCEPT ![s] = NoPlan] /\ staged' = [staged EXCEPT ![s] = <<>>]
      /\ lock' = NoShard /\ pc' = [pc EXCEPT ![s] = "drain"]
      /\ UNCHANGED <<current, todo, fault, model>>
      /\ UNCHANGED <<callers, queues, durable, process>>
  BY DEF Publish, At, Goto
<1>2. UNCHANGED <<dispatched, answer, log, lastSeq, receipts, up, crashes>>
  BY <1>1 DEF callers, durable, process
<1>3. /\ pc' \in [Shards -> Steps] /\ pc'[s] = "drain" /\ \A r \in Shards \ {s} : pc'[r] = pc[r]
  BY <1>1, Typed DEF Steps
<1>4. \A r \in Shards \ {s} : pc[r] \notin Section
  BY <1>1, LockFacts DEF Section
<1>5. lastSeq \in Nat
  BY LockFacts
<1>6. published' = Count(lastSeq) /\ model = Count(lastSeq)
  <2>1. /\ Size(s) <= lastSeq /\ staged[s] = Count(lastSeq) /\ model = staged[s]
        /\ published = Count(lastSeq - Size(s))
    BY <1>1 DEF ModelInStep, IInv
  <2>2. Size(s) \in Nat
    BY <1>1, Typed, Held, LenProperties DEF Size
  <2>3. Len(staged[s]) = lastSeq
    BY <1>5, <2>1, CountIsSeq
  <2> HIDE DEF Size
  <2>4. Size(s) \in 0..lastSeq
    BY <1>5, <2>1, <2>2
  <2>5. Count(lastSeq - Size(s)) \o
          SubSeq(Count(lastSeq), lastSeq + 1 - Size(s), lastSeq) = Count(lastSeq)
    BY <1>5, <2>4, CountSplits
  <2> QED
    BY <1>1, <2>1, <2>3, <2>5
<1>7. published' \in Seq(Nat)
  BY <1>5, <1>6, CountIsSeq
<1>8. EnvelopesArePlaced' /\ WorkersInOrder' /\ Tickets' = Tickets
  BY <1>1, <1>2, <1>3, InHandStep
<1>9. TypeOK'
  <2>1. NoPlan \in [basis : Nat, streams : Seq(Aggregates)] /\ <<>> \in Seq(Nat)
    BY EmptySeq DEF NoPlan
  <2>2. /\ plan' \in [Shards -> [basis : Nat, streams : Seq(Aggregates)]]
        /\ staged' \in [Shards -> Seq(Nat)]
    BY <1>1, <2>1, Typed
  <2> QED
    BY <1>1, <1>2, <1>3, <1>7, <1>8, <2>2 DEF TypeOK, IInv, queues
<1>10. LockIsHeld'
  BY <1>1, <1>3, <1>4, EngineConstants DEF LockIsHeld, Section
<1>11. ModelInStep'
  BY <1>1, <1>2, <1>3, <1>4, <1>6 DEF ModelInStep, IInv, Section
<1>12. UndecidedUntilWritten'
  BY <1>1, <1>2, <1>3 DEF UndecidedUntilWritten, IInv, ReceiptStatus, CommandOf
<1> QED
  BY <1>8, <1>9, <1>10, <1>11, <1>12 DEF IInv

\* Compensate preserves the invariant: under the lock there is nothing to replay.
LEMMA CompensateOK ==
  ASSUME IInv, NEW s \in Shards, Compensate(s)
  PROVE  IInv'
<1> DEFINE c == CommandOf(current[s][1])
<1>1. /\ up /\ pc[s] = "compensate" /\ lock = NoShard
      /\ fault' = [fault EXCEPT ![s] = "none"] /\ pc' = [pc EXCEPT ![s] = "refuse"]
      /\ UNCHANGED <<current, todo, plan, staged, lock, log, lastSeq>>
      /\ UNCHANGED <<callers, queues, process>>
  BY DEF Compensate, At, Goto, CommitLockFree
<1>2. UNCHANGED <<dispatched, answer, up, crashes>>
  BY <1>1 DEF callers, process
<1>3. /\ pc' \in [Shards -> Steps] /\ pc'[s] = "refuse" /\ \A r \in Shards \ {s} : pc'[r] = pc[r]
  BY <1>1, Typed DEF Steps
<1>4. \A r \in Shards : pc[r] \notin Section
  BY <1>1, LockFacts
<1>5. model' = model /\ published' = published
  <2>1. model = Count(lastSeq) /\ published = Count(lastSeq) /\ lastSeq \in Nat
    BY <1>1, LockFacts
  <2>2. SnapshotSequence(model) = lastSeq
    BY <2>1, CountIsSeq, EmptySeq DEF SnapshotSequence
  <2>3. \A e \in log : e.seq \in Nat /\ e.seq <= lastSeq
    BY DEF IInv, TypeOK, ModelInStep, Event
  <2>4. {e.seq : e \in {f \in log : f.seq > SnapshotSequence(model)}} = {}
    BY <2>1, <2>2, <2>3
  <2>5. InOrder({e.seq : e \in {f \in log : f.seq > SnapshotSequence(model)}}) = <<>>
    BY <2>4, NothingInOrder
  <2>6. model \o <<>> = model /\ published \o <<>> = published
    BY LockFacts, ConcatEmptySeq
  <2> QED
    BY <2>5, <2>6 DEF Compensate
<1>6. /\ c \in Commands /\ Owner(current[s][1]) \in Aggregates /\ Single(s)
      /\ SnapshotSequence(model') \in Nat
  BY <1>1, <1>5, Held, LockFacts, SequenceIsNat DEF IInv, WorkersInOrder
<1>7. \/ UNCHANGED receipts
      \/ receipts' = [receipts EXCEPT ![c] = [status |-> "rejected",
                        seq |-> SnapshotSequence(model'), aggregate |-> Owner(current[s][1])]]
  BY DEF Compensate
<1> HIDE DEF c
<1>8. receipts' \in [Commands -> {NoReceipt} \cup Receipt]
  <2>1. [status |-> "rejected", seq |-> SnapshotSequence(model'),
         aggregate |-> Owner(current[s][1])] \in Receipt
    BY <1>6 DEF Receipt
  <2>2. receipts \in [Commands -> {NoReceipt} \cup Receipt]
    BY Typed
  <2> QED
    BY <1>6, <1>7, <2>1, <2>2
<1>9. EnvelopesArePlaced' /\ WorkersInOrder' /\ Tickets' = Tickets
  BY <1>1, <1>2, <1>3, <1>6, InHandStep
<1>10. TypeOK'
  <2>1. fault' \in [Shards -> {"none", "invariant", "empty", "other"}]
    BY <1>1, Typed
  <2> QED
    BY <1>1, <1>2, <1>3, <1>5, <1>8, <1>9, <2>1 DEF TypeOK, IInv, queues
<1>11. LockIsHeld'
  BY <1>1, <1>3 DEF LockIsHeld, IInv, Section
<1>12. ModelInStep'
  BY <1>1, <1>2, <1>3, <1>4, <1>5 DEF ModelInStep, IInv, Section
<1>13. UndecidedUntilWritten'
  <2> SUFFICES ASSUME NEW r \in Shards, pc'[r] \in {"write", "compensate"},
                      NEW i \in 1..Len(current[r])
               PROVE  receipts'[CommandOf(current[r][i])].status = "none"
    BY <1>1, <1>2 DEF UndecidedUntilWritten, ReceiptStatus, CommandOf
  <2>1. r # s /\ pc[r] \in {"write", "compensate"}
    BY <1>3
  <2>2. CommandOf(current[r][i]) # c
    BY <1>6, <2>1, OtherCommands DEF Single, c
  <2>3. receipts[CommandOf(current[r][i])].status = "none"
    BY <2>1 DEF IInv, UndecidedUntilWritten, ReceiptStatus
  <2>4. CommandOf(current[r][i]) \in Commands
    BY Typed, ElementOfSeq, <2>1 DEF IInv, TypeOK, CommandOf, Tickets
  <2> QED
    BY <1>7, <2>2, <2>3, <2>4, Typed
<1> QED
  BY <1>9, <1>10, <1>11, <1>12, <1>13 DEF IInv

\* A crash preserves the invariant.
LEMMA CrashOK ==
  ASSUME IInv, Crash
  PROVE  IInv'
<1> USE DEF Crash, durable
<1>1. Tickets' = Tickets /\ \A r : OnShard(r)' = OnShard(r)
  BY SameTickets
<1>2. TypeOK'
  <2>1. /\ NoPlan \in [basis : Nat, streams : Seq(Aggregates)]
        /\ <<>> \in Seq(Nat) /\ <<>> \in Seq(Tickets)
    BY EmptySeq DEF NoPlan
  <2>2. answer' \in [1..MaxDispatches -> Verdicts]
    BY DEF IInv, TypeOK, Verdicts
  <2>3. /\ intake' \in Seq(Tickets)
        /\ shardQueue' \in [Shards -> Seq(Tickets)] /\ pending' \in [Shards -> Seq(Tickets)]
        /\ current' \in [Shards -> Seq(Tickets)] /\ todo' \in [Shards -> Seq(Tickets)]
    BY <2>1
  <2>4. /\ pc' \in [Shards -> Steps] /\ staged' \in [Shards -> Seq(Nat)]
        /\ fault' \in [Shards -> {"none", "invariant", "empty", "other"}]
        /\ plan' \in [Shards -> [basis : Nat, streams : Seq(Aggregates)]]
    BY <2>1 DEF Steps
  <2>5. /\ lock' \in Shards \cup {NoShard} /\ model' \in Seq(Nat) /\ published' \in Seq(Nat)
        /\ up' \in BOOLEAN
    BY <2>1
  <2>7. crashes' \in Nat
    <3>1. crashes \in Nat /\ crashes' = crashes + 1
      BY DEF IInv, TypeOK
    <3> HIDE DEF Crash
    <3> QED
      BY <3>1
  <2>6. UNCHANGED <<dispatched, log, lastSeq, receipts>>
    OBVIOUS
  <2> HIDE DEF Crash
  <2> QED
    BY <1>1, <2>2, <2>3, <2>4, <2>5, <2>6, <2>7 DEF TypeOK, IInv
<1>3. WorkersInOrder'
  BY DEF WorkersInOrder
<1>4. LockIsHeld'
  BY EngineConstants DEF LockIsHeld, Section
<1>5. EnvelopesArePlaced'
  BY EmptySeq DEF EnvelopesArePlaced
<1>6. ModelInStep'
  BY DEF ModelInStep, IInv
<1>7. UndecidedUntilWritten'
  BY DEF UndecidedUntilWritten
<1> QED
  BY <1>2, <1>3, <1>4, <1>5, <1>6, <1>7 DEF IInv

\* A start preserves the invariant.
LEMMA BootOK ==
  ASSUME IInv, Boot
  PROVE  IInv'
<1>1. /\ ~up /\ up' /\ model' = Count(lastSeq) /\ published' = Count(lastSeq)
      /\ UNCHANGED <<dispatched, answer, intake, shardQueue, pending, current, todo, pc, fault,
                     plan, staged, lock, log, lastSeq, receipts, crashes>>
  BY DEF Boot, callers, queues, workers, durable, Count
<1>2. Tickets' = Tickets /\ \A r : OnShard(r)' = OnShard(r)
  BY <1>1, SameTickets
<1>3. Count(lastSeq) \in Seq(Nat)
  BY LockFacts, CountIsSeq
<1>4. TypeOK'
  BY <1>1, <1>2, <1>3 DEF TypeOK, IInv
<1>5. \A s \in Shards : pc[s] = "idle"
  BY <1>1 DEF WorkersInOrder, IInv
<1>6. WorkersInOrder'
  BY <1>1 DEF WorkersInOrder, IInv, Single
<1>7. LockIsHeld'
  BY <1>1 DEF LockIsHeld, IInv
<1>8. EnvelopesArePlaced'
  BY <1>1, <1>2 DEF EnvelopesArePlaced, IInv
<1>9. ModelInStep'
  BY <1>1, <1>5 DEF ModelInStep, IInv
<1>10. UndecidedUntilWritten'
  BY <1>1, <1>5 DEF UndecidedUntilWritten
<1> QED
  BY <1>4, <1>6, <1>7, <1>8, <1>9, <1>10 DEF IInv

\* A stuttering step preserves the invariant.
LEMMA StutterOK ==
  ASSUME IInv, UNCHANGED vars
  PROVE  IInv'
<1> USE DEF vars, callers, queues, workers, memory, durable, process
<1>1. Tickets' = Tickets /\ \A r : OnShard(r)' = OnShard(r)
  BY SameTickets
<1>2. TypeOK' /\ EnvelopesArePlaced'
  BY <1>1 DEF TypeOK, EnvelopesArePlaced, IInv
<1>3. WorkersInOrder' /\ LockIsHeld'
  BY DEF WorkersInOrder, LockIsHeld, Single, IInv
<1>4. ModelInStep'
  BY DEF ModelInStep, Size, Single, IInv
<1>5. UndecidedUntilWritten'
  BY DEF UndecidedUntilWritten, ReceiptStatus, CommandOf, IInv
<1> QED
  BY <1>2, <1>3, <1>4, <1>5 DEF IInv

\* The invariant is inductive.
LEMMA NextOK == IInv /\ [Next]_vars => IInv'
<1> SUFFICES ASSUME IInv, [Next]_vars PROVE IInv'
  OBVIOUS
<1>1. ASSUME NEW c \in Commands, Dispatch(c) PROVE IInv'
  BY <1>1, DispatchOK
<1>2. CASE Route
  BY <1>2, RouteOK
<1>3. ASSUME NEW s \in Shards, Work(s) PROVE IInv'
  BY <1>3, TakeOK, CandidateOK, PollOK, AdmitOK, AdmitBatchOK, WriteOK, WriteFailsOK,
     WriteBatchOK, WriteBatchFailsOK, SwapOK, PublishOK, FinishOK, RefuseOK DEF Work
<1>4. ASSUME NEW s \in Shards, Locking(s) PROVE IInv'
  BY <1>4, DecideOK, CheckBatchOK, CompensateOK DEF Locking
<1>5. CASE Crash
  BY <1>5, CrashOK
<1>6. CASE Boot
  BY <1>6, BootOK
<1>7. CASE UNCHANGED vars
  BY <1>7, StutterOK
<1> QED
  BY <1>1, <1>2, <1>3, <1>4, <1>5, <1>6, <1>7 DEF Next

\* The inductive invariant (one worker in the commit section, model and
\* subscribers in step with the log, envelopes on their shard, no receipt for
\* what is still undecided) holds in every reachable state of the engine.
THEOREM Invariance == Spec => []IInv
BY InitOK, NextOK, PTL DEF Spec

\* Every variable of the engine stays in its domain.
THEOREM TypeCorrect == Spec => []TypeOK
BY Invariance, PTL DEF IInv

\* Whenever no commit is under way, the in-memory read model and the event
\* stream have every committed event exactly once and in order.
THEOREM ModelTracks == Spec => []ModelTracksLog
<1>1. IInv => ModelTracksLog
  BY LockFacts DEF ModelTracksLog, Count
<1> QED
  BY Invariance, <1>1, PTL

\* What a step may do to a receipt that is there.
LEMMA VerdictStep ==
  ASSUME IInv, [Next]_vars, NEW c \in Commands, receipts[c].status # "none"
  PROVE  \/ receipts'[c] = receipts[c]
         \/ \E s \in Shards :
              /\ pc[s] = "write" /\ pc'[s] = "swap"
              /\ receipts[c].aggregate \in Purged(current[s][1], plan[s])
<1>1. CASE UNCHANGED receipts
  BY <1>1
<1>2. ASSUME NEW s \in Shards, Decide(s), AcceptNoOp(s)
      PROVE  receipts'[c] = receipts[c]
  BY <1>2, Typed DEF AcceptNoOp, ReceiptStatus
<1>3. ASSUME NEW s \in Shards, Compensate(s)
      PROVE  receipts'[c] = receipts[c]
  <2>1. pc[s] = "compensate" /\ Single(s)
    BY <1>3 DEF Compensate, At, IInv, WorkersInOrder
  <2>2. ReceiptStatus(CommandOf(current[s][1])) = "none"
    BY <2>1 DEF IInv, UndecidedUntilWritten, Single
  <2> QED
    BY <1>3, <2>2, Typed DEF Compensate, ReceiptStatus
<1>4. ASSUME NEW s \in Shards, Write(s)
      PROVE  \/ receipts'[c] = receipts[c]
             \/ /\ pc[s] = "write" /\ pc'[s] = "swap"
                /\ receipts[c].aggregate \in Purged(current[s][1], plan[s])
  <2>1. pc[s] = "write" /\ pc'[s] = "swap" /\ Single(s)
    BY <1>4, Typed DEF Write, At, Goto
  <2>2. ReceiptStatus(CommandOf(current[s][1])) = "none"
    BY <2>1 DEF IInv, UndecidedUntilWritten, Single
  <2>3. c # CommandOf(current[s][1])
    BY <2>2 DEF ReceiptStatus
  <2>4. receipts'[c] = KeptReceipts(Purged(current[s][1], plan[s]))[c]
    BY <1>4, <2>3 DEF Write, KeptReceipts
  <2> QED
    BY <2>1, <2>4 DEF KeptReceipts
<1>5. ASSUME NEW s \in Shards, WriteBatch(s)
      PROVE  receipts'[c] = receipts[c]
  <2>1. pc[s] = "write"
    BY <1>5 DEF WriteBatch, At
  <2>2. \A i \in 1..Len(current[s]) : CommandOf(current[s][i]) # c
    BY <2>1 DEF IInv, UndecidedUntilWritten, ReceiptStatus
  <2> QED
    BY <1>5, <2>2 DEF WriteBatch
<1>6. \/ UNCHANGED receipts
      \/ \E s \in Shards : Decide(s) /\ AcceptNoOp(s)
      \/ \E s \in Shards : Compensate(s) \/ Write(s) \/ WriteBatch(s)
  <2>1. ASSUME NEW s \in Shards, Work(s)
        PROVE  UNCHANGED receipts \/ Write(s) \/ WriteBatch(s)
    BY <2>1 DEF Work, durable, Take, CandidateArrives, PollBatch, Admit, AdmitBatch, WriteFails,
                WriteBatchFails, Swap, Publish, Finish, Refuse
  <2>2. ASSUME NEW s \in Shards, Locking(s)
        PROVE  UNCHANGED receipts \/ (Decide(s) /\ AcceptNoOp(s)) \/ Compensate(s)
    BY <2>2 DEF Locking, durable, Decide, DecideEvents, CheckBatch
  <2> QED
    BY <2>1, <2>2 DEF Next, vars, durable, Dispatch, Route, Crash, Boot
<1> QED
  BY <1>1, <1>2, <1>3, <1>4, <1>5, <1>6

\* Receipts are final: only the purge of its aggregate's stream removes one.
THEOREM VerdictsAreFinal == Spec => VerdictIsFinal
<1>1. IInv /\ [Next]_vars =>
        [\A c \in Commands : receipts[c].status # "none" =>
           \/ receipts'[c] = receipts[c]
           \/ \E s \in Shards :
                /\ pc[s] = "write" /\ pc'[s] = "swap"
                /\ receipts[c].aggregate \in Purged(current[s][1], plan[s])]_vars
  BY VerdictStep
<1> QED
  BY Invariance, <1>1, PTL DEF Spec, VerdictIsFinal
=============================================================================
