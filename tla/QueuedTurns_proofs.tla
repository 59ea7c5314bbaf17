------------------------- MODULE QueuedTurns_proofs -------------------------
(***************************************************************************)
(* Proofs about QueuedTurns, for any threads, turns and bounds: its        *)
(* variables are typed, no two queued turns of a thread tie, a turn that   *)
(* survived a crash waits for the user, and no wake-up is lost.            *)
(***************************************************************************)
EXTENDS QueuedTurns, FiniteSetTheorems, WellFoundedInduction, TLAPS

\* A turn chosen by the drain of a thread is one of its turns.
ChosenOwn == \A t \in Threads : chosen[t] # NoTurn => ThreadOf[chosen[t]] = t

\* A thread is drained neither before the barrier opens nor before its hold.
DrainsWait == \A t \in Threads : Kept(t) => drain[t] = "none"

\* Once the session has begun no clean exit is on record.
MarkerIsCleared == phase \in {"recovering", "open"} /\ ~lapsed => ~marker

\* Where the start will find that the queue of t has to be held.
WillBeHeld(t) ==
  /\ ~marker
  /\ \/ phase \in {"down", "starting"}
     \/ phase = "clearing" /\ ~verdict
     \/ phase \in {"recovering", "open"} /\ t \in awaiting

\* The queue of a survivor is held or will be, and its drain has not got past
\* the check of the hold.
SurvivorsWait ==
  ~lapsed =>
    /\ \A q \in survivors : ThreadOf[q] \in held \/ WillBeHeld(ThreadOf[q])
    /\ \A q \in survivors : drain[ThreadOf[q]] \in {"none", "read"}
    /\ fired = {}

QueueInv ==
  /\ TypeOK
  /\ ChosenOwn
  /\ DrainsWait
  /\ MarkerIsCleared
  /\ SurvivorsWait

-----------------------------------------------------------------------------
(* Types *)

\* A queue position is a natural number.
LEMMA PositionType ==
  ASSUME NEW t \in Threads, NEW n \in NextPosition(t)
  PROVE  n \in Nat
  BY QueueConstants, FS_CardinalityType DEF NextPosition

\* Every step keeps the variables in their domains.
LEMMA TypeStep == TypeOK /\ [Next]_vars => TypeOK'
<1> SUFFICES ASSUME TypeOK, [Next]_vars
             PROVE  TypeOK'
  OBVIOUS
<1> USE QueueConstants DEF TypeOK, Stages
<1>1. ASSUME NEW q \in Turns, Create(q)
      PROVE  TypeOK'
  BY <1>1, PositionType
     DEF Create, Woken, session, start, counts, history
<1>2. ASSUME NEW q \in Turns, Edit(q) \/ Delete(q)
      PROVE  TypeOK'
  BY <1>2 DEF Edit, Delete, Leave, Woken, session, start, counts, history
<1>3. ASSUME NEW q \in Turns, DispatchByHand(q)
      PROVE  TypeOK'
  BY <1>3 DEF DispatchByHand, StartQueued, Leave, Woken, start, counts
<1>4. ASSUME NEW t \in Threads, Reorder(t)
      PROVE  TypeOK'
  BY <1>4 DEF Reorder, Woken, session, start, counts, history
<1>5. ASSUME NEW t \in Threads, Release(t) \/ StartTurn(t)
      PROVE  TypeOK'
  BY <1>5 DEF Release, StartTurn, Woken, turns, session, start, counts, history
<1>6. ASSUME NEW t \in Threads, ProviderStep(t) \/ Ask(t) \/ Respond(t)
      PROVE  TypeOK'
  BY <1>6 DEF ProviderStep, Ask, Respond, Woken, turns, start, drains, counts, history
<1>7. ASSUME NEW t \in Threads, DrainThread(t) \/ Sweep(t)
      PROVE  TypeOK'
  BY <1>7 DEF DrainThread, Sweep, Woken, turns, session, start, counts, history
<1>8. ASSUME NEW t \in Threads, Read(t)
      PROVE  TypeOK'
  BY <1>8 DEF Read, EndDrain, First, Queued, turns, session, start, counts, history
<1>9. ASSUME NEW t \in Threads, DropMonitored(t)
      PROVE  TypeOK'
  BY <1>9 DEF DropMonitored, EndDrain, WriteMayFail, Leave, Woken, turns, session, start
<1>10. ASSUME NEW t \in Threads, Choose(t)
       PROVE  TypeOK'
  BY <1>10 DEF Choose, EndDrain, turns, session, start, counts, history
<1>11. ASSUME NEW t \in Threads, Verify(t)
       PROVE  TypeOK'
  BY <1>11 DEF Verify, EndDrain, WriteMayFail, Leave, turns, session, start
<1>12. ASSUME NEW t \in Threads, Dispatch(t)
       PROVE  TypeOK'
  BY <1>12 DEF Dispatch, StartQueued, Leave, CanStart, EndDrain, WriteMayFail, turns, start
<1>13. ASSUME NEW t \in Threads, AfterRefusal(t) \/ FailTurn(t)
       PROVE  TypeOK'
  BY <1>13 DEF AfterRefusal, FailTurn, EndDrain, WriteMayFail, turns, session, start, counts, history
<1>14. ASSUME NEW t \in Threads, Hold(t) \/ RetryHold(t)
       PROVE  TypeOK'
  BY <1>14 DEF Hold, RetryHold, InstallHold, WriteMayFail, Woken, turns, session, history
<1>15. ASSUME Boot \/ ReadMarker \/ OpenBarrier
       PROVE  TypeOK'
  BY <1>15 DEF Boot, ReadMarker, OpenBarrier, Candidates, turns, session, drains, counts, history
<1>16. ASSUME ClearMarker
       PROVE  TypeOK'
  <2>1. lapsed' \in BOOLEAN /\ marker' \in BOOLEAN /\ verdict' \in BOOLEAN
    BY <1>16 DEF ClearMarker
  <2>2. awaiting' \subseteq Threads /\ toHold' \subseteq Threads
    BY <1>16 DEF ClearMarker, Candidates
  <2>3. failures' \in Nat /\ phase' = "recovering"
    BY <1>16 DEF ClearMarker, WriteMayFail
  <2> QED
    BY <1>16, <2>1, <2>2, <2>3 DEF ClearMarker, turns, session, drains
<1>17. ASSUME Crash \/ Quit
       PROVE  TypeOK'
  <2>1. Stop /\ UNCHANGED <<turns, held, session>>
    BY <1>17 DEF Crash, Quit
  <2>2. failures' \in Nat /\ crashes' \in Nat /\ quits' \in Nat
    BY <1>17 DEF Crash, Quit, WriteMayFail
  <2>3. marker' \in BOOLEAN /\ lapsed' \in BOOLEAN
    BY <1>17 DEF Crash, Quit
  <2>4. survivors' \subseteq {q \in Turns : fate[q] = "queued"} /\ fired' \subseteq Turns
    BY <1>17 DEF Crash, Quit
  <2> QED
    BY <2>1, <2>2, <2>3, <2>4 DEF Stop, turns, session
<1>18. CASE UNCHANGED vars
  BY <1>18 DEF vars, turns, session, start, drains, counts, history
<1> QED
  BY <1>1, <1>2, <1>3, <1>4, <1>5, <1>6, <1>7, <1>8, <1>9, <1>10, <1>11, <1>12, <1>13,
     <1>14, <1>15, <1>16, <1>17, <1>18
     DEF Next, Client, Provider, Start, DrainStep

\* The initial values are in their domains.
LEMMA InitType == Init => TypeOK
<1> SUFFICES ASSUME Init
             PROVE  TypeOK
  OBVIOUS
<1> USE DEF Init
<1>1. chosen \in [Threads -> Turns \cup {NoTurn}]
  OBVIOUS
<1>2. \A t \in Threads : drain[t] = "none"
  OBVIOUS
<1>3. failed = {} /\ fired = {} /\ survivors = {} /\ lapsed = FALSE
  OBVIOUS
<1> QED
  BY <1>1, <1>2, <1>3 DEF TypeOK, Stages

\* Every variable stays in its domain, and only a queued turn is marked as
\* failed (decider.ts and projector.ts for queued turns, QueuedTurnReactor.ts).
THEOREM TypeCorrect == Spec => []TypeOK
<1> QED
  BY InitType, TypeStep, PTL DEF Spec

-----------------------------------------------------------------------------
(* Order *)

\* A step that creates no turn and moves none keeps the order.
LEMMA NothingMoves ==
  ASSUME NoTwoTurnsTie,
         \A q \in Turns : fate'[q] = "queued" => fate[q] = "queued" /\ pos'[q] = pos[q]
  PROVE  NoTwoTurnsTie'
  BY DEF NoTwoTurnsTie

\* Every step keeps the order of every queue total.
LEMMA OrderStep == TypeOK /\ NoTwoTurnsTie /\ [Next]_vars => NoTwoTurnsTie'
<1> SUFFICES ASSUME TypeOK, NoTwoTurnsTie, [Next]_vars
             PROVE  NoTwoTurnsTie'
  OBVIOUS
<1>1. ASSUME NEW q \in Turns, Create(q)
      PROVE  NoTwoTurnsTie'
  <2>1. PICK n \in NextPosition(ThreadOf[q]) : pos' = [pos EXCEPT ![q] = n]
    BY <1>1 DEF Create
  <2>2. n \in Nat /\ \A r \in Queued(ThreadOf[q]) : pos[r] < n
    BY PositionType, QueueConstants DEF NextPosition
  <2>3. fate' = [fate EXCEPT ![q] = "queued"] /\ fate[q] = "new"
    BY <1>1 DEF Create
  <2> QED
    BY <2>1, <2>2, <2>3 DEF NoTwoTurnsTie, TypeOK, Queued
<1>2. ASSUME NEW t \in Threads, Reorder(t)
      PROVE  NoTwoTurnsTie'
  <2>1. PICK p \in [Queued(t) -> 0..(Cardinality(Queued(t)) - 1)] :
          /\ \A q, r \in Queued(t) : p[q] = p[r] => q = r
          /\ pos' = [q \in Turns |-> IF q \in Queued(t) THEN p[q] ELSE pos[q]]
    BY <1>2 DEF Reorder
  <2>2. fate' = fate
    BY <1>2 DEF Reorder
  <2> QED
    BY <2>1, <2>2 DEF NoTwoTurnsTie, Queued
<1>3. ASSUME NEW q \in Turns, Edit(q) \/ Delete(q) \/ DispatchByHand(q)
      PROVE  NoTwoTurnsTie'
  BY <1>3, NothingMoves DEF Edit, Delete, DispatchByHand, StartQueued, Leave, TypeOK
<1>4. ASSUME NEW t \in Threads, DropMonitored(t) \/ Verify(t) \/ Dispatch(t)
      PROVE  NoTwoTurnsTie'
  BY <1>4, NothingMoves DEF DropMonitored, Verify, Dispatch, StartQueued, Leave, turns, TypeOK
<1>5. CASE UNCHANGED <<fate, pos>>
  BY <1>5, NothingMoves
<1>6. ASSUME NEW t \in Threads,
             Release(t) \/ StartTurn(t) \/ ProviderStep(t) \/ Ask(t) \/ Respond(t)
      PROVE  UNCHANGED <<fate, pos>>
  BY <1>6 DEF Release, StartTurn, ProviderStep, Ask, Respond, turns
<1>7. ASSUME NEW t \in Threads,
             \/ DrainThread(t) \/ Read(t) \/ Choose(t) \/ AfterRefusal(t) \/ FailTurn(t)
             \/ Sweep(t) \/ Hold(t) \/ RetryHold(t)
      PROVE  UNCHANGED <<fate, pos>>
  BY <1>7 DEF DrainThread, Read, Choose, AfterRefusal, FailTurn, Sweep, Hold, RetryHold, turns
<1>8. ASSUME Boot \/ ReadMarker \/ ClearMarker \/ OpenBarrier \/ Crash \/ Quit \/ UNCHANGED vars
      PROVE  UNCHANGED <<fate, pos>>
  BY <1>8 DEF Boot, ReadMarker, ClearMarker, OpenBarrier, Crash, Quit, vars, turns
<1> QED
  BY <1>1, <1>2, <1>3, <1>4, <1>5, <1>6, <1>7, <1>8
     DEF Next, Client, Provider, Start, DrainStep

\* No two queued turns of a thread have the same position, so compareQueuedTurns
\* alone decides which turn the reactor starts next.
THEOREM QueuesAreOrdered == Spec => []NoTwoTurnsTie
<1>1. Init => NoTwoTurnsTie
  BY DEF Init, NoTwoTurnsTie
<1> QED
  BY <1>1, OrderStep, TypeCorrect, PTL DEF Spec

-----------------------------------------------------------------------------
(* Crash recovery *)

\* Every step keeps a drain to the turns of its thread.
LEMMA ChosenStep == TypeOK /\ ChosenOwn /\ [Next]_vars => ChosenOwn'
<1> SUFFICES ASSUME TypeOK, ChosenOwn, [Next]_vars
             PROVE  ChosenOwn'
  OBVIOUS
<1>1. ASSUME NEW t \in Threads, Read(t)
      PROVE  ChosenOwn'
  BY <1>1 DEF Read, EndDrain, First, Queued, ChosenOwn, TypeOK
<1>2. ASSUME NEW t \in Threads, chosen' = [chosen EXCEPT ![t] = NoTurn]
      PROVE  ChosenOwn'
  BY <1>2 DEF ChosenOwn, TypeOK
<1>3. ASSUME NEW t \in Threads, DrainStep(t), ~Read(t)
      PROVE  chosen' = chosen \/ chosen' = [chosen EXCEPT ![t] = NoTurn]
  BY <1>3 DEF DrainStep, DropMonitored, Choose, Verify, Dispatch, AfterRefusal, FailTurn, EndDrain
<1>4. CASE chosen' = chosen
  BY <1>4 DEF ChosenOwn
<1>5. ASSUME NEW q \in Turns, Create(q) \/ Edit(q) \/ Delete(q) \/ DispatchByHand(q)
      PROVE  chosen' = chosen
  BY <1>5 DEF Create, Edit, Delete, DispatchByHand
<1>6. ASSUME NEW t \in Threads,
             \/ Reorder(t) \/ Release(t) \/ StartTurn(t)
             \/ ProviderStep(t) \/ Ask(t) \/ Respond(t)
      PROVE  chosen' = chosen
  BY <1>6 DEF Reorder, Release, StartTurn, ProviderStep, Ask, Respond, drains
<1>7. ASSUME NEW t \in Threads, DrainThread(t) \/ Sweep(t) \/ Hold(t) \/ RetryHold(t)
      PROVE  chosen' = chosen
  BY <1>7 DEF DrainThread, Sweep, Hold, RetryHold
<1>8. ASSUME Boot \/ ReadMarker \/ ClearMarker \/ OpenBarrier \/ UNCHANGED vars
      PROVE  chosen' = chosen
  BY <1>8 DEF Boot, ReadMarker, ClearMarker, OpenBarrier, vars, drains
<1>9. ASSUME Crash \/ Quit
      PROVE  ChosenOwn'
  BY <1>9 DEF Crash, Quit, Stop, ChosenOwn
<1> QED
  BY <1>1, <1>2, <1>3, <1>4, <1>5, <1>6, <1>7, <1>8, <1>9 DEF Next, Client, Provider, Start

\* What the steps that are no part of the start and of an exit leave alone.
LEMMA StartIsKept ==
  ASSUME \/ Client \/ Provider
         \/ \E t \in Threads : DrainThread(t) \/ DrainStep(t) \/ Sweep(t)
  PROVE  UNCHANGED <<marker, phase, verdict, awaiting, toHold>>
<1>1. CASE Client \/ Provider
  BY <1>1 DEF Client, Provider, Create, Edit, Delete, DispatchByHand, Reorder, Release,
              StartTurn, ProviderStep, Ask, Respond, start
<1>2. ASSUME NEW t \in Threads, DrainThread(t) \/ DrainStep(t) \/ Sweep(t)
      PROVE  UNCHANGED <<marker, phase, verdict, awaiting, toHold>>
  BY <1>2 DEF DrainThread, DrainStep, Read, DropMonitored, Choose, Verify, Dispatch,
              AfterRefusal, FailTurn, Sweep, start
<1> QED
  BY <1>1, <1>2

\* A client and a provider leave the drains alone.
LEMMA DrainIsKept ==
  ASSUME Client \/ Provider
  PROVE  drain' = drain
BY DEF Client, Provider, Create, Edit, Delete, DispatchByHand, Reorder, Release, StartTurn,
       ProviderStep, Ask, Respond, drains

\* The drain of a thread leaves those of the others alone.
LEMMA OtherDrainsAreKept ==
  ASSUME TypeOK, NEW t \in Threads, DrainStep(t)
  PROVE  drain[t] # "none" /\ \A u \in Threads \ {t} : drain'[u] = drain[u]
BY DEF DrainStep, Read, DropMonitored, Choose, Verify, Dispatch, AfterRefusal, FailTurn,
       EndDrain, TypeOK

\* Every step keeps a thread from being drained before it is held.
LEMMA DrainsStep == TypeOK /\ DrainsWait /\ [Next]_vars => DrainsWait'
<1> SUFFICES ASSUME TypeOK, DrainsWait, [Next]_vars
             PROVE  DrainsWait'
  OBVIOUS
<1> USE DEF DrainsWait, Kept
<1>1. CASE Client \/ Provider
  BY <1>1, StartIsKept, DrainIsKept
<1>2. ASSUME NEW t \in Threads, DrainThread(t) \/ Sweep(t)
      PROVE  DrainsWait'
  BY <1>2, StartIsKept DEF DrainThread, Sweep, TypeOK
<1>3. ASSUME NEW t \in Threads, DrainStep(t)
      PROVE  DrainsWait'
  BY <1>3, StartIsKept, OtherDrainsAreKept
<1>4. ASSUME NEW t \in Threads, Hold(t) \/ RetryHold(t)
      PROVE  DrainsWait'
  BY <1>4 DEF Hold, RetryHold, InstallHold
<1>5. ASSUME Boot \/ ReadMarker \/ ClearMarker \/ OpenBarrier
      PROVE  DrainsWait'
  BY <1>5 DEF Boot, ReadMarker, ClearMarker, OpenBarrier, drains
<1>6. ASSUME Crash \/ Quit
      PROVE  DrainsWait'
  BY <1>6 DEF Crash, Quit, Stop
<1>7. CASE UNCHANGED vars
  BY <1>7 DEF vars, start, drains
<1> QED
  BY <1>1, <1>2, <1>3, <1>4, <1>5, <1>6, <1>7 DEF Next, Start

\* Every step keeps the marker cleared while the process serves.
LEMMA MarkerStep == TypeOK /\ MarkerIsCleared /\ [Next]_vars => MarkerIsCleared'
<1> SUFFICES ASSUME TypeOK, MarkerIsCleared, [Next]_vars
             PROVE  MarkerIsCleared'
  OBVIOUS
<1> USE DEF MarkerIsCleared, TypeOK
<1>1. CASE Client \/ Provider
  <2>1. lapsed' = lapsed
    BY <1>1 DEF Client, Provider, Create, Edit, Delete, DispatchByHand, Reorder, Release,
                StartTurn, ProviderStep, Ask, Respond, history
  <2> QED
    BY <1>1, <2>1, StartIsKept
<1>2. ASSUME NEW t \in Threads, DrainThread(t) \/ DrainStep(t) \/ Sweep(t)
      PROVE  MarkerIsCleared'
  <2>1. lapsed' = lapsed
    BY <1>2 DEF DrainThread, DrainStep, Read, DropMonitored, Choose, Verify, Dispatch,
                AfterRefusal, FailTurn, Sweep, history
  <2> QED
    BY <1>2, <2>1, StartIsKept
<1>3. ASSUME NEW t \in Threads, Hold(t) \/ RetryHold(t)
      PROVE  MarkerIsCleared'
  BY <1>3 DEF Hold, RetryHold, history
<1>4. ASSUME Boot \/ ReadMarker \/ ClearMarker \/ OpenBarrier
      PROVE  MarkerIsCleared'
  BY <1>4 DEF Boot, ReadMarker, ClearMarker, OpenBarrier, history
<1>5. ASSUME Crash \/ Quit
      PROVE  MarkerIsCleared'
  BY <1>5 DEF Crash, Quit, Stop
<1>6. CASE UNCHANGED vars
  BY <1>6 DEF vars, start, history
<1> QED
  BY <1>1, <1>2, <1>3, <1>4, <1>5, <1>6 DEF Next, Start

\* What a step that neither starts nor ends the process has to keep.
LEMMA SurvivorsStay ==
  ASSUME TypeOK, SurvivorsWait,
         UNCHANGED <<marker, phase, verdict, awaiting, fired, lapsed>>,
         survivors' \subseteq survivors,
         \A q \in survivors' :
           /\ ThreadOf[q] \in held => ThreadOf[q] \in held'
           /\ ~lapsed => drain'[ThreadOf[q]] \in {"none", "read"}
  PROVE  SurvivorsWait'
BY DEF SurvivorsWait, WillBeHeld

\* Every step keeps the survivors waiting.
LEMMA SurvivorsStep == QueueInv /\ [Next]_vars => SurvivorsWait'
<1> SUFFICES ASSUME QueueInv, [Next]_vars
             PROVE  SurvivorsWait'
  OBVIOUS
<1>0. TypeOK /\ ChosenOwn /\ DrainsWait /\ MarkerIsCleared /\ SurvivorsWait
  BY DEF QueueInv
<1>1. ASSUME NEW q \in Turns, Create(q) \/ Edit(q) \/ Delete(q) \/ DispatchByHand(q)
      PROVE  SurvivorsWait'
  <2>1. /\ UNCHANGED <<marker, phase, verdict, awaiting, fired, lapsed, held, drain>>
        /\ survivors' \subseteq survivors
    BY <1>1 DEF Create, Edit, Delete, DispatchByHand, StartQueued, Leave, start, history
  <2> QED
    BY <1>0, <2>1, SurvivorsStay DEF SurvivorsWait
<1>2. ASSUME NEW t \in Threads, Release(t)
      PROVE  SurvivorsWait'
  <2>1. /\ UNCHANGED <<marker, phase, verdict, awaiting, fired, lapsed, drain>>
        /\ survivors' = {q \in survivors : ThreadOf[q] # t}
        /\ held' = held \ {t}
    BY <1>2 DEF Release, start
  <2> QED
    BY <1>0, <2>1, SurvivorsStay DEF SurvivorsWait
<1>3. ASSUME NEW t \in Threads,
             \/ Reorder(t) \/ StartTurn(t) \/ ProviderStep(t) \/ Ask(t) \/ Respond(t) \/ Sweep(t)
      PROVE  SurvivorsWait'
  <2>1. UNCHANGED <<marker, phase, verdict, awaiting, fired, lapsed, held, drain, survivors>>
    BY <1>3 DEF Reorder, StartTurn, ProviderStep, Ask, Respond, Sweep, start, drains, history
  <2> QED
    BY <1>0, <2>1, SurvivorsStay DEF SurvivorsWait
<1>4. ASSUME NEW t \in Threads, DrainThread(t)
      PROVE  SurvivorsWait'
  <2>1. UNCHANGED <<marker, phase, verdict, awaiting, fired, lapsed, held, survivors>>
    BY <1>4 DEF DrainThread, start, history
  <2>2. drain' = drain \/ drain' = [drain EXCEPT ![t] = "read"]
    BY <1>4 DEF DrainThread
  <2>3. \A q \in survivors : ThreadOf[q] \in Threads
    BY <1>0, QueueConstants DEF TypeOK
  <2> QED
    BY <1>0, <2>1, <2>2, <2>3, SurvivorsStay DEF SurvivorsWait, TypeOK
<1>5. ASSUME NEW t \in Threads, DrainStep(t)
      PROVE  SurvivorsWait'
  <2>1. /\ UNCHANGED <<marker, phase, verdict, awaiting, lapsed, held>>
        /\ survivors' \subseteq survivors
    BY <1>5 DEF DrainStep, Read, DropMonitored, Choose, Verify, Dispatch, AfterRefusal, FailTurn,
                StartQueued, Leave, start, history, turns
  <2>2. \A q \in survivors : ThreadOf[q] \in Threads
    BY <1>0, QueueConstants DEF TypeOK
  <2>3. CASE lapsed
    BY <2>1, <2>3 DEF SurvivorsWait
  <2>4. CASE ~lapsed /\ \A q \in survivors : ThreadOf[q] # t
    <3>1. \A q \in survivors : drain'[ThreadOf[q]] = drain[ThreadOf[q]]
      BY <1>0, <1>5, <2>2, <2>4, OtherDrainsAreKept
    <3>2. fired' = fired
      <4>1. ASSUME Dispatch(t), CanStart(chosen[t])
            PROVE  chosen[t] \notin survivors
        BY <1>0, <2>4, <4>1, QueueConstants DEF Dispatch, ChosenOwn, TypeOK
      <4> QED
        BY <1>5, <4>1 DEF DrainStep, Read, DropMonitored, Choose, Verify, Dispatch,
                          AfterRefusal, FailTurn, history
    <3> QED
      BY <1>0, <2>1, <3>1, <3>2, SurvivorsStay DEF SurvivorsWait
  <2>5. ASSUME ~lapsed, NEW q \in survivors, ThreadOf[q] = t
        PROVE  SurvivorsWait'
    <3>1. drain[t] = "read"
      BY <1>0, <1>5, <2>5, OtherDrainsAreKept DEF SurvivorsWait
    <3>2. Read(t)
      BY <1>5, <3>1 DEF DrainStep, DropMonitored, Choose, Verify, Dispatch, AfterRefusal, FailTurn
    <3>3. t \in held
      <4>1. phase = "open" /\ t \notin awaiting
        BY <1>0, <3>1 DEF DrainsWait, Kept
      <4> QED
        BY <1>0, <2>5, <4>1 DEF SurvivorsWait, WillBeHeld
    <3>4. EndDrain(t, FALSE) /\ UNCHANGED <<fired, survivors>>
      BY <3>2, <3>3 DEF Read, Ready, history
    <3> QED
      BY <1>0, <2>1, <2>2, <3>4, SurvivorsStay DEF SurvivorsWait, EndDrain, TypeOK
  <2> QED
    BY <1>0, <2>3, <2>4, <2>5 DEF TypeOK
<1>6. ASSUME NEW t \in Threads, Hold(t) \/ RetryHold(t)
      PROVE  SurvivorsWait'
  <2>1. UNCHANGED <<marker, phase, verdict, fired, lapsed, drain, survivors, fate>>
    BY <1>6 DEF Hold, RetryHold, history, turns
  <2>2. CASE UNCHANGED <<held, awaiting>>
    BY <1>0, <2>1, <2>2 DEF SurvivorsWait, WillBeHeld
  <2>3. CASE InstallHold(t)
    <3>1. \A q \in survivors : ThreadOf[q] = t => ThreadOf[q] \in held'
      BY <1>0, <2>3 DEF InstallHold, Queued, TypeOK
    <3>2. held \subseteq held' /\ awaiting' = awaiting \ {t}
      BY <2>3 DEF InstallHold
    <3> QED
      BY <1>0, <2>1, <3>1, <3>2 DEF SurvivorsWait, WillBeHeld
  <2> QED
    BY <1>6, <2>2, <2>3 DEF Hold, RetryHold
<1>7. ASSUME Boot \/ ReadMarker \/ OpenBarrier
      PROVE  SurvivorsWait'
  <2>1. UNCHANGED <<marker, awaiting, held, fired, lapsed, drain, survivors>>
    BY <1>7 DEF Boot, ReadMarker, OpenBarrier, drains, history
  <2>2. \/ phase = "down" /\ phase' = "starting"
        \/ phase = "starting" /\ phase' = "clearing" /\ verdict' = marker
        \/ phase = "recovering" /\ phase' = "open"
    BY <1>7 DEF Boot, ReadMarker, OpenBarrier
  <2> QED
    BY <1>0, <2>1, <2>2 DEF SurvivorsWait, WillBeHeld
<1>8. ASSUME ClearMarker
      PROVE  SurvivorsWait'
  <2>1. UNCHANGED <<held, fired, drain, survivors>>
    BY <1>8 DEF ClearMarker, drains
  <2>2. \A q \in survivors : ThreadOf[q] \in Candidates
    BY <1>0, QueueConstants DEF Candidates, Queued, TypeOK
  <2>3. ~lapsed' => ~lapsed
    BY <1>8 DEF ClearMarker
  <2>4. ASSUME ~lapsed', NEW q \in survivors, ThreadOf[q] \notin held
        PROVE  ~marker' /\ ThreadOf[q] \in awaiting'
    <3>1. WillBeHeld(ThreadOf[q])
      BY <1>0, <2>3, <2>4 DEF SurvivorsWait
    <3>2. marker' = FALSE \/ marker' = marker
      BY <1>8 DEF ClearMarker
    <3>3. CASE awaiting' = Candidates
      BY <2>2, <2>4, <3>1, <3>2, <3>3 DEF WillBeHeld
    <3>4. CASE phase = "clearing" /\ verdict
      BY <3>1, <3>4 DEF WillBeHeld
    <3> QED
      BY <1>8, <3>3, <3>4 DEF ClearMarker
  <2>5. phase' = "recovering"
    BY <1>8 DEF ClearMarker
  <2> QED
    BY <1>0, <2>1, <2>3, <2>4, <2>5 DEF SurvivorsWait, WillBeHeld
<1>9. ASSUME Crash
      PROVE  SurvivorsWait'
  <2>1. /\ UNCHANGED <<marker, held, fired, lapsed>> /\ phase' = "down"
        /\ drain' = [t \in Threads |-> "none"]
    BY <1>9 DEF Crash, Stop
  <2>2. survivors' \subseteq Turns /\ \A q \in Turns : ThreadOf[q] \in Threads
    BY <1>0, <1>9, QueueConstants DEF Crash, TypeOK
  <2>3. ASSUME ~lapsed, NEW q \in survivors', ThreadOf[q] \notin held
        PROVE  ~marker
    BY <1>0, <1>9, <2>3 DEF Crash, MarkerIsCleared, SurvivorsWait, WillBeHeld, TypeOK
  <2> QED
    BY <1>0, <2>1, <2>2, <2>3 DEF SurvivorsWait, WillBeHeld
<1>10. ASSUME Quit
       PROVE  SurvivorsWait'
  <2>1. /\ UNCHANGED <<held, fired, survivors>> /\ phase' = "down"
        /\ drain' = [t \in Threads |-> "none"]
    BY <1>10 DEF Quit, Stop
  <2>2. \A q \in survivors : ThreadOf[q] \in Threads
    BY <1>0, QueueConstants DEF TypeOK
  <2>3. ~lapsed' => ~lapsed
    BY <1>10 DEF Quit
  <2>4. ASSUME ~lapsed', NEW q \in survivors, ThreadOf[q] \notin held
        PROVE  ~marker'
    BY <1>0, <1>10, <2>3, <2>4 DEF Quit, SurvivorsWait, WillBeHeld
  <2> QED
    BY <1>0, <2>1, <2>2, <2>3, <2>4 DEF SurvivorsWait, WillBeHeld
<1>11. CASE UNCHANGED vars
  BY <1>0, <1>11 DEF vars, start, drains, history, SurvivorsWait, WillBeHeld
<1> QED
  BY <1>1, <1>2, <1>3, <1>4, <1>5, <1>6, <1>7, <1>8, <1>9, <1>10, <1>11
     DEF Next, Client, Provider, Start

\* The inductive invariant behind crash recovery.
THEOREM QueueInvariance == Spec => []QueueInv
<1>1. ASSUME Init
      PROVE  ChosenOwn /\ DrainsWait /\ MarkerIsCleared /\ SurvivorsWait
  BY <1>1 DEF Init, ChosenOwn, DrainsWait, MarkerIsCleared, SurvivorsWait
<1>2. QueueInv /\ [Next]_vars => ChosenOwn' /\ DrainsWait' /\ MarkerIsCleared' /\ SurvivorsWait'
  BY ChosenStep, DrainsStep, MarkerStep, SurvivorsStep DEF QueueInv
<1>3. TypeOK /\ ChosenOwn /\ DrainsWait /\ MarkerIsCleared /\ SurvivorsWait => QueueInv
  BY DEF QueueInv
<1>4. QueueInv' <=> (TypeOK' /\ ChosenOwn' /\ DrainsWait' /\ MarkerIsCleared' /\ SurvivorsWait')
  BY DEF QueueInv
<1>5. Init => TypeOK
  BY InitType
<1>6. QueueInv /\ [Next]_vars => TypeOK'
  BY TypeStep DEF QueueInv
<1>7. Init => QueueInv
  BY <1>1, <1>3, <1>5
<1>8. QueueInv /\ [Next]_vars => QueueInv'
  BY <1>2, <1>4, <1>6
<1> QED
  BY <1>7, <1>8, PTL DEF Spec

\* A turn that was queued when the process died is not started by the reactor
\* before the user has released its queue, unless a clean exit was recorded
\* while it was not held (QueuedTurnReactor.ts, crash holds and the barrier).
THEOREM SurvivorsAreHeld == Spec => []CrashedTurnsWaitUnlessLapsed
<1>1. QueueInv => CrashedTurnsWaitUnlessLapsed
  BY DEF QueueInv, SurvivorsWait, CrashedTurnsWaitUnlessLapsed, CrashedTurnsWait
<1> QED
  BY <1>1, QueueInvariance, PTL

-----------------------------------------------------------------------------
(* Wake-ups *)

\* What the drain of a thread has left out are turns of the thread.
LeftOutOwn == \A t \in Threads : leftOut[t] \subseteq {q \in Turns : ThreadOf[q] = t}

\* Nothing has been asked of the thread's drain since it began.
Unheard(t) == t \notin wake \cup again

\* What the drain of t has read, it would read again.
ReadingIsCurrent(t) ==
  /\ chosen[t] # NoTurn => fate[chosen[t]] = "queued"
  /\ drain[t] = "verify" => ~Due(t)
  /\ drain[t] = "filter" /\ chosen[t] \in Monitored \cup {NoTurn} => ~Due(t)

\* A turn that is due has a drain, and a drain that hears of nothing new has
\* read what is there.
WakeUp(t) ==
  /\ Due(t) => t \in wake \/ drain[t] # "none"
  /\ Unheard(t) /\ drain[t] \notin {"none", "read"} => ReadingIsCurrent(t)

WakeUps == failures = 0 => \A t \in Threads : WakeUp(t)

WakeInv == QueueInv /\ LeftOutOwn /\ WakeUps

\* A queue has a first turn.
LEMMA FirstExists ==
  ASSUME TypeOK, NEW S \in SUBSET Turns, S # {}
  PROVE  \E q \in S : q \in First(S)
<1> DEFINE P == {pos[q] : q \in S}
<1>1. P \subseteq Nat /\ P # {}
  BY DEF TypeOK
<1>2. PICK n \in P : \A m \in P : ~(<<m, n>> \in OpToRel(<, Nat))
  <2>1. IsWellFoundedOn(OpToRel(<, Nat), Nat)
    BY NatLessThanWellFounded
  <2> HIDE DEF P
  <2> QED
    BY <1>1, <2>1, WFMin
<1>3. \A m \in P : n <= m
  <2> SUFFICES ASSUME NEW m \in P PROVE n <= m
    OBVIOUS
  <2>1. n \in Nat /\ m \in Nat
    BY <1>1
  <2>2. ~(m < n)
    BY <1>2, <2>1 DEF OpToRel
  <2> QED
    BY <2>1, <2>2
<1> QED
  BY <1>3 DEF First

\* The user's first turn is what a drain chooses, whatever of the monitor's it
\* leaves out.
LEMMA DueIsChosen ==
  ASSUME TypeOK, NEW t \in Threads, Due(t),
         NEW ruledOut \in SUBSET (Queued(t) \cap Monitored)
  PROVE  /\ First(Queued(t) \ ruledOut) # {}
         /\ First(Queued(t) \ ruledOut) \cap (failed \cup Monitored) = {}
<1>1. Queued(t) # {} /\ First(Queued(t)) \cap (failed \cup Monitored) = {}
  BY DEF Due
<1>2. PICK q \in Queued(t) : q \in First(Queued(t))
  BY <1>1, FirstExists DEF Queued
<1>3. q \notin Monitored /\ q \notin ruledOut
  BY <1>1, <1>2
<1>4. q \in First(Queued(t) \ ruledOut)
  BY <1>2, <1>3 DEF First
<1>5. ASSUME NEW r \in First(Queued(t) \ ruledOut) PROVE r \in First(Queued(t))
  <2>1. pos[r] <= pos[q] /\ pos[r] \in Nat /\ pos[q] \in Nat /\ r \in Queued(t)
    BY <1>2, <1>3, <1>5 DEF First, Queued, TypeOK
  <2>2. \A u \in Queued(t) : pos[q] <= pos[u] /\ pos[u] \in Nat
    BY <1>2 DEF First, Queued, TypeOK
  <2>3. \A u \in Queued(t) : pos[r] <= pos[u]
    BY <2>1, <2>2
  <2> QED
    BY <2>1, <2>3 DEF First
<1> QED
  BY <1>1, <1>4, <1>5

\* Every step keeps a drain from leaving out the turns of another thread.
LEMMA LeftOutStep == TypeOK /\ LeftOutOwn /\ [Next]_vars => LeftOutOwn'
<1> SUFFICES ASSUME TypeOK, LeftOutOwn, [Next]_vars
             PROVE  LeftOutOwn'
  OBVIOUS
<1>1. ASSUME NEW t \in Threads, NEW S \in SUBSET Turns, leftOut' = [leftOut EXCEPT ![t] = S],
             \A q \in S : ThreadOf[q] = t
      PROVE  LeftOutOwn'
  BY <1>1 DEF LeftOutOwn, TypeOK
<1>2. CASE leftOut' = leftOut
  BY <1>2 DEF LeftOutOwn
<1>3. ASSUME NEW t \in Threads, NEW b, EndDrain(t, b)
      PROVE  LeftOutOwn'
  <2>1. leftOut' = [leftOut EXCEPT ![t] = {}]
    BY <1>3 DEF EndDrain
  <2> QED
    BY <2>1 DEF LeftOutOwn, TypeOK
<1>4. ASSUME NEW t \in Threads, Read(t)
      PROVE  LeftOutOwn'
  <2>1. ASSUME ~EndDrain(t, FALSE)
        PROVE  \E S \in SUBSET (Queued(t) \cap Monitored) : leftOut' = [leftOut EXCEPT ![t] = S]
    BY <1>4, <2>1 DEF Read
  <2> QED
    BY <1>1, <1>3, <2>1 DEF Queued
<1>5. ASSUME NEW t \in Threads, DrainStep(t), ~Read(t), ~EndDrain(t, FALSE), ~EndDrain(t, TRUE)
      PROVE  leftOut' = leftOut \/ \E S \in SUBSET leftOut[t] : leftOut' = [leftOut EXCEPT ![t] = S]
  BY <1>5 DEF DrainStep, DropMonitored, Choose, Verify, Dispatch, AfterRefusal, FailTurn
<1>6. ASSUME NEW t \in Threads, DrainStep(t)
      PROVE  LeftOutOwn'
  <2>1. leftOut[t] \subseteq Turns /\ \A q \in leftOut[t] : ThreadOf[q] = t
    BY DEF LeftOutOwn
  <2> QED
    BY <1>1, <1>2, <1>3, <1>4, <1>5, <1>6, <2>1
<1>7. ASSUME NEW q \in Turns, Create(q) \/ Edit(q) \/ Delete(q) \/ DispatchByHand(q)
      PROVE  leftOut' = leftOut
  BY <1>7 DEF Create, Edit, Delete, DispatchByHand
<1>8. ASSUME NEW t \in Threads,
             \/ Reorder(t) \/ Release(t) \/ StartTurn(t) \/ ProviderStep(t) \/ Ask(t) \/ Respond(t)
             \/ DrainThread(t) \/ Sweep(t) \/ Hold(t) \/ RetryHold(t)
      PROVE  leftOut' = leftOut
  BY <1>8 DEF Reorder, Release, StartTurn, ProviderStep, Ask, Respond, drains, DrainThread, Sweep,
              Hold, RetryHold
<1>9. ASSUME Boot \/ ReadMarker \/ ClearMarker \/ OpenBarrier \/ UNCHANGED vars
      PROVE  leftOut' = leftOut
  BY <1>9 DEF Boot, ReadMarker, ClearMarker, OpenBarrier, vars, drains
<1>10. ASSUME Crash \/ Quit
       PROVE  LeftOutOwn'
  BY <1>10 DEF Crash, Quit, Stop, LeftOutOwn
<1> QED
  BY <1>2, <1>6, <1>7, <1>8, <1>9, <1>10 DEF Next, Client, Provider, Start

\* What decides whether the first turn of t is due is as it was.
InputsSame(t) ==
  /\ \A q \in Turns : ThreadOf[q] = t =>
       fate'[q] = fate[q] /\ pos'[q] = pos[q] /\ (q \in failed' <=> q \in failed)
  /\ t \in held' <=> t \in held
  /\ busy'[t] = busy[t]
  /\ t \in asking' <=> t \in asking
  /\ phase' = phase
  /\ t \in awaiting' <=> t \in awaiting

LEMMA SameDue ==
  ASSUME NEW t \in Threads, InputsSame(t)
  PROVE  Due(t)' <=> Due(t)
<1>1. Queued(t)' = Queued(t)
  BY DEF InputsSame, Queued
<1>2. First(Queued(t))' = First(Queued(t))
  BY <1>1 DEF InputsSame, First, Queued
<1>3. First(Queued(t)) \cap failed' = First(Queued(t)) \cap failed
  BY DEF InputsSame, First, Queued
<1>4. Ready(t)' <=> Ready(t)
  BY DEF InputsSame, Ready
<1> QED
  BY <1>1, <1>2, <1>3, <1>4 DEF InputsSame, Due

\* A thread that is woken, or that is not served, loses no wake-up.
LEMMA WokenIsHeard ==
  ASSUME NEW t \in Threads, t \in wake'
  PROVE  WakeUp(t)'
BY DEF WakeUp, Unheard

LEMMA KeptIsHeard ==
  ASSUME NEW t \in Threads, phase' # "open" \/ t \in awaiting', drain'[t] = "none"
  PROVE  WakeUp(t)'
BY DEF WakeUp, Due

\* A thread that a step does not concern loses no wake-up.
LEMMA SameIsHeard ==
  ASSUME WakeInv, NEW t \in Threads, WakeUp(t), InputsSame(t),
         drain'[t] = drain[t] /\ chosen'[t] = chosen[t],
         t \in wake => t \in wake',
         t \in again => t \in again'
  PROVE  WakeUp(t)'
<1>1. Due(t)' <=> Due(t)
  BY SameDue
<1>2. Due(t)' => t \in wake' \/ drain'[t] # "none"
  BY <1>1 DEF WakeUp
<1>3. ASSUME t \notin wake' \cup again', drain'[t] \notin {"none", "read"}
      PROVE  ReadingIsCurrent(t)'
  <2>1. ReadingIsCurrent(t)
    BY <1>3 DEF WakeUp, Unheard
  <2>2. chosen[t] # NoTurn => fate'[chosen[t]] = fate[chosen[t]]
    BY QueueConstants DEF WakeInv, QueueInv, ChosenOwn, TypeOK, InputsSame
  <2> QED
    BY <1>1, <2>1, <2>2 DEF ReadingIsCurrent
<1> QED
  BY <1>2, <1>3 DEF WakeUp, Unheard

\* A drain that ends leaves a turn that is due only if it hears of it.
LEMMA EndIsHeard ==
  ASSUME TypeOK, NEW t \in Threads, NEW b \in BOOLEAN, EndDrain(t, b),
         ~b /\ Unheard(t) => ~(Due(t))'
  PROVE  WakeUp(t)'
<1>1. drain'[t] = "none"
  BY DEF EndDrain, TypeOK
<1>2. b \/ ~Unheard(t) => t \in wake'
  BY DEF EndDrain, Unheard
<1> QED
  BY <1>1, <1>2 DEF WakeUp

\* A step concerns the thread that it wakes and no other, or is unseen by all.
Concerns(t) ==
  \A u \in Threads \ {t} :
    /\ InputsSame(u)
    /\ drain'[u] = drain[u] /\ chosen'[u] = chosen[u]
    /\ u \in wake => u \in wake'
    /\ u \in again => u \in again'

LEMMA ConcernsOne ==
  ASSUME WakeInv, failures = 0, NEW t, Concerns(t), t \in Threads => WakeUp(t)'
  PROVE  WakeUps'
BY SameIsHeard DEF Concerns, WakeInv, WakeUps

\* The client's commands and the provider's events concern the thread they are
\* about.
LEMMA TurnConcerns ==
  ASSUME TypeOK, NEW q \in Turns, Create(q) \/ Edit(q) \/ Delete(q) \/ DispatchByHand(q)
  PROVE  Concerns(ThreadOf[q]) /\ ThreadOf[q] \in wake'
<1>1. \A r \in Turns : r # q => fate'[r] = fate[r] /\ pos'[r] = pos[r] /\ (r \in failed' <=> r \in failed)
  BY DEF Create, Edit, Delete, DispatchByHand, StartQueued, Leave, TypeOK
<1>2. /\ UNCHANGED <<held, asking, phase, awaiting, drain, chosen, again>>
      /\ wake' = wake \cup {ThreadOf[q]}
  BY DEF Create, Edit, Delete, DispatchByHand, Woken, session, start
<1>3. \A u \in Threads : u # ThreadOf[q] => busy'[u] = busy[u]
  BY DEF Create, Edit, Delete, DispatchByHand, StartQueued, session, TypeOK
<1> QED
  BY <1>1, <1>2, <1>3 DEF Concerns, InputsSame

LEMMA ThreadConcerns ==
  ASSUME TypeOK, NEW t \in Threads,
         Reorder(t) \/ Release(t) \/ StartTurn(t) \/ ProviderStep(t) \/ Respond(t) \/ Sweep(t) \/ Ask(t)
  PROVE  /\ Concerns(t)
         /\ UNCHANGED <<phase, awaiting, drain, chosen, again, fate>>
<1>1. /\ UNCHANGED <<phase, awaiting, drain, chosen, again, fate, failed>>
      /\ wake \subseteq wake'
  BY DEF Reorder, Release, StartTurn, ProviderStep, Respond, Sweep, Ask, Woken, start, turns, drains
<1>2. \A q \in Turns : ThreadOf[q] # t => pos'[q] = pos[q]
  BY DEF Reorder, Release, StartTurn, ProviderStep, Respond, Sweep, Ask, Queued, turns
<1>3. \A u \in Threads : u # t => busy'[u] = busy[u] /\ (u \in held' <=> u \in held)
                                    /\ (u \in asking' <=> u \in asking)
  BY DEF Reorder, Release, StartTurn, ProviderStep, Respond, Sweep, Ask, session, TypeOK
<1> QED
  BY <1>1, <1>2, <1>3 DEF Concerns, InputsSame

\* So does a drain.
LEMMA DrainConcerns ==
  ASSUME WakeInv, NEW t \in Threads, DrainStep(t) \/ DrainThread(t)
  PROVE  Concerns(t) /\ UNCHANGED <<phase, awaiting, held, asking>>
<1>0. TypeOK /\ ChosenOwn /\ LeftOutOwn
  BY DEF WakeInv, QueueInv
<1>1. UNCHANGED <<phase, awaiting, held, asking>>
  BY DEF DrainStep, Read, DropMonitored, Choose, Verify, Dispatch, AfterRefusal, FailTurn,
         DrainThread, session, start
<1>2. \A u \in Threads \ {t} : /\ drain'[u] = drain[u] /\ chosen'[u] = chosen[u]
                               /\ u \in wake => u \in wake'
                               /\ u \in again => u \in again'
  BY <1>0 DEF DrainStep, Read, DropMonitored, Choose, Verify, Dispatch, AfterRefusal, FailTurn,
              DrainThread, EndDrain, Woken, TypeOK
<1>3. ASSUME NEW q \in Turns, ThreadOf[q] = t, Leave(q)
      PROVE  \A r \in Turns : ThreadOf[r] # t =>
               fate'[r] = fate[r] /\ pos'[r] = pos[r] /\ (r \in failed' <=> r \in failed)
  BY <1>0, <1>3 DEF Leave, TypeOK
<1>4. drain[t] \in {"verify", "dispatch", "refused", "fail"} =>
        chosen[t] \in Turns /\ ThreadOf[chosen[t]] = t
  BY <1>0, QueueConstants DEF TypeOK, ChosenOwn
<1>5. \A r \in Turns : ThreadOf[r] # t =>
        fate'[r] = fate[r] /\ pos'[r] = pos[r] /\ (r \in failed' <=> r \in failed)
  <2>1. CASE DropMonitored(t)
    <3>1. UNCHANGED turns \/ \E q \in leftOut[t] : Leave(q)
      BY <2>1 DEF DropMonitored
    <3>2. \A q \in leftOut[t] : q \in Turns /\ ThreadOf[q] = t
      BY <1>0 DEF LeftOutOwn
    <3> QED
      BY <1>3, <3>1, <3>2 DEF turns
  <2>2. CASE Verify(t)
    <3>1. \/ UNCHANGED turns
          \/ failed' = failed \ {chosen[t]} /\ UNCHANGED <<fate, pos>>
          \/ Leave(chosen[t])
      BY <2>2 DEF Verify
    <3>2. drain[t] = "verify"
      BY <2>2 DEF Verify
    <3> QED
      BY <1>3, <1>4, <3>1, <3>2 DEF turns
  <2>3. CASE Dispatch(t)
    <3>1. drain[t] = "dispatch" /\ (UNCHANGED turns \/ Leave(chosen[t]))
      BY <2>3 DEF Dispatch, StartQueued
    <3> QED
      BY <1>3, <1>4, <3>1 DEF turns
  <2>4. CASE FailTurn(t)
    <3>1. /\ drain[t] = "fail" /\ UNCHANGED <<fate, pos>>
          /\ failed' = failed \/ failed' = failed \cup {chosen[t]}
      BY <2>4 DEF FailTurn
    <3> QED
      BY <1>4, <3>1
  <2>5. CASE Read(t) \/ Choose(t) \/ AfterRefusal(t) \/ DrainThread(t)
    BY <2>5 DEF Read, Choose, AfterRefusal, DrainThread, turns
  <2> QED
    BY <2>1, <2>2, <2>3, <2>4, <2>5 DEF DrainStep
<1>6. \A u \in Threads : u # t => busy'[u] = busy[u]
  <2>1. CASE Dispatch(t)
    <3>1. UNCHANGED busy \/ busy' = [busy EXCEPT ![ThreadOf[chosen[t]]] = "pending"]
      BY <2>1 DEF Dispatch, StartQueued
    <3>2. drain[t] = "dispatch"
      BY <2>1 DEF Dispatch
    <3> QED
      BY <1>0, <1>4, <3>1, <3>2 DEF TypeOK
  <2>2. CASE ~Dispatch(t)
    BY <2>2 DEF DrainStep, Read, DropMonitored, Choose, Verify, AfterRefusal, FailTurn, DrainThread,
                session
  <2> QED
    BY <2>1, <2>2
<1> QED
  BY <1>1, <1>2, <1>5, <1>6 DEF Concerns, InputsSame

\* The thread whose drain takes a step hears of what is due.
LEMMA DrainHears ==
  ASSUME WakeInv, NEW t \in Threads, WakeUp(t), DrainStep(t), failures' = 0
  PROVE  WakeUp(t)'
<1>0. TypeOK /\ ChosenOwn /\ DrainsWait
  BY DEF WakeInv, QueueInv
<1>1. failures \in Nat /\ ~WriteMayFail
  BY <1>0 DEF TypeOK, WriteMayFail
<1>2. drain[t] \notin {"none", "read"} /\ Unheard(t) => ReadingIsCurrent(t)
  BY DEF WakeUp
<1>3. UNCHANGED <<turns, held, busy, asking, phase, awaiting>> => (Due(t)' <=> Due(t))
  BY SameDue DEF InputsSame, turns
<1>4. CASE Read(t)
  <2>1. Due(t)' <=> Due(t)
    BY <1>3, <1>4 DEF Read, session, start
  <2>2. CASE Queued(t) = {} \/ ~Ready(t)
    <3>1. EndDrain(t, FALSE) /\ ~Due(t)
      BY <1>4, <2>2 DEF Read, Due
    <3> QED
      BY <1>0, <2>1, <3>1, EndIsHeard
  <2>3. CASE ~(Queued(t) = {} \/ ~Ready(t))
    <3>1. PICK ruledOut \in SUBSET (Queued(t) \cap Monitored) :
            LET first == First(Queued(t) \ ruledOut)
            IN  \/ \E q \in first \ failed : chosen' = [chosen EXCEPT ![t] = q]
                \/ first \subseteq failed /\ chosen' = [chosen EXCEPT ![t] = NoTurn]
      BY <1>4, <2>3 DEF Read
    <3> DEFINE first == First(Queued(t) \ ruledOut)
    <3>2. drain'[t] = "filter" /\ fate' = fate
      BY <1>0, <1>4, <2>3 DEF Read, TypeOK, turns
    <3>3. Due(t) => first # {} /\ first \cap (failed \cup Monitored) = {}
      BY <1>0, DueIsChosen
    <3>4. first \subseteq Queued(t)
      BY DEF First
    <3> HIDE DEF first
    <3>5. \/ chosen'[t] \in first \ failed
          \/ first \subseteq failed /\ chosen'[t] = NoTurn
      BY <1>0, <3>1 DEF TypeOK, first
    <3>6. chosen'[t] # NoTurn => fate'[chosen'[t]] = "queued"
      BY <3>2, <3>4, <3>5 DEF Queued
    <3>7. chosen'[t] \in Monitored \cup {NoTurn} => ~Due(t)
      <4>1. \A q \in first : q # NoTurn
        BY <3>4, QueueConstants DEF Queued
      <4> QED
        BY <3>3, <3>5, <4>1
    <3>8. ReadingIsCurrent(t)'
      BY <2>1, <3>2, <3>6, <3>7 DEF ReadingIsCurrent
    <3> QED
      BY <3>2, <3>8 DEF WakeUp
  <2> QED
    BY <2>2, <2>3
<1>5. CASE DropMonitored(t)
  <2>1. PICK q \in leftOut[t] :
          /\ IF fate[q] = "queued"
             THEN Leave(q) /\ Woken(t)
             ELSE UNCHANGED <<turns, survivors, wake>>
          /\ UNCHANGED <<drain, again, chosen, failures>>
    BY <1>1, <1>5 DEF DropMonitored
  <2>2. CASE fate[q] = "queued"
    BY <2>1, <2>2, WokenIsHeard DEF Woken
  <2>3. CASE fate[q] # "queued"
    <3>1. UNCHANGED <<turns, wake, drain, again, chosen>>
      BY <2>1, <2>3
    <3>2. InputsSame(t)
      BY <1>5, <3>1 DEF DropMonitored, InputsSame, turns, session, start
    <3> QED
      BY <3>1, <3>2, SameIsHeard
  <2> QED
    BY <2>2, <2>3
<1>6. CASE Choose(t)
  <2>1. Due(t)' <=> Due(t)
    BY <1>3, <1>6 DEF Choose, session, start
  <2>2. CASE chosen[t] = NoTurn
    <3>1. EndDrain(t, FALSE) /\ (Unheard(t) => ~Due(t))
      BY <1>2, <1>6, <2>2 DEF Choose, ReadingIsCurrent
    <3> QED
      BY <1>0, <2>1, <3>1, EndIsHeard
  <2>3. CASE chosen[t] # NoTurn
    <3>1. /\ drain'[t] = IF chosen[t] \in Monitored THEN "verify" ELSE "dispatch"
          /\ UNCHANGED <<wake, again, chosen, fate>>
      BY <1>0, <1>6, <2>3 DEF Choose, TypeOK, turns
    <3>2. drain[t] = "filter" /\ (Unheard(t) => ReadingIsCurrent(t))
      BY <1>2, <1>6 DEF Choose
    <3>3. Unheard(t) => ReadingIsCurrent(t)'
      BY <2>1, <2>3, <3>1, <3>2 DEF ReadingIsCurrent
    <3> QED
      BY <3>1, <3>3 DEF WakeUp, Unheard
  <2> QED
    BY <2>2, <2>3
<1>7. CASE Verify(t)
  <2>1. drain[t] = "verify" /\ (Unheard(t) => ReadingIsCurrent(t) /\ ~Due(t))
    BY <1>2, <1>7 DEF Verify, ReadingIsCurrent
  <2>2. UNCHANGED <<held, busy, asking, phase, awaiting>>
    BY <1>7 DEF Verify, session, start
  <2>3. CASE EndDrain(t, TRUE)
    BY <1>0, <2>3, EndIsHeard
  <2>4. CASE EndDrain(t, FALSE) /\ UNCHANGED turns
    BY <1>0, <1>3, <2>1, <2>2, <2>4, EndIsHeard
  <2>5. CASE /\ drain' = [drain EXCEPT ![t] = "dispatch"]
             /\ wake' \in IF fate[chosen[t]] = "queued" THEN {wake, wake \cup {t}} ELSE {wake}
             /\ UNCHANGED <<again, leftOut, chosen, turns, survivors, failures>>
    <3>1. /\ drain'[t] = "dispatch" /\ wake \subseteq wake'
          /\ UNCHANGED <<again, chosen, fate>>
      BY <1>0, <2>5 DEF TypeOK, turns
    <3>2. Unheard(t) => ReadingIsCurrent(t)'
      BY <2>1, <3>1 DEF ReadingIsCurrent
    <3> QED
      BY <3>1, <3>2 DEF WakeUp, Unheard
  <2> QED
    BY <1>1, <1>7, <2>3, <2>4, <2>5 DEF Verify
<1>8. CASE Dispatch(t)
  <2>1. CASE EndDrain(t, TRUE)
    BY <1>0, <2>1, EndIsHeard
  <2>2. CASE ~EndDrain(t, TRUE)
    <3>1. /\ drain'[t] = "refused"
          /\ UNCHANGED <<wake, again, chosen, fate>>
      BY <1>0, <1>8, <2>2 DEF Dispatch, TypeOK, turns
    <3>2. Unheard(t) => ReadingIsCurrent(t)'
      BY <1>2, <1>8, <3>1 DEF ReadingIsCurrent, Dispatch
    <3> QED
      BY <3>1, <3>2 DEF WakeUp, Unheard
  <2> QED
    BY <2>1, <2>2
<1>9. CASE AfterRefusal(t)
  <2>1. Due(t)' <=> Due(t)
    BY <1>3, <1>9 DEF AfterRefusal, session, start
  <2>2. CASE ~Ready(t)
    <3>1. EndDrain(t, FALSE) /\ ~Due(t)
      BY <1>9, <2>2 DEF AfterRefusal, Due
    <3> QED
      BY <1>0, <2>1, <3>1, EndIsHeard
  <2>3. CASE Ready(t)
    <3>1. /\ drain'[t] = "fail"
          /\ UNCHANGED <<wake, again, chosen, fate>>
      BY <1>0, <1>9, <2>3 DEF AfterRefusal, TypeOK, turns
    <3>2. Unheard(t) => ReadingIsCurrent(t)'
      BY <1>2, <1>9, <3>1 DEF ReadingIsCurrent, AfterRefusal
    <3> QED
      BY <3>1, <3>2 DEF WakeUp, Unheard
  <2> QED
    BY <2>2, <2>3
<1>10. CASE FailTurn(t)
  <2>1. CASE EndDrain(t, TRUE)
    BY <1>0, <2>1, EndIsHeard
  <2>2. CASE ~EndDrain(t, TRUE)
    <3>1. drain[t] = "fail" /\ fate[chosen[t]] # "queued" /\ EndDrain(t, FALSE)
      BY <1>1, <1>10, <2>2 DEF FailTurn
    <3>2. chosen[t] # NoTurn
      BY <1>0, <3>1, QueueConstants DEF TypeOK
    <3>3. ~Unheard(t)
      BY <1>2, <3>1, <3>2 DEF ReadingIsCurrent
    <3> QED
      BY <1>0, <3>1, <3>3, EndIsHeard
  <2> QED
    BY <2>1, <2>2
<1> QED
  BY <1>4, <1>5, <1>6, <1>7, <1>8, <1>9, <1>10 DEF DrainStep

\* A request of a drain is granted or kept in mind.
LEMMA RequestIsHeard ==
  ASSUME WakeInv, NEW t \in Threads, WakeUp(t), DrainThread(t)
  PROVE  WakeUp(t)'
<1>0. TypeOK /\ DrainsWait
  BY DEF WakeInv, QueueInv
<1>1. CASE Kept(t)
  <2>1. /\ drain[t] = "none" /\ drain' = drain
        /\ UNCHANGED <<phase, awaiting>>
    BY <1>0, <1>1 DEF DrainThread, DrainsWait, start
  <2> QED
    BY <1>1, <2>1, KeptIsHeard DEF Kept
<1>2. CASE ~Kept(t) /\ drain[t] # "none"
  <2>1. again' = again \cup {t} /\ drain' = drain
    BY <1>2 DEF DrainThread
  <2> QED
    BY <1>2, <2>1 DEF WakeUp, Unheard
<1>3. CASE ~Kept(t) /\ drain[t] = "none"
  <2>1. drain'[t] = "read"
    BY <1>0, <1>3 DEF DrainThread, TypeOK
  <2> QED
    BY <2>1 DEF WakeUp
<1> QED
  BY <1>1, <1>2, <1>3

\* Every step keeps the wake-ups.
LEMMA WakeUpStep == WakeInv /\ [Next]_vars => WakeUps'
<1> SUFFICES ASSUME WakeInv, [Next]_vars, failures' = 0
             PROVE  WakeUps'
  BY DEF WakeUps
<1>0. TypeOK /\ DrainsWait
  BY DEF WakeInv, QueueInv
<1>1. failures = 0
  <2>1. CASE Client \/ Provider
    BY <2>1 DEF Client, Provider, counts, Create, Edit, Delete, DispatchByHand, Reorder, Release,
                StartTurn, ProviderStep, Ask, Respond
  <2>2. ASSUME NEW t \in Threads, DrainThread(t) \/ Sweep(t) \/ Hold(t) \/ RetryHold(t)
        PROVE  failures = 0
    BY <1>0, <2>2 DEF TypeOK, counts, DrainThread, Sweep, Hold, RetryHold, InstallHold, WriteMayFail
  <2>3. ASSUME NEW t \in Threads, DrainStep(t)
        PROVE  failures = 0
    <3>1. failures' = failures \/ failures' = failures + 1
      BY <2>3 DEF DrainStep, counts, Read, DropMonitored, Choose, Verify, Dispatch, AfterRefusal,
                  FailTurn, WriteMayFail
    <3> QED
      BY <1>0, <3>1 DEF TypeOK
  <2>4. CASE Boot \/ ReadMarker \/ ClearMarker \/ OpenBarrier \/ Crash \/ Quit \/ UNCHANGED vars
    BY <1>0, <2>4 DEF TypeOK, vars, counts, Boot, ReadMarker, ClearMarker, OpenBarrier, WriteMayFail,
                      Crash, Quit
  <2> QED
    BY <2>1, <2>2, <2>3, <2>4 DEF Next, Start
<1>2. \A t \in Threads : WakeUp(t)
  BY <1>1 DEF WakeInv, WakeUps
<1>3. ASSUME NEW q \in Turns, Create(q) \/ Edit(q) \/ Delete(q) \/ DispatchByHand(q)
      PROVE  WakeUps'
  BY <1>0, <1>1, <1>3, TurnConcerns, WokenIsHeard, ConcernsOne
<1>4. ASSUME NEW t \in Threads, t \in wake',
             Reorder(t) \/ Release(t) \/ StartTurn(t) \/ ProviderStep(t) \/ Respond(t) \/ Sweep(t)
      PROVE  WakeUps'
  BY <1>0, <1>1, <1>4, ThreadConcerns, WokenIsHeard, ConcernsOne
<1>5. ASSUME NEW t \in Threads,
             Reorder(t) \/ StartTurn(t) \/ ProviderStep(t) \/ Respond(t) \/ Sweep(t)
      PROVE  WakeUps'
  <2>1. t \in wake'
    BY <1>5 DEF Reorder, StartTurn, ProviderStep, Respond, Sweep, Woken
  <2> QED
    BY <1>4, <1>5, <2>1
<1>6. ASSUME NEW t \in Threads, Release(t)
      PROVE  WakeUps'
  <2>1. CASE t \in held
    BY <1>4, <1>6, <2>1 DEF Release
  <2>2. CASE t \notin held
    <3>1. /\ InputsSame(t) /\ drain' = drain /\ chosen' = chosen /\ wake' = wake /\ again' = again
      BY <1>6, <2>2 DEF Release, InputsSame, turns, session, start
    <3>2. WakeUp(t)'
      BY <1>2, <3>1, SameIsHeard
    <3> QED
      BY <1>0, <1>1, <1>6, <3>2, ThreadConcerns, ConcernsOne
  <2> QED
    BY <2>1, <2>2
<1>7. ASSUME NEW t \in Threads, Ask(t)
      PROVE  WakeUps'
  <2>1. /\ UNCHANGED <<drain, chosen, wake, again, fate>> /\ t \in asking'
    BY <1>7 DEF Ask, drains, turns
  <2>2. ~(Due(t))'
    BY <2>1 DEF Due, Ready
  <2>3. WakeUp(t)'
    BY <1>2, <2>1, <2>2 DEF WakeUp, Unheard, ReadingIsCurrent
  <2> QED
    BY <1>0, <1>1, <1>7, <2>3, ThreadConcerns, ConcernsOne
<1>8. ASSUME NEW t \in Threads, DrainThread(t)
      PROVE  WakeUps'
  BY <1>1, <1>2, <1>8, DrainConcerns, RequestIsHeard, ConcernsOne
<1>9. ASSUME NEW t \in Threads, DrainStep(t)
      PROVE  WakeUps'
  BY <1>1, <1>2, <1>9, DrainConcerns, DrainHears, ConcernsOne
<1>10. ASSUME NEW t \in Threads, RetryHold(t)
       PROVE  WakeUps'
  <2>1. /\ phase = "open" /\ t \in awaiting /\ InstallHold(t)
        /\ UNCHANGED <<turns, session, phase, drain, again, chosen>>
    BY <1>0, <1>1, <1>10 DEF RetryHold, WriteMayFail, TypeOK
  <2>2. drain[t] = "none"
    BY <1>0, <2>1 DEF DrainsWait, Kept
  <2>3. ~(Due(t))'
    <3>1. Queued(t) = {} \/ t \in held'
      BY <2>1 DEF InstallHold
    <3>2. Queued(t)' = Queued(t)
      BY <2>1 DEF Queued, turns
    <3> QED
      BY <3>1, <3>2 DEF Due, Ready
  <2>4. WakeUp(t)'
    BY <2>1, <2>2, <2>3 DEF WakeUp
  <2>5. Concerns(t)
    BY <2>1 DEF Concerns, InputsSame, InstallHold, Woken, turns, session
  <2> QED
    BY <1>1, <2>4, <2>5, ConcernsOne
<1>11. ASSUME phase' # "open", \A t \in Threads : drain'[t] = "none"
       PROVE  WakeUps'
  BY <1>11, KeptIsHeard DEF WakeUps
<1>12. ASSUME Boot \/ ReadMarker \/ ClearMarker \/ \E t \in Threads : Hold(t)
       PROVE  WakeUps'
  <2>1. phase # "open" /\ phase' # "open" /\ drain' = drain
    BY <1>12 DEF Boot, ReadMarker, ClearMarker, Hold, drains
  <2>2. \A t \in Threads : drain[t] = "none"
    BY <1>0, <2>1 DEF DrainsWait, Kept
  <2> QED
    BY <1>11, <2>1, <2>2
<1>13. ASSUME Crash \/ Quit
       PROVE  WakeUps'
  <2>1. phase' # "open" /\ drain' = [t \in Threads |-> "none"]
    BY <1>13 DEF Crash, Quit, Stop
  <2> QED
    BY <1>11, <2>1
<1>14. ASSUME OpenBarrier
       PROVE  WakeUps'
  <2>1. /\ phase # "open" /\ drain' = drain /\ fate' = fate /\ wake' = wake \cup Candidates
    BY <1>14 DEF OpenBarrier, turns
  <2>2. \A t \in Threads : drain[t] = "none"
    BY <1>0, <2>1 DEF DrainsWait, Kept
  <2>3. ASSUME NEW t \in Threads PROVE WakeUp(t)'
    <3>1. (Due(t))' => Queued(t) # {}
      BY <2>1 DEF Due, Queued
    <3> QED
      BY <2>1, <2>2, <3>1 DEF WakeUp, Candidates
  <2> QED
    BY <2>3 DEF WakeUps
<1>15. CASE UNCHANGED vars
  <2>1. ASSUME NEW t \in Threads PROVE WakeUp(t)'
    <3>1. InputsSame(t) /\ UNCHANGED <<drain, chosen, wake, again>>
      BY <1>15 DEF vars, turns, session, start, drains, InputsSame
    <3> QED
      BY <1>2, <3>1, SameIsHeard
  <2> QED
    BY <2>1 DEF WakeUps
<1> QED
  BY <1>3, <1>5, <1>6, <1>7, <1>8, <1>9, <1>10, <1>12, <1>13, <1>14, <1>15
     DEF Next, Client, Provider, Start

\* No wake-up is lost: as long as no write has failed, a turn that is due has a
\* drain under way or about to begin, however events, drains, holds and exits
\* interleave (QueuedTurnReactor.ts drainThread).
THEOREM WakeUpsAreKept == Spec => []NoWakeUpIsLost
<1>1. Init => LeftOutOwn /\ WakeUps
  BY DEF Init, LeftOutOwn, WakeUps, WakeUp, Due
<1>2. QueueInv /\ LeftOutOwn /\ WakeUps /\ [Next]_vars => LeftOutOwn' /\ WakeUps'
  BY LeftOutStep, WakeUpStep DEF WakeInv, QueueInv
<1>3. WakeUps => NoWakeUpIsLost
  BY DEF WakeUps, WakeUp, NoWakeUpIsLost
<1> QED
  BY <1>1, <1>2, <1>3, QueueInvariance, PTL DEF Spec
=============================================================================
