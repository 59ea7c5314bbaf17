----------------------------- MODULE QueuedTurns -----------------------------
(***************************************************************************)
(* The queue of turns of a thread and the reactor that dispatches it       *)
(* (apps/server/src/orchestration/Layers/QueuedTurnReactor.ts, with the    *)
(* decider's and the projector's rules for queued turns).                  *)
(*                                                                         *)
(* Clients and the pull request monitor queue turns; the reactor starts    *)
(* the first one when its thread is ready.  A domain event makes it drain  *)
(* the thread: read the read model, choose a turn, for a monitor's turn    *)
(* ask the network whether it is still wanted, and dispatch.  Drains of a  *)
(* thread are coalesced, and everything else goes on between their steps.  *)
(* After an unclean exit, told by a durable marker, every queue is held    *)
(* until the user releases it; no thread is drained before its hold is     *)
(* installed, and a hold that failed is tried again by a sweep.            *)
(*                                                                         *)
(* Abstractions.  A command is one atomic step on the current read model   *)
(* (OrchestrationEngine is the reason), or a failing one.  Threads have no *)
(* delegation, so there are no child nudges.  A turn is its status and its *)
(* queuePosition; its text is left out.                                    *)
(***************************************************************************)
EXTENDS Integers, FiniteSets

CONSTANTS
  Threads,
  Turns,        \* the turns that are ever queued
  ThreadOf,     \* Turns -> Threads
  Monitored,    \* the turns of the pull request monitor
  MaxFailures,  \* bound on the writes that fail
  MaxCrashes,   \* bound on the unclean exits
  MaxQuits      \* bound on the graceful exits

NoTurn == "none"

ASSUME QueueConstants ==
  /\ IsFiniteSet(Turns) /\ NoTurn \notin Turns
  /\ ThreadOf \in [Turns -> Threads]
  /\ Monitored \subseteq Turns
  /\ MaxFailures \in Nat /\ MaxCrashes \in Nat /\ MaxQuits \in Nat

VARIABLES
  fate,       \* durable: what became of a turn
  pos,        \* durable: its queuePosition
  failed,     \* durable: the queued turns with a failedAt
  held,       \* durable: the threads with a queueHeldAt
  busy,       \* deriveThreadBusyState of a thread
  asking,     \* the threads with a pending approval or user input
  marker,     \* durable: the previous process exited cleanly
  phase,      \* how far the start of the process has got
  verdict,    \* what beginSession has read
  awaiting,   \* awaitingHold: threads whose crash hold is not installed
  toHold,     \* the candidates holdQueuedThreadsAfterCrash has not reached
  wake,       \* threads with an unhandled event, or a forked drain not begun
  drain,      \* where the drain of a thread is
  again,      \* pendingThreadIds: drain once more when this one is over
  leftOut,    \* the monitor's turns the drain has read and will not choose
  chosen,     \* nextQueuedTurn, from the read of the queue on
  failures, crashes, quits,
  survivors,  \* history: the queued turns that were when the process died, and
              \* whose queue the user has not released since
  fired,      \* history: the survivors the reactor has started
  lapsed      \* history: a clean exit is on record although a queue of
              \* survivors is not held, or although this process may die

turns   == <<fate, pos, failed>>
session == <<busy, asking>>
start   == <<marker, phase, verdict, awaiting, toHold>>
drains  == <<wake, drain, again, leftOut, chosen>>
counts  == <<failures, crashes, quits>>
history == <<survivors, fired, lapsed>>
vars == <<turns, held, session, start, drains, counts, history>>

Init ==
  /\ fate = [q \in Turns |-> "new"]
  /\ pos = [q \in Turns |-> 0]
  /\ failed = {}
  /\ held = {}
  /\ busy = [t \in Threads |-> "idle"]
  /\ asking = {}
  /\ marker = FALSE
  /\ phase = "down"
  /\ verdict = FALSE
  /\ awaiting = {} /\ toHold = {}
  /\ wake = {}
  /\ drain = [t \in Threads |-> "none"]
  /\ again = {}
  /\ leftOut = [t \in Threads |-> {}]
  /\ chosen = [t \in Threads |-> NoTurn]
  /\ failures = 0 /\ crashes = 0 /\ quits = 0
  /\ survivors = {} /\ fired = {} /\ lapsed = FALSE

-----------------------------------------------------------------------------
(* Rules of the decider and the projector *)

Queued(t) == {q \in Turns : ThreadOf[q] = t /\ fate[q] = "queued"}

\* compareQueuedTurns: the first turn of S by position (NoTwoTurnsTie).
First(S) == {q \in S : \A r \in S : pos[q] <= pos[r]}

\* Fault: the position is the highest one.
HighestPosition(t) ==
  {n \in 0..Cardinality(Turns) :
     /\ \A q \in Queued(t) : pos[q] <= n
     /\ n > 0 => \E q \in Queued(t) : pos[q] = n}

\* nextQueuePosition: one past the highest position.
NextPosition(t) ==
  {n \in 0..Cardinality(Turns) :
     /\ \A q \in Queued(t) : pos[q] < n
     /\ n > 0 => \E q \in Queued(t) : pos[q] = n - 1}

\* isThreadReadyForQueuedDispatch
Ready(t) == t \notin held /\ busy[t] = "idle" /\ t \notin asking

\* A turn leaves its queue; the projector drops its row.
Leave(q) ==
  /\ fate' = [fate EXCEPT ![q] = "gone"]
  /\ pos' = [pos EXCEPT ![q] = 0]
  /\ failed' = failed \ {q}
  /\ survivors' = survivors \ {q}

\* thread.queued-turn.dispatch as the decider accepts it: the turn exists, no
\* turn is in flight and it has not failed.  The hold is not looked at.
CanStart(q) ==
  /\ fate[q] = "queued"
  /\ busy[ThreadOf[q]] = "idle"
  /\ q \notin failed

StartQueued(q) ==
  /\ Leave(q)
  /\ busy' = [busy EXCEPT ![ThreadOf[q]] = "pending"]

WriteMayFail ==
  /\ failures < MaxFailures
  /\ failures' = failures + 1

Woken(t) == wake' = wake \cup {t}

-----------------------------------------------------------------------------
(* Clients (served once the start is over), the monitor and the provider *)

Serving == phase = "open"

\* thread.queued-turn.create.  The monitor delivers during the start as well.
Create(q) ==
  /\ phase # "down" /\ (q \in Monitored \/ Serving)
  /\ fate[q] = "new"
  /\ fate' = [fate EXCEPT ![q] = "queued"]
  /\ \E n \in NextPosition(ThreadOf[q]) : pos' = [pos EXCEPT ![q] = n]
  /\ Woken(ThreadOf[q])
  /\ UNCHANGED <<failed, held, session, start, drain, again, leftOut, chosen, counts, history>>

\* thread.queued-turn.update: an edited turn is no longer failed.
Edit(q) ==
  /\ Serving /\ fate[q] = "queued"
  /\ failed' = failed \ {q}
  /\ Woken(ThreadOf[q])
  /\ UNCHANGED <<fate, pos, held, session, start, drain, again, leftOut, chosen, counts, history>>

\* thread.queued-turn.delete.  The hold of the thread stays.
Delete(q) ==
  /\ Serving /\ fate[q] = "queued"
  /\ Leave(q)
  /\ Woken(ThreadOf[q])
  /\ UNCHANGED <<held, session, start, drain, again, leftOut, chosen, counts, fired, lapsed>>

\* thread.queued-turn.reorder: a permutation of the whole queue.
Reorder(t) ==
  /\ Serving
  /\ \E p \in [Queued(t) -> 0..(Cardinality(Queued(t)) - 1)] :
       /\ \A q, r \in Queued(t) : p[q] = p[r] => q = r
       /\ pos' = [q \in Turns |-> IF q \in Queued(t) THEN p[q] ELSE pos[q]]
  /\ Woken(t)
  /\ UNCHANGED <<fate, failed, held, session, start, drain, again, leftOut, chosen, counts, history>>

\* thread.queue.release; a queue that is not held decides as nothing.
Release(t) ==
  /\ Serving
  /\ held' = held \ {t}
  /\ wake' = IF t \in held THEN wake \cup {t} ELSE wake
  /\ survivors' = {q \in survivors : ThreadOf[q] # t}
  /\ UNCHANGED <<turns, session, start, drain, again, leftOut, chosen, counts, fired, lapsed>>

\* "chat queue dispatch" of the command line: the user starts a queued turn.
DispatchByHand(q) ==
  /\ Serving /\ CanStart(q)
  /\ StartQueued(q)
  /\ Woken(ThreadOf[q])
  /\ UNCHANGED <<held, asking, start, drain, again, leftOut, chosen, counts, fired, lapsed>>

\* thread.turn.start of a message that was not queued.
StartTurn(t) ==
  /\ Serving /\ busy[t] = "idle"
  /\ busy' = [busy EXCEPT ![t] = "pending"]
  /\ Woken(t)
  /\ UNCHANGED <<turns, held, asking, start, drain, again, leftOut, chosen, counts, history>>

\* The provider takes the turn, fails to start it, or ends it; after a restart
\* the session reaper ends a turn that was left running.
ProviderStep(t) ==
  /\ phase # "down"
  /\ \/ busy[t] = "pending" /\ busy' = [busy EXCEPT ![t] = "running"]
     \/ busy[t] # "idle" /\ busy' = [busy EXCEPT ![t] = "idle"]
  /\ Woken(t)
  /\ UNCHANGED <<turns, held, asking, start, drain, again, leftOut, chosen, counts, history>>

\* approval.requested or user-input.requested does not wake the reactor.
Ask(t) ==
  /\ phase # "down" /\ busy[t] = "running"
  /\ asking' = asking \cup {t}
  /\ UNCHANGED <<turns, held, busy, start, drains, counts, history>>

Respond(t) ==
  /\ phase # "down" /\ t \in asking
  /\ asking' = asking \ {t}
  /\ Woken(t)
  /\ UNCHANGED <<turns, held, busy, start, drain, again, leftOut, chosen, counts, history>>

-----------------------------------------------------------------------------
(* Drains *)

\* Fault: only the barrier keeps a thread from being drained.
KeptByBarrier(t) == phase # "open"

\* drainThread refuses the thread.
Kept(t) == phase # "open" \/ t \in awaiting

\* An event is handled, or a forked drain begins: drainThread.
DrainThread(t) ==
  /\ phase # "down" /\ t \in wake
  /\ wake' = wake \ {t}
  /\ \/ /\ Kept(t)
        /\ UNCHANGED <<drain, again>>
     \/ /\ ~Kept(t) /\ drain[t] # "none"
        /\ again' = again \cup {t}
        /\ UNCHANGED drain
     \/ /\ ~Kept(t) /\ drain[t] = "none"
        /\ drain' = [drain EXCEPT ![t] = "read"]
        /\ UNCHANGED again
  /\ UNCHANGED <<leftOut, chosen, turns, held, session, start, counts, history>>

\* Fault: the request that came during the drain is not honoured.
EndDrainForgets(t, published) ==
  /\ drain' = [drain EXCEPT ![t] = "none"]
  /\ chosen' = [chosen EXCEPT ![t] = NoTurn]
  /\ leftOut' = [leftOut EXCEPT ![t] = {}]
  /\ again' = again \ {t}
  /\ wake' = IF published THEN wake \cup {t} ELSE wake

\* The ensuring of drainThread: the mark is removed, and a drain that was
\* requested meanwhile is forked.  published: the last step wrote an event.
EndDrain(t, published) ==
  /\ drain' = [drain EXCEPT ![t] = "none"]
  /\ chosen' = [chosen EXCEPT ![t] = NoTurn]
  /\ leftOut' = [leftOut EXCEPT ![t] = {}]
  /\ again' = again \ {t}
  /\ wake' = IF published \/ t \in again THEN wake \cup {t} ELSE wake

\* drainThreadOnce reads the read model.  Of its turns, but for those of the
\* monitor that the network or the settings rule out (the answers are drawn
\* here and acted on in the next steps), the drain takes the first; a failed one
\* stops it.
Read(t) ==
  /\ drain[t] = "read"
  /\ IF Queued(t) = {} \/ ~Ready(t)
     THEN EndDrain(t, FALSE)
     ELSE /\ \E ruledOut \in SUBSET (Queued(t) \cap Monitored) :
               LET first == First(Queued(t) \ ruledOut)
               IN  /\ leftOut' = [leftOut EXCEPT ![t] = ruledOut]
                   /\ \/ \E q \in first \ failed : chosen' = [chosen EXCEPT ![t] = q]
                      \/ first \subseteq failed /\ chosen' = [chosen EXCEPT ![t] = NoTurn]
          /\ drain' = [drain EXCEPT ![t] = "filter"]
          /\ UNCHANGED <<wake, again>>
  /\ UNCHANGED <<turns, held, session, start, counts, history>>

\* automationDeliveryState says that a monitor's turn is terminal or that its
\* owner changed: it is deleted (a no-op if it is gone), or the drain fails.
DropMonitored(t) ==
  /\ drain[t] = "filter"
  /\ \/ \E q \in leftOut[t] :
          /\ IF fate[q] = "queued"
             THEN Leave(q) /\ Woken(t)
             ELSE UNCHANGED <<turns, survivors, wake>>
          /\ leftOut' = [leftOut EXCEPT ![t] = @ \ {q}]
          /\ UNCHANGED <<drain, again, chosen, failures>>
     \/ /\ leftOut[t] # {}
        /\ WriteMayFail
        /\ EndDrain(t, FALSE)
        /\ UNCHANGED <<turns, survivors>>
  /\ UNCHANGED <<held, session, start, crashes, quits, fired, lapsed>>

\* The other turns of the monitor stay in the queue.
Choose(t) ==
  /\ drain[t] = "filter"
  /\ IF chosen[t] = NoTurn
     THEN EndDrain(t, FALSE)
     ELSE /\ drain' = [drain EXCEPT ![t] =
                        IF chosen[t] \in Monitored THEN "verify" ELSE "dispatch"]
          /\ leftOut' = [leftOut EXCEPT ![t] = {}]
          /\ UNCHANGED <<wake, again, chosen>>
  /\ UNCHANGED <<turns, held, session, start, counts, history>>

\* monitorSnapshot asks the network about the monitor's turn.  The turn goes on
\* as it is or refreshed; or it is deferred, deleted, or left because it was
\* deferred before; or one of these commands fails.
Verify(t) ==
  /\ drain[t] = "verify"
  /\ \/ /\ drain' = [drain EXCEPT ![t] = "dispatch"]
        /\ wake' \in IF fate[chosen[t]] = "queued" THEN {wake, wake \cup {t}} ELSE {wake}
        /\ UNCHANGED <<again, leftOut, chosen, turns, survivors, failures>>
     \/ /\ fate[chosen[t]] = "queued"
        /\ \/ failed' = failed \ {chosen[t]} /\ UNCHANGED <<fate, pos, survivors>>
           \/ Leave(chosen[t])
        /\ EndDrain(t, TRUE)
        /\ UNCHANGED failures
     \/ EndDrain(t, FALSE) /\ UNCHANGED <<turns, survivors, failures>>
     \/ EndDrain(t, FALSE) /\ WriteMayFail /\ UNCHANGED <<turns, survivors>>
  /\ UNCHANGED <<held, session, start, crashes, quits, fired, lapsed>>

\* thread.queued-turn.dispatch commits, or is refused, or fails.
Dispatch(t) ==
  /\ drain[t] = "dispatch"
  /\ \/ /\ CanStart(chosen[t])
        /\ StartQueued(chosen[t])
        /\ fired' = fired \cup ({chosen[t]} \cap survivors)
        /\ EndDrain(t, TRUE)
        /\ UNCHANGED failures
     \/ /\ \/ ~CanStart(chosen[t]) /\ UNCHANGED failures
           \/ WriteMayFail
        /\ drain' = [drain EXCEPT ![t] = "refused"]
        /\ UNCHANGED <<turns, busy, wake, again, leftOut, chosen, survivors, fired>>
  /\ UNCHANGED <<held, asking, start, crashes, quits, lapsed>>

\* The latest read model tells a race (the thread is not ready any more) from a
\* turn that cannot be dispatched.
AfterRefusal(t) ==
  /\ drain[t] = "refused"
  /\ IF Ready(t)
     THEN /\ drain' = [drain EXCEPT ![t] = "fail"]
          /\ UNCHANGED <<wake, again, leftOut, chosen>>
     ELSE EndDrain(t, FALSE)
  /\ UNCHANGED <<turns, held, session, start, counts, history>>

\* Fault: a turn that is gone can be marked as failed.
FailTurnUnchecked(t) ==
  /\ drain[t] = "fail"
  /\ failed' = failed \cup {chosen[t]}
  /\ EndDrain(t, TRUE)
  /\ UNCHANGED <<failures, fate, pos, held, session, start, crashes, quits, history>>

\* thread.queued-turn.fail
FailTurn(t) ==
  /\ drain[t] = "fail"
  /\ \/ /\ fate[chosen[t]] = "queued"
        /\ failed' = failed \cup {chosen[t]}
        /\ EndDrain(t, TRUE)
        /\ UNCHANGED failures
     \/ /\ \/ fate[chosen[t]] # "queued" /\ UNCHANGED failures
           \/ WriteMayFail
        /\ EndDrain(t, FALSE)
        /\ UNCHANGED failed
  /\ UNCHANGED <<fate, pos, held, session, start, crashes, quits, history>>

DrainStep(t) ==
  \/ Read(t) \/ DropMonitored(t) \/ Choose(t) \/ Verify(t)
  \/ Dispatch(t) \/ AfterRefusal(t) \/ FailTurn(t)

\* Fault: the sweep looks at the turns of the monitor only.
SweepMonitored(t) ==
  /\ phase = "open"
  /\ Queued(t) \cap Monitored # {}
  /\ Woken(t)
  /\ UNCHANGED <<turns, held, session, start, drain, again, leftOut, chosen, counts, history>>

\* drainQueuedThreads: every 20 seconds and when the settings change.
Sweep(t) ==
  /\ phase = "open"
  /\ Queued(t) # {}
  /\ Woken(t)
  /\ UNCHANGED <<turns, held, session, start, drain, again, leftOut, chosen, counts, history>>

-----------------------------------------------------------------------------
(* Start *)

\* Pending turn starts are deleted when the projections are bootstrapped.
Boot ==
  /\ phase = "down"
  /\ phase' = "starting"
  /\ busy' = [t \in Threads |-> IF busy[t] = "pending" THEN "idle" ELSE busy[t]]
  /\ UNCHANGED <<turns, held, asking, marker, verdict, awaiting, toHold, drains, counts, history>>

\* beginSession reads the marker ...
ReadMarker ==
  /\ phase = "starting"
  /\ phase' = "clearing"
  /\ verdict' = marker
  /\ UNCHANGED <<turns, held, session, marker, awaiting, toHold, drains, counts, history>>

\* holdQueuedThreadsAfterCrash: the threads with queued turns.
Candidates == {t \in Threads : Queued(t) # {}}

\* ... and clears it.  If it cannot do either, the exit counts as unclean.
ClearMarker ==
  /\ \/ /\ phase = "clearing"
        /\ marker' = FALSE
        /\ verdict' = FALSE
        /\ awaiting' = IF verdict THEN {} ELSE Candidates
        /\ UNCHANGED <<failures, lapsed>>
     \/ /\ phase \in {"starting", "clearing"}
        /\ WriteMayFail
        /\ verdict' = FALSE
        /\ awaiting' = Candidates
        /\ lapsed' = (lapsed \/ marker)
        /\ UNCHANGED marker
  /\ toHold' = awaiting'
  /\ phase' = "recovering"
  /\ UNCHANGED <<turns, held, session, drains, crashes, quits, survivors, fired>>

\* thread.queue.hold; an empty or held queue decides as nothing.
InstallHold(t) ==
  /\ awaiting' = awaiting \ {t}
  /\ IF Queued(t) # {} /\ t \notin held
     THEN held' = held \cup {t} /\ Woken(t)
     ELSE UNCHANGED <<held, wake>>
  /\ UNCHANGED failures

\* holdThreadAfterCrash at the start: one thread after the other.
Hold(t) ==
  /\ phase = "recovering" /\ t \in toHold
  /\ toHold' = toHold \ {t}
  /\ \/ InstallHold(t)
     \/ WriteMayFail /\ UNCHANGED <<held, awaiting, wake>>
  /\ UNCHANGED <<turns, session, marker, phase, verdict, drain, again, leftOut, chosen,
                 crashes, quits, history>>

\* retryFailedCrashHolds
RetryHold(t) ==
  /\ phase = "open" /\ t \in awaiting
  /\ \/ InstallHold(t)
     \/ WriteMayFail /\ UNCHANGED <<held, awaiting, wake>>
  /\ UNCHANGED <<turns, session, marker, phase, verdict, toHold, drain, again, leftOut, chosen,
                 crashes, quits, history>>

\* recoveryBarrierOpen = true, and every thread with queued turns is drained.
OpenBarrier ==
  /\ phase = "recovering" /\ toHold = {}
  /\ phase' = "open"
  /\ wake' = wake \cup Candidates
  /\ UNCHANGED <<turns, held, session, marker, verdict, awaiting, toHold,
                 drain, again, leftOut, chosen, counts, history>>

-----------------------------------------------------------------------------
(* Exit *)

\* What was in memory is gone.
Stop ==
  /\ phase' = "down"
  /\ verdict' = FALSE
  /\ awaiting' = {} /\ toHold' = {}
  /\ wake' = {} /\ again' = {}
  /\ drain' = [t \in Threads |-> "none"]
  /\ leftOut' = [t \in Threads |-> {}]
  /\ chosen' = [t \in Threads |-> NoTurn]

\* The process dies.  Before it has begun its session nothing can have run.
Crash ==
  /\ phase # "down" /\ crashes < MaxCrashes
  /\ crashes' = crashes + 1
  /\ Stop
  /\ survivors' = IF phase \in {"starting", "clearing"}
                  THEN survivors ELSE {q \in Turns : fate[q] = "queued"}
  /\ UNCHANGED <<turns, held, session, marker, failures, quits, fired, lapsed>>

\* A graceful exit, at any point of the start as well: the reactors stop and the
\* finalizer of the runtime records it (recordCleanShutdown), unless that fails.
Quit ==
  /\ phase # "down" /\ quits < MaxQuits
  /\ quits' = quits + 1
  /\ Stop
  /\ \/ /\ marker' = TRUE
        /\ lapsed' = (lapsed \/ \E q \in survivors : ThreadOf[q] \notin held)
        /\ UNCHANGED failures
     \/ WriteMayFail /\ UNCHANGED <<marker, lapsed>>
  /\ UNCHANGED <<turns, held, session, crashes, survivors, fired>>

Client ==
  \/ \E q \in Turns : Create(q) \/ Edit(q) \/ Delete(q) \/ DispatchByHand(q)
  \/ \E t \in Threads : Reorder(t) \/ Release(t) \/ StartTurn(t)

Provider == \E t \in Threads : ProviderStep(t) \/ Ask(t) \/ Respond(t)

Start == Boot \/ ReadMarker \/ ClearMarker \/ OpenBarrier \/ \E t \in Threads : Hold(t)

Next ==
  \/ Client
  \/ Provider
  \/ \E t \in Threads : DrainThread(t) \/ DrainStep(t) \/ Sweep(t) \/ RetryHold(t)
  \/ Start
  \/ Crash
  \/ Quit

Spec == Init /\ [][Next]_vars

\* The fibers of the reactor run, its commands and network calls end (they have
\* timeouts) and its sweep repeats.  Users, providers and exits owe nothing.
FairSpec ==
  /\ Spec
  /\ \A t \in Threads :
       WF_vars(DrainThread(t)) /\ WF_vars(DrainStep(t)) /\ WF_vars(Sweep(t))

-----------------------------------------------------------------------------
(* Properties *)

Stages == {"none", "read", "filter", "verify", "dispatch", "refused", "fail"}

\* Every variable stays in its domain; only a queued turn is marked as failed.
TypeOK ==
  /\ fate \in [Turns -> {"new", "queued", "gone"}]
  /\ pos \in [Turns -> Nat]
  /\ failed \subseteq {q \in Turns : fate[q] = "queued"}
  /\ held \subseteq Threads
  /\ busy \in [Threads -> {"idle", "pending", "running"}]
  /\ asking \subseteq Threads
  /\ marker \in BOOLEAN /\ verdict \in BOOLEAN
  /\ phase \in {"down", "starting", "clearing", "recovering", "open"}
  /\ toHold \subseteq Threads /\ awaiting \subseteq Threads
  /\ wake \subseteq Threads /\ again \subseteq Threads
  /\ drain \in [Threads -> Stages]
  /\ leftOut \in [Threads -> SUBSET Turns]
  /\ chosen \in [Threads -> Turns \cup {NoTurn}]
  /\ \A t \in Threads :
       drain[t] \in {"verify", "dispatch", "refused", "fail"} => chosen[t] \in Turns
  /\ failures \in Nat /\ crashes \in Nat /\ quits \in Nat
  /\ survivors \subseteq {q \in Turns : fate[q] = "queued"} /\ fired \subseteq Turns
  /\ lapsed \in BOOLEAN

\* The order of a queue is total whatever is created, deleted and reordered.
NoTwoTurnsTie ==
  \A q, r \in Turns :
    /\ fate[q] = "queued" /\ fate[r] = "queued" /\ ThreadOf[q] = ThreadOf[r]
    /\ pos[q] = pos[r]
    => q = r

\* QueuedTurnReactor.ts:687 "no drain can slip past before the hold is durable":
\* a turn that was queued when the process died is not started by the reactor
\* before the user has released its queue.
CrashedTurnsWait == fired = {}

\* So it is as long as no graceful exit was put on record in between while the
\* queue was not held, and the marker could be cleared.
CrashedTurnsWaitUnlessLapsed == ~lapsed => CrashedTurnsWait

\* The first turn of t is one the reactor has to start.
Due(t) ==
  /\ phase = "open" /\ t \notin awaiting /\ Ready(t)
  /\ Queued(t) # {}
  /\ First(Queued(t)) \cap (failed \cup Monitored) = {}

\* No wake-up is lost: without a write that failed, a turn that is due has a
\* drain under way or about to begin, and need not wait for the sweep.
NoWakeUpIsLost ==
  \A t \in Threads : failures = 0 /\ Due(t) => t \in wake \/ drain[t] # "none"

\* Whatever writes fail, a turn that is due is started, marked as failed, or
\* overtaken by an event that changes what is due.
DueTurnsAreStarted ==
  \A t \in Threads : Due(t) ~> ~Due(t)
=============================================================================
