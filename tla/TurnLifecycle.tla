----------------------------- MODULE TurnLifecycle -----------------------------
(***************************************************************************)
(* The turns of one chat, from the message of the user to the end of the   *)
(* provider's turn, and the five writers of the chat's session:            *)
(*   - "worker", the keyed worker of ProviderCommandReactor, which handles *)
(*     the chat's starts, interrupts and stops one at a time;              *)
(*   - one fiber for each turn, forked by the worker, which sends it;      *)
(*   - "stream", the loop that reads the domain events, fills the worker   *)
(*     and itself interrupts a turn cancelled before it was announced;     *)
(*   - "ingestion", ProviderRuntimeIngestion, which turns the events of    *)
(*     the provider into session updates;                                  *)
(*   - "reaper", ProviderSessionReaper, which ends turns no provider runs  *)
(*     and stops sessions nobody uses.                                     *)
(* None of them locks anything.  Each reads the read model, decides, and   *)
(* dispatches a whole session, which is committed later: `write` is what a *)
(* writer has decided on, and Commit the engine's part.                    *)
(*                                                                         *)
(* Abstractions.  A turn is the message that asked for it.  Of the session *)
(* the status and the active turn are kept; the turn state shown with it   *)
(* follows from these (ProjectionPolicy.ts 76).  The checkpoint taken      *)
(* beside the session's boot changes none of this.  A terminal event names *)
(* its turn.  Steering, approvals, forks and runtime modes are left out.   *)
(* Bound: MaxDisturbances, the number of interrupts, stops, crashes,       *)
(* failures and half hours without activity together.                      *)
(***************************************************************************)
EXTENDS Integers, Sequences, SequencesExt

CONSTANTS Turns, NoTurn, MaxDisturbances

ASSUME TurnConstants == NoTurn \notin Turns /\ MaxDisturbances \in Nat

VARIABLES
  chat,      \* the read model: status and active turn of the session, pending start
  write,     \* of a writer: the session it dispatches, or NoWrite
  events,    \* the domain events the stream loop has not read
  stream,    \* the stream loop: reading or interrupting
  queue,     \* the worker's queue
  worker,    \* the handler that runs on the worker, and its turn
  entry,     \* pendingTurnStarts: the turn whose entry it holds
  start,     \* of a turn: the flags of its PendingTurnStart
  send,      \* of a turn: new, asked, booted, forked, sending, accepted, ... done
  provider,  \* the provider's session: up or not, and its active turn, an end it has to report
  turn,      \* of a turn, at the provider: unsent, running, interrupting, ended
  runtime,   \* the provider's events ingestion has not read
  unrecorded,\* the turns whose reported end ProviderRuntimeLiveness has yet to record
  settled,   \* of a turn, in that ledger: unknown, recent, or old, past its hold
  binding,   \* the directory's row: none, running or stopped; idle for long or not
  reaper,    \* the sweep: how far it is, and the active turn it has read
  noted,     \* the turns shown to the user as failed or cancelled
  spent      \* history: how many disturbances there were, and whether one was a crash

decided == <<chat, write, noted>>
reactor == <<events, stream, queue, worker, entry, start, send>>
outside == <<provider, turn, runtime, unrecorded, settled, binding>>
vars == <<chat, write, noted, events, stream, queue, worker, entry, start, send,
          provider, turn, runtime, unrecorded, settled, binding, reaper, spent>>

Writers == {"worker", "stream", "ingestion", "reaper"} \cup Turns
NoWrite == [status |-> "none", active |-> NoTurn, expected |-> NoTurn]
Session(status, active) == [status |-> status, active |-> active, expected |-> NoTurn]

Unmarked == [dispatched |-> FALSE, cancelled |-> FALSE, observed |-> FALSE, late |-> FALSE]

Terminal == {"error", "stopped", "interrupted"}

\* sessionResolvesPendingTurnStart.
ResolvesPending(s) ==
  IF s.active # NoTurn THEN s.status = "running" ELSE s.status \in Terminal

\* deriveThreadBusyState # "idle".
Busy == chat.pending # NoTurn \/ (chat.status = "running" /\ chat.active # NoTurn)

Spend ==
  /\ spent.times < MaxDisturbances
  /\ spent' = [spent EXCEPT !.times = @ + 1]

\* The outcome of a call that may fail: it succeeds, or a failure is spent.
Outcome(ok) == IF ok THEN UNCHANGED spent ELSE Spend

Ready(w) == write[w] = NoWrite

\* The commit of a dispatched session (decider, projector, publication).
Commit(w) ==
  LET s == write[w] IN
  /\ ~Ready(w)
  /\ write' = [write EXCEPT ![w] = NoWrite]
  /\ IF s.expected # NoTurn /\ s.expected # chat.active
     THEN UNCHANGED <<chat, events>>
     ELSE /\ chat' = [status  |-> s.status,
                      active  |-> s.active,
                      pending |-> IF ResolvesPending(s) THEN NoTurn ELSE chat.pending]
          /\ events' = IF s.active = NoTurn THEN events
                       ELSE Append(events, [kind |-> "session", turn |-> s.active])
  /\ UNCHANGED <<noted, stream, queue, worker, entry, start, send, outside, reaper, spent>>

\* Fault: the projector does not look at the message the activity names.
FaultNoteKeepsPending(t) ==
  /\ noted' = noted \cup {t}
  /\ UNCHANGED chat

\* Fault: only the start the chat still waits for is answered.
FaultNoteOfPending(t) ==
  /\ noted' = IF chat.pending = t THEN noted \cup {t} ELSE noted
  /\ chat' = [chat EXCEPT !.pending = IF @ = t THEN NoTurn ELSE @]

\* The activity provider.turn.start.failed, which names the message of the turn.
Note(t) ==
  /\ noted' = noted \cup {t}
  /\ chat' = [chat EXCEPT !.pending = IF @ = t THEN NoTurn ELSE @]

-------------------------------------------------------------------------------
\* The user.

Asked(e) == events' = Append(events, e)

\* Which of the new turns it is makes no difference.
NextTurn == CHOOSE t \in Turns : send[t] = "new"

\* thread.turn.start: requireThreadReadyForTurnStart.
Start(t) ==
  /\ send[t] = "new" /\ t = NextTurn
  /\ ~Busy
  /\ chat' = [chat EXCEPT !.pending = t]
  /\ send' = [send EXCEPT ![t] = "asked"]
  /\ Asked([kind |-> "start", turn |-> t])
  /\ UNCHANGED <<write, noted, stream, queue, worker, entry, start, outside, reaper, spent>>

\* thread.turn.interrupt and thread.session.stop, which have no condition.
Request(kind) ==
  /\ \E t \in Turns : send[t] # "new"
  /\ Spend
  /\ Asked([kind |-> kind, turn |-> NoTurn])
  /\ UNCHANGED <<decided, stream, queue, worker, entry, start, send, outside, reaper>>

-------------------------------------------------------------------------------
\* The calls to ProviderService.

Event(kind, t) == [kind |-> kind, turn |-> t]
Up(active) == [up |-> TRUE, active |-> active, ending |-> <<>>]
Down == [up |-> FALSE, active |-> NoTurn, ending |-> <<>>]

\* processRuntimeEvent: each event is queued for ingestion, and an end for the
\* ledger as well, which has a queue and a fiber of its own.
EndKinds == {"completed", "failed", "aborted"}
EndsIn(evs) == {evs[n].turn : n \in {i \in DOMAIN evs : evs[i].kind \in EndKinds}}
Report(evs) ==
  /\ runtime' = runtime \o evs
  /\ unrecorded' = unrecorded \cup EndsIn(evs)

\* A turn that the session takes with it, or another turn replaces.  Adapters
\* differ in what they say then: the end of the turn, the exit of the session.
Cut == IF provider.active = NoTurn THEN turn ELSE [turn EXCEPT ![provider.active] = "ended"]
LastWords(told, exits) ==
  (IF ~told THEN <<>>
   ELSE IF provider.active = NoTurn THEN provider.ending
   ELSE <<Event("completed", provider.active)>>)
  \o (IF exits THEN <<Event("exited", NoTurn)>> ELSE <<>>)

\* The session is closed.
Close(exits) ==
  /\ turn' = Cut
  /\ provider' = Down
  /\ \E told \in BOOLEAN : Report(LastWords(told, exits))
  /\ UNCHANGED settled

\* startSession: a session that runs is closed first.
Boot ==
  /\ \E told, exits \in BOOLEAN :
       /\ exits => provider.up
       /\ Report(Append(LastWords(told, exits), Event("session-started", NoTurn)))
  /\ turn' = Cut
  /\ provider' = Up(NoTurn)
  /\ binding' = [status |-> "running", idle |-> FALSE]
  /\ UNCHANGED settled

\* startSession fails, before or after the session that runs was closed.
BootFails ==
  \/ UNCHANGED outside
  \/ /\ provider.up
     /\ \E exits \in BOOLEAN : Close(exits)
     /\ UNCHANGED binding

\* stopSession.
StopSession ==
  IF binding.status = "none" THEN UNCHANGED outside
  ELSE /\ binding' = [status |-> "stopped", idle |-> FALSE]
       /\ IF provider.up THEN Close(TRUE)
          ELSE UNCHANGED <<provider, turn, runtime, unrecorded, settled>>

\* settleInterruptedThreadSession, which reads the session here.
Settled(ok) ==
  IF chat.status \in {"none", "stopped"} THEN NoWrite
  ELSE Session(IF ok THEN "ready" ELSE "interrupted", NoTurn)

\* interruptProviderTurn: the turn named, or the one the session runs.  A
\* session that is down is resumed first; with nothing to interrupt, some
\* adapters fail.
Interrupt(w, t) ==
  LET victim == IF t = NoTurn THEN provider.active ELSE t
      hit    == provider.up /\ victim # NoTurn /\ victim = provider.active
  IN \E ok \in BOOLEAN :
       /\ write' = [write EXCEPT ![w] = Settled(ok)]
       /\ IF hit THEN Outcome(ok) ELSE UNCHANGED spent
       /\ IF hit /\ ok THEN turn' = [turn EXCEPT ![victim] = "interrupting"]
          ELSE UNCHANGED turn
       /\ IF provider.up \/ binding.status = "none"
          THEN UNCHANGED <<provider, runtime, unrecorded, binding>>
          ELSE /\ provider' = Up(NoTurn)
               /\ Report(<<Event("session-started", NoTurn)>>)
               /\ binding' = [status |-> "running", idle |-> FALSE]
       /\ UNCHANGED <<chat, noted, settled>>

-------------------------------------------------------------------------------
\* The stream loop.

Cancelled(t) == start[t].cancelled /\ start[t].late

Stream ==
  /\ stream = "reading" /\ Ready("stream") /\ events # <<>>
  /\ events' = Tail(events)
  /\ LET e == Head(events) IN
       IF e.kind # "session"
       THEN /\ queue' = Append(queue, e)
            /\ UNCHANGED <<stream, start>>
       ELSE /\ UNCHANGED queue
            /\ IF entry = NoTurn THEN UNCHANGED <<stream, start>>
               ELSE /\ stream' = IF Cancelled(entry) THEN "interrupting" ELSE stream
                    /\ start' = [start EXCEPT ![entry].observed = TRUE,
                                              ![entry].late = @ /\ ~start[entry].cancelled]
  /\ UNCHANGED <<decided, worker, entry, send, outside, reaper, spent>>

StreamInterrupt ==
  /\ stream = "interrupting"
  /\ stream' = "reading"
  /\ Interrupt("stream", NoTurn)
  /\ UNCHANGED <<events, queue, worker, entry, start, send, reaper>>

-------------------------------------------------------------------------------
\* The worker.

Idle == [at |-> "idle", turn |-> NoTurn]
At(pc) == worker.at = pc /\ Ready("worker")
Goto(pc) == worker' = [worker EXCEPT !.at = pc]
Hand(s) == write' = [write EXCEPT !["worker"] = s]

Take ==
  /\ At("idle") /\ queue # <<>>
  /\ queue' = Tail(queue)
  /\ worker' = [at |-> Head(queue).kind, turn |-> Head(queue).turn]
  /\ UNCHANGED <<decided, events, stream, entry, start, send, outside, reaper, spent>>

\* handleTurnStartFailure: the session as it is read here; the activity follows.
FailedSession ==
  IF chat.status = "none" THEN NoWrite
  ELSE Session(IF chat.status = "stopped" THEN "stopped" ELSE "ready", NoTurn)

\* processTurnStartRequested: buildSendTurnRequestForThread.  The session that
\* runs is kept, unless its settings have changed.
Prepare ==
  /\ At("start")
  /\ \E ok, changed \in BOOLEAN :
       LET lost == ~provider.up /\ chat.status \in {"starting", "error"}
           keep == provider.up /\ chat.status \notin {"none", "stopped"} /\ ~changed
       IN /\ lost => ~ok
          /\ IF lost THEN UNCHANGED spent ELSE Outcome(ok)
          /\ IF ok THEN Goto("stamp") ELSE Goto("note")
          /\ IF ~ok THEN BootFails ELSE IF keep THEN UNCHANGED outside ELSE Boot
          /\ IF ~ok THEN Hand(FailedSession)
             ELSE IF keep THEN UNCHANGED write
             ELSE Hand(Session("ready", NoTurn))
  /\ UNCHANGED <<chat, noted, events, stream, queue, entry, start, send, reaper>>

\* The activity of a start that failed, or was cancelled before it was sent.
Tell ==
  /\ At("note")
  /\ Note(worker.turn)
  /\ send' = [send EXCEPT ![worker.turn] = IF @ = "asked" THEN "done" ELSE @]
  /\ worker' = Idle
  /\ UNCHANGED <<write, events, stream, queue, entry, start, outside, reaper, spent>>

\* The status of the turn before must not retire this start.
Stamp ==
  /\ At("stamp")
  /\ Hand(IF chat.status = "none" THEN NoWrite
          ELSE Session(IF chat.status \in Terminal THEN "starting" ELSE chat.status, chat.active))
  /\ Goto("register")
  /\ UNCHANGED <<chat, noted, events, stream, queue, entry, start, send, outside, reaper, spent>>

Register ==
  /\ At("register")
  /\ entry' = worker.turn
  /\ send' = [send EXCEPT ![worker.turn] = "forked"]
  /\ worker' = Idle
  /\ UNCHANGED <<decided, events, stream, queue, start, outside, reaper, spent>>

\* processTurnInterruptRequested.
HandleInterrupt ==
  /\ At("interrupt")
  /\ IF entry = NoTurn
     THEN /\ Goto("call")
          /\ UNCHANGED <<write, start>>
     ELSE /\ start' = [start EXCEPT ![entry].cancelled = TRUE]
          /\ IF ~start[entry].dispatched
             THEN /\ worker' = [at |-> "note", turn |-> entry]
                  /\ Hand(Settled(TRUE))
             ELSE /\ worker' = [at |-> IF start[entry].observed THEN "call" ELSE "list",
                                turn |-> entry]
                  /\ UNCHANGED write
  /\ UNCHANGED <<chat, noted, events, stream, queue, entry, send, outside, reaper, spent>>

\* hasActiveProviderTurn: the adapter's answer, before the directory's.
List ==
  /\ At("list")
  /\ IF provider.active # NoTurn THEN Goto("call") ELSE Goto("arm")
  /\ UNCHANGED <<decided, events, stream, queue, entry, start, send, outside, reaper, spent>>

Arm ==
  /\ At("arm")
  /\ start' = [start EXCEPT ![worker.turn].late = TRUE]
  /\ worker' = Idle
  /\ UNCHANGED <<decided, events, stream, queue, entry, send, outside, reaper, spent>>

Call ==
  /\ At("call")
  /\ worker' = Idle
  /\ IF chat.status \in {"none", "stopped"} THEN UNCHANGED <<decided, outside, spent>>
     ELSE Interrupt("worker", NoTurn)
  /\ UNCHANGED <<events, stream, queue, entry, start, send, reaper>>

\* processSessionStopRequested.
HandleStop ==
  /\ At("stop")
  /\ Goto("stopped")
  /\ \E ok \in BOOLEAN :
       IF chat.status \in {"none", "stopped"} THEN ok /\ UNCHANGED <<outside, spent>>
       ELSE /\ Outcome(ok)
            /\ IF ok THEN StopSession ELSE UNCHANGED outside
  /\ UNCHANGED <<decided, events, stream, queue, entry, start, send, reaper>>

Stopped ==
  /\ At("stopped")
  /\ Hand(Session("stopped", NoTurn))
  /\ worker' = Idle
  /\ UNCHANGED <<chat, noted, events, stream, queue, entry, start, send, outside, reaper, spent>>

-------------------------------------------------------------------------------
\* The fiber that sends a turn.

\* Fault: the entry outlives the fiber.
FaultEntryStays(t) ==
  /\ UNCHANGED entry
  /\ start' = [start EXCEPT ![t] = [Unmarked EXCEPT !.late = start[t].late]]

\* The entry is dropped, if it is still the turn's.  Of its flags only the one
\* that an interrupt may yet set is of interest.
Leave(t) ==
  /\ entry' = IF entry = t THEN NoTurn ELSE entry
  /\ start' = [start EXCEPT ![t] = [Unmarked EXCEPT !.late = start[t].late]]

\* Fault: the flag is looked up through the map, where a later start may be.
FaultWithdrawn(t) == entry = t /\ start[t].cancelled
Withdrawn(t) == start[t].cancelled

Send(t) ==
  /\ send[t] = "forked"
  /\ IF Withdrawn(t)
     THEN /\ send' = [send EXCEPT ![t] = "done"]
          /\ Leave(t)
     ELSE /\ send' = [send EXCEPT ![t] = "sending"]
          /\ start' = [start EXCEPT ![t].dispatched = TRUE]
          /\ UNCHANGED entry
  /\ UNCHANGED <<decided, events, stream, queue, worker, outside, reaper, spent>>

\* resolveRoutableSession: a session that is down is resumed.
Resume(t) ==
  /\ send[t] = "sending" /\ ~provider.up /\ binding.status # "none"
  /\ Boot
  /\ UNCHANGED <<decided, reactor, reaper, spent>>

\* The provider takes the turn and says so.  The answer to the call comes later.
Accept(t) ==
  /\ send[t] = "sending" /\ provider.up /\ provider.ending = <<>>
  /\ send' = [send EXCEPT ![t] = "accepted"]
  /\ provider' = Up(t)
  /\ turn' = [Cut EXCEPT ![t] = "running"]
  /\ \E told \in BOOLEAN : Report(Append(LastWords(told, FALSE), Event("started", t)))
  /\ UNCHANGED <<decided, events, stream, queue, worker, entry, start, settled, binding, reaper,
                 spent>>

\* The call returns: a turn cancelled meanwhile is interrupted now.
Answer(t) ==
  /\ send[t] = "accepted"
  /\ binding' = [status |-> "running", idle |-> FALSE]
  /\ IF start[t].late
     THEN /\ start' = [start EXCEPT ![t].late = FALSE]
          /\ send' = [send EXCEPT ![t] = "interrupting"]
          /\ UNCHANGED entry
     ELSE /\ send' = [send EXCEPT ![t] = "done"]
          /\ Leave(t)
  /\ UNCHANGED <<decided, events, stream, queue, worker, provider, turn, runtime, unrecorded,
                 settled, reaper, spent>>

FiberInterrupt(t) ==
  /\ send[t] = "interrupting"
  /\ Interrupt(t, t)
  /\ send' = [send EXCEPT ![t] = "settling"]
  /\ UNCHANGED <<events, stream, queue, worker, entry, start, reaper>>

FiberEnd(t) ==
  /\ send[t] = "settling" /\ Ready(t)
  /\ send' = [send EXCEPT ![t] = "done"]
  /\ Leave(t)
  /\ UNCHANGED <<decided, events, stream, queue, worker, outside, reaper, spent>>

\* The call fails: with the session, or by itself.
SendFails(t) ==
  /\ \/ send[t] \in {"sending", "accepted"} /\ ~provider.up /\ UNCHANGED spent
     \/ send[t] = "sending" /\ Spend
  /\ send' = [send EXCEPT ![t] = "failed"]
  /\ write' = [write EXCEPT ![t] = FailedSession]
  /\ UNCHANGED <<chat, noted, events, stream, queue, worker, entry, start, outside, reaper>>

SendNoted(t) ==
  /\ send[t] = "failed" /\ Ready(t)
  /\ Note(t)
  /\ send' = [send EXCEPT ![t] = "done"]
  /\ Leave(t)
  /\ UNCHANGED <<write, events, stream, queue, worker, outside, reaper, spent>>

-------------------------------------------------------------------------------
\* The provider.

\* The session becomes idle: nothing has been reported yet.
End(t, kind) ==
  /\ provider.active = t
  /\ kind = "aborted" => turn[t] = "interrupting"
  /\ IF kind = "failed" THEN Spend ELSE UNCHANGED spent
  /\ turn' = [turn EXCEPT ![t] = "ended"]
  /\ provider' = [Up(NoTurn) EXCEPT !.ending = <<Event(kind, t)>>]
  /\ UNCHANGED <<decided, reactor, runtime, unrecorded, settled, binding, reaper>>

\* The adapter reports the end.
Announce ==
  /\ provider.ending # <<>>
  /\ provider' = Up(NoTurn)
  /\ Report(provider.ending)
  /\ UNCHANGED <<decided, reactor, turn, settled, binding, reaper, spent>>

\* record, in the ledger's fiber.
Record(t) ==
  /\ t \in unrecorded /\ t = chat.active
  /\ unrecorded' = unrecorded \ {t}
  /\ settled' = [settled EXCEPT ![t] = "recent"]
  /\ UNCHANGED <<decided, reactor, provider, turn, runtime, binding, reaper, spent>>

\* The provider's process dies.
Die ==
  /\ provider.up
  /\ Spend
  /\ turn' = Cut
  /\ provider' = Down
  /\ Report(Append(provider.ending, Event("crashed", NoTurn)))
  /\ UNCHANGED <<decided, reactor, settled, binding, reaper>>

-------------------------------------------------------------------------------
\* Ingestion: the lifecycle part of the handler of an event.

\* shouldApplyThreadLifecycle.
Applies(e) ==
  CASE e.kind = "exited" -> chat.pending = NoTurn
    [] e.kind \in {"started", "completed", "failed"} -> chat.active \in {NoTurn, e.turn}
    [] e.kind = "aborted" -> chat.active = e.turn
    [] OTHER -> TRUE

\* dispatchThreadLifecycleUpdate.
Lifecycle(e) ==
  CASE e.kind = "started" -> Session("running", e.turn)
    [] e.kind = "completed" -> Session("ready", NoTurn)
    [] e.kind = "failed" -> Session("error", NoTurn)
    [] e.kind = "aborted" -> [Session("interrupted", NoTurn) EXCEPT !.expected = e.turn]
    [] e.kind = "session-started" ->
         Session(IF chat.active = NoTurn THEN "ready" ELSE "running", chat.active)
    [] OTHER -> Session("stopped", NoTurn)

Ingest ==
  /\ Ready("ingestion") /\ runtime # <<>>
  /\ runtime' = Tail(runtime)
  /\ IF Applies(Head(runtime))
     THEN write' = [write EXCEPT !["ingestion"] = Lifecycle(Head(runtime))]
     ELSE UNCHANGED write
  /\ UNCHANGED <<chat, noted, reactor, provider, turn, unrecorded, settled, binding, reaper,
                 spent>>

-------------------------------------------------------------------------------
\* The reaper.

Resting == [at |-> "resting", active |-> NoTurn]

\* The binding of the session has not been touched for half an hour.
TimePasses ==
  /\ binding.status # "none" /\ ~binding.idle
  /\ worker = Idle /\ queue = <<>> /\ events = <<>>
  /\ runtime = <<>> /\ provider.ending = <<>> /\ chat.active \notin unrecorded
  /\ \A w \in Writers : Ready(w)
  /\ \A t \in Turns : send[t] \in {"new", "accepted", "done"}
  /\ reaper = Resting
  /\ Spend
  /\ binding' = [binding EXCEPT !.idle = TRUE]
  /\ UNCHANGED <<decided, reactor, provider, turn, runtime, unrecorded, settled, reaper>>

\* The record of the end of a turn is ten minutes old, which is of interest
\* while the chat still shows the turn.
HoldExpires(t) ==
  /\ settled[t] = "recent" /\ t = chat.active
  /\ settled' = [settled EXCEPT ![t] = "old"]
  /\ UNCHANGED <<decided, reactor, provider, turn, runtime, unrecorded, binding, reaper, spent>>

\* The read model and the bindings are read, then the sessions are listed.
Sweep ==
  /\ reaper = Resting /\ Ready("reaper")
  /\ binding.status # "none"
  /\ chat.active # NoTurn \/ (binding.idle /\ binding.status # "stopped")
  /\ reaper' = [at |-> "reading", active |-> chat.active]
  /\ UNCHANGED <<decided, reactor, outside, spent>>

SweepLists ==
  /\ reaper.at = "reading"
  /\ reaper' = IF reaper.active # NoTurn
               THEN IF provider.active = reaper.active THEN Resting
                    ELSE [reaper EXCEPT !.at = "lost"]
               ELSE [reaper EXCEPT !.at = "idle"]
  /\ UNCHANGED <<decided, reactor, outside, spent>>

\* Fault: the ledger is not consulted.
FaultHeld == chat.active # reaper.active

\* mismatchHoldReason: the end of the turn was recorded of late, or the chat has
\* another turn by now.
Held == settled[reaper.active] = "recent" \/ chat.active # reaper.active

\* The turn is declared lost.  Ledger and read model are read without a pause.
SweepClears ==
  /\ reaper.at = "lost"
  /\ reaper' = Resting
  /\ write' = IF Held THEN write
              ELSE [write EXCEPT !["reaper"] = Session("interrupted", NoTurn)]
  /\ UNCHANGED <<chat, noted, reactor, outside, spent>>

\* The session has been idle for too long.
SweepStops ==
  /\ reaper.at = "idle"
  /\ reaper' = Resting
  /\ StopSession
  /\ UNCHANGED <<decided, reactor, spent>>

-------------------------------------------------------------------------------
\* A crash of the server, its start and the reaper's start-up sweep, which all
\* come before the first command: what is in memory is lost, the provider's
\* processes end, pending starts are deleted, and a turn still shown is ended.
Crash ==
  /\ spent.times < MaxDisturbances
  /\ spent' = [times |-> spent.times + 1, crash |-> TRUE]
  /\ chat' = [status  |-> IF chat.active # NoTurn THEN "interrupted" ELSE chat.status,
              active  |-> NoTurn,
              pending |-> NoTurn]
  /\ write' = [w \in Writers |-> NoWrite]
  /\ events' = <<>> /\ stream' = "reading" /\ queue' = <<>> /\ worker' = Idle
  /\ entry' = NoTurn
  /\ start' = [t \in Turns |-> Unmarked]
  /\ send' = [t \in Turns |-> IF send[t] = "new" THEN "new" ELSE "done"]
  /\ provider' = Down
  /\ turn' = [t \in Turns |-> IF turn[t] = "unsent" THEN "unsent" ELSE "ended"]
  /\ runtime' = <<>> /\ unrecorded' = {} /\ settled' = [t \in Turns |-> "unknown"]
  /\ reaper' = Resting
  /\ UNCHANGED <<noted, binding>>

-------------------------------------------------------------------------------
Init ==
  /\ chat = [status |-> "none", active |-> NoTurn, pending |-> NoTurn]
  /\ write = [w \in Writers |-> NoWrite]
  /\ events = <<>> /\ stream = "reading" /\ queue = <<>> /\ worker = Idle
  /\ entry = NoTurn
  /\ start = [t \in Turns |-> Unmarked]
  /\ send = [t \in Turns |-> "new"]
  /\ provider = Down
  /\ turn = [t \in Turns |-> "unsent"]
  /\ runtime = <<>> /\ unrecorded = {} /\ settled = [t \in Turns |-> "unknown"]
  /\ binding = [status |-> "none", idle |-> FALSE]
  /\ reaper = Resting
  /\ noted = {}
  /\ spent = [times |-> 0, crash |-> FALSE]

Worker == \/ Take \/ Prepare \/ Tell \/ Stamp \/ Register
          \/ HandleInterrupt \/ List \/ Arm \/ Call \/ HandleStop \/ Stopped
Fiber(t) == \/ Send(t) \/ Resume(t) \/ Accept(t) \/ Answer(t) \/ FiberInterrupt(t)
            \/ FiberEnd(t) \/ SendFails(t) \/ SendNoted(t)
StreamLoop == Stream \/ StreamInterrupt
Reaper == SweepLists \/ SweepClears \/ SweepStops

Ends(kind) == \E t \in Turns : End(t, kind)
Commits == \E w \in Writers : Commit(w)
Fibers == \E t \in Turns : Fiber(t)
Records == \E t \in Turns : Record(t)
Expires == \E t \in Turns : HoldExpires(t)

Next ==
  \/ \E t \in Turns : Start(t)
  \/ Request("interrupt") \/ Request("stop")
  \/ Commits \/ StreamLoop \/ Worker \/ Ingest
  \/ Fibers \/ Ends("completed") \/ Ends("failed") \/ Ends("aborted") \/ Announce \/ Die
  \/ Records \/ TimePasses \/ Expires \/ Sweep \/ Reaper
  \/ Crash

Spec == Init /\ [][Next]_vars

\* Fibers, workers and loops are scheduled, the engine commits what is
\* dispatched to it, the provider ends its turns and says so, and time goes on.
\* It is enough that one of them moves while any can, beside the reaper.
Progress == \/ Commits \/ StreamLoop \/ Worker \/ Fibers \/ Ingest
            \/ Ends("completed") \/ Announce \/ Records \/ Expires
FairSpec == Spec /\ WF_vars(Progress) /\ WF_vars(Sweep \/ Reaper)

-------------------------------------------------------------------------------
Sessions == [status : Terminal \cup {"none", "starting", "ready", "running"},
             active : Turns \cup {NoTurn}, expected : Turns \cup {NoTurn}]

\* Every variable has its type, and what it says of a turn goes with how far the
\* turn is: the map of pending starts holds no entry whose fiber is gone, and
\* the provider's active turn is one that it runs.
TypeOK ==
  /\ chat \in [status : Terminal \cup {"none", "starting", "ready", "running"},
               active : Turns \cup {NoTurn}, pending : Turns \cup {NoTurn}]
  /\ write \in [Writers -> Sessions]
  /\ noted \subseteq Turns /\ unrecorded \subseteq Turns
  /\ settled \in [Turns -> {"unknown", "recent", "old"}]
  /\ stream \in {"reading", "interrupting"}
  /\ worker.at \in {"start", "stamp", "register", "list", "arm", "note"} => worker.turn \in Turns
  /\ entry # NoTurn => entry \in Turns /\ send[entry] \notin {"new", "asked", "done"}
  /\ provider.active # NoTurn
       => provider.up /\ turn[provider.active] \in {"running", "interrupting"}
  /\ provider.ending # <<>> => provider.up /\ provider.active = NoTurn
  /\ binding.status \in {"none", "running", "stopped"} /\ binding.idle \in BOOLEAN
  /\ reaper.at \in {"reading", "lost"} => reaper.active \in Turns \cup {NoTurn}

\* A start that was reported as cancelled or failed is never given to the
\* provider.  The worker reads and marks the entry of an interrupt while the
\* fiber that sends the turn is on its way (ProviderCommandReactor.ts 1219, 1254).
CancelledIsNotSent == [][\A t \in Turns : Accept(t) => t \notin noted]_vars

EndsOnTheWay(t) ==
  \E n \in DOMAIN runtime : runtime[n].turn = t /\ runtime[n].kind \in EndKinds

\* What the chat shows as its turn when the reaper gives it up, which it does on
\* a list of sessions and a read model read earlier, is a turn that no provider
\* runs; and a turn whose end is still to be ingested is given up only when the
\* ledger has yet to record the end, or has for ten minutes: a turn that
\* completed must not be shown as interrupted (ProviderSessionReaper.ts 50).
ReaperClearsLostTurns ==
  [][SweepClears /\ write' # write
      => \A t \in Turns : t = chat.active
           => /\ turn[t] = "ended"
              /\ EndsOnTheWay(t) => t \in unrecorded \/ settled[t] = "old"]_vars

\* Every accepted start reaches the provider, or is reported as failed or
\* cancelled, whatever interrupts, stops and failures meet it; only a crash of
\* the server may take it (ProjectionPipeline.ts 2106 removes it at boot).  An
\* answered start stays so, hence it is enough that all are, again and again.
Answered(t) == turn[t] # "unsent" \/ t \in noted \/ spent.crash
StartsAreAnswered == []<>(\A t \in Turns : send[t] # "new" => Answered(t))

\* A chat does not stay busy: each pending start is resolved, and each turn
\* shown as running is ended, in the last resort by the reaper, although five
\* writers put sessions in place that they read earlier.
BusyEnds == []<>~Busy

\* An interrupt that waits for the provider's answer is made when the answer
\* comes: ProviderCommandReactor.test.ts 2584 "interrupts an unacknowledged
\* provider turn as soon as its turn id arrives".  It is not: see List and Arm.
ArmedInterruptIsMade == \A t \in Turns : send[t] = "done" /\ turn[t] = "running" => ~start[t].late
===============================================================================
