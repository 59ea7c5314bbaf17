------------------------- MODULE TurnLifecycle_proofs -------------------------
(***************************************************************************)
(* Proofs about TurnLifecycle, for any turns and any number of             *)
(* disturbances: the types, that no reported start is sent, and that the   *)
(* reaper gives up only turns that have ended.                             *)
(***************************************************************************)
EXTENDS TurnLifecycle, SequenceTheorems, TLAPS

-----------------------------------------------------------------------------
(* The inductive invariant *)

Statuses == Terminal \cup {"none", "starting", "ready", "running"}
Sends == {"new", "asked", "forked", "sending", "accepted", "interrupting", "settling",
          "failed", "done"}
Places == {"idle", "start", "interrupt", "stop", "note", "stamp", "register", "list", "arm",
           "call", "stopped"}
Reports == {"session-started", "started", "completed", "failed", "aborted", "exited", "crashed"}
Flags == [dispatched : BOOLEAN, cancelled : BOOLEAN, observed : BOOLEAN, late : BOOLEAN]
MaybeTurn == Turns \cup {NoTurn}

\* The requests on the worker's queue, and the domain events with them.
Asks == {e \in [kind : {"start", "interrupt", "stop"}, turn : MaybeTurn] :
           e.kind = "start" => e.turn \in Turns}
DomainEvents == Asks \cup [kind : {"session"}, turn : MaybeTurn]

\* No turn, or one that the provider has had.
Known == {t \in Turns : turn[t] # "unsent"} \cup {NoTurn}

\* What the provider may report: the end of a turn it has had, among others.
Words == {e \in [kind : Reports, turn : Known] : e.kind \in EndKinds => e.turn \in Turns}

\* An end that was reported waits for the ledger, or is recorded there.
Noticed(t) == t \in unrecorded \/ settled[t] # "unknown"
Reportable == {e \in Words : e.kind \in EndKinds => Noticed(e.turn)}

Decisions == [status : Statuses, active : Known, expected : MaybeTurn]

\* What the read model and the writers name, the provider has had.
DecidedTyped ==
  /\ chat \in [status : Statuses, active : Known, pending : MaybeTurn]
  /\ write \in [Writers -> Decisions]
  /\ noted \subseteq Turns

\* The type of the stream loop, the worker and the fibers.
ReactorTyped ==
  /\ events \in Seq(DomainEvents)
  /\ queue \in Seq(Asks)
  /\ stream \in {"reading", "interrupting"}
  /\ worker \in [at : Places, turn : MaybeTurn]
  /\ worker.at \in {"start", "stamp", "register", "list", "arm", "note"} => worker.turn \in Turns
  /\ entry \in MaybeTurn
  /\ start \in [Turns -> Flags]
  /\ send \in [Turns -> Sends]

\* The provider runs its active turn and no other.
OutsideTyped ==
  /\ provider \in [up : BOOLEAN, active : MaybeTurn, ending : Seq(Words)]
  /\ turn \in [Turns -> {"unsent", "running", "interrupting", "ended"}]
  /\ runtime \in Seq(Reportable)
  /\ unrecorded \subseteq Turns
  /\ settled \in [Turns -> {"unknown", "recent", "old"}]
  /\ binding \in [status : {"none", "running", "stopped"}, idle : BOOLEAN]
  /\ provider.active # NoTurn => provider.up
  /\ provider.ending # <<>> => provider.up /\ provider.active = NoTurn
  /\ \A t \in Turns : turn[t] \in {"running", "interrupting"} <=> provider.active = t

\* The turn that the reaper takes for lost has ended.
ReaperTyped ==
  /\ reaper \in [at : {"resting", "reading", "lost", "idle"}, active : Known]
  /\ reaper.at = "lost" => reaper.active \in Turns /\ turn[reaper.active] = "ended"

\* The turns whose start waits in q, and that each waits there once.
StartsIn(q) == {q[i].turn : i \in {j \in DOMAIN q : q[j].kind = "start"}}
OnceEach(q) ==
  \A i, j \in DOMAIN q :
    q[i].kind = "start" /\ q[j].kind = "start" /\ q[i].turn = q[j].turn => i = j

\* A start is handled once: until then it waits in one place.
StartsOnce ==
  /\ OnceEach(events) /\ OnceEach(queue)
  /\ StartsIn(events) \cap StartsIn(queue) = {}
  /\ \A t \in StartsIn(events) \cup StartsIn(queue) : send[t] = "asked"
  /\ worker.at \in {"start", "stamp", "register"} => send[worker.turn] = "asked"
  /\ worker.at \in {"start", "stamp", "register", "note"} =>
       worker.turn \notin StartsIn(events) \cup StartsIn(queue)

\* What is not with the provider yet was never there, and the map of pending
\* starts holds no entry whose fiber is gone.
SendsInStep ==
  /\ \A t \in Turns : send[t] \in {"new", "asked", "forked", "sending"} => turn[t] = "unsent"
  /\ entry # NoTurn => send[entry] \notin {"new", "asked", "done"}

Underway == {"sending", "accepted", "interrupting", "settling", "failed"}

\* A turn that was reported, or is about to be, is over or will be withdrawn.
IsOver(t) == send[t] = "done" \/ (send[t] = "forked" /\ start[t].cancelled)
ReportedIsOver ==
  /\ \A t \in Turns : send[t] \in Underway => start[t].dispatched
  /\ \A t \in noted : IsOver(t)
  /\ worker.at = "note" => IsOver(worker.turn) \/ send[worker.turn] = "asked"

\* The inductive invariant behind the turns.
TurnInv ==
  /\ DecidedTyped /\ ReactorTyped /\ OutsideTyped /\ ReaperTyped
  /\ StartsOnce /\ SendsInStep /\ ReportedIsOver

-----------------------------------------------------------------------------
(* Queues of requests *)

\* The first element leaves a queue.
LEMMA FirstLeaves ==
  ASSUME NEW S, NEW q \in Seq(S), q # <<>>
  PROVE  /\ Head(q) \in S /\ Tail(q) \in Seq(S)
         /\ 1 \in DOMAIN q /\ Head(q) = q[1]
         /\ \A i \in DOMAIN Tail(q) : i \in Nat /\ i + 1 \in DOMAIN q /\ Tail(q)[i] = q[i + 1]
<1>1. /\ Head(q) \in S /\ Tail(q) \in Seq(S)
      /\ Len(Tail(q)) = Len(q) - 1 /\ \A i \in 1..Len(Tail(q)) : Tail(q)[i] = q[i + 1]
      /\ Len(q) \in Nat /\ Len(q) > 0
  BY HeadTailProperties, EmptySeq, LenProperties
<1>2. DOMAIN q = 1..Len(q) /\ DOMAIN Tail(q) = 1..Len(Tail(q))
  BY <1>1, LenProperties
<1>3. Head(q) = q[1]
  BY DEF Head
<1> QED
  BY <1>1, <1>2, <1>3

\* An element joins a queue.
LEMMA LastJoins ==
  ASSUME NEW S, NEW q \in Seq(S), NEW e \in S
  PROVE  /\ Append(q, e) \in Seq(S)
         /\ \A i \in DOMAIN Append(q, e) :
              \/ i \in DOMAIN q /\ Append(q, e)[i] = q[i]
              \/ i = Len(q) + 1 /\ Append(q, e)[i] = e
         /\ \A i \in DOMAIN q : i \in DOMAIN Append(q, e) /\ i # Len(q) + 1
         /\ Len(q) + 1 \in DOMAIN Append(q, e)
BY AppendProperties, LenProperties

\* A start that leaves a queue waits there no more.
LEMMA StartLeaves ==
  ASSUME NEW S, NEW q \in Seq(S), q # <<>>, OnceEach(q)
  PROVE  /\ OnceEach(Tail(q)) /\ StartsIn(Tail(q)) \subseteq StartsIn(q)
         /\ Head(q).kind = "start" =>
              Head(q).turn \in StartsIn(q) /\ Head(q).turn \notin StartsIn(Tail(q))
<1> DEFINE t == Tail(q)
           h == Head(q)
<1>1. /\ 1 \in DOMAIN q /\ h = q[1]
      /\ \A i \in DOMAIN t : i \in Nat /\ i + 1 \in DOMAIN q /\ t[i] = q[i + 1]
      /\ \A i \in DOMAIN t : i # 0
  <2>1. t \in Seq(S)
    BY FirstLeaves
  <2> QED
    BY <2>1, FirstLeaves, LenProperties
<1> HIDE DEF t, h
<1>2. OnceEach(t)
  <2> SUFFICES ASSUME NEW i \in DOMAIN t, NEW j \in DOMAIN t,
                      t[i].kind = "start", t[j].kind = "start", t[i].turn = t[j].turn
               PROVE  i = j
    BY DEF OnceEach
  <2>1. i + 1 = j + 1 /\ i \in Nat /\ j \in Nat
    BY <1>1 DEF OnceEach
  <2> QED
    BY <2>1
<1>3. StartsIn(t) \subseteq StartsIn(q)
  BY <1>1 DEF StartsIn
<1>4. ASSUME h.kind = "start" PROVE h.turn \in StartsIn(q) /\ h.turn \notin StartsIn(t)
  <2>1. h.turn \in StartsIn(q)
    BY <1>1, <1>4 DEF StartsIn
  <2>2. ASSUME NEW i \in DOMAIN t, t[i].kind = "start", t[i].turn = h.turn PROVE FALSE
    <3>1. i + 1 = 1
      BY <1>1, <1>4, <2>2 DEF OnceEach
    <3> QED
      BY <1>1, <3>1
  <2> QED
    BY <2>1, <2>2 DEF StartsIn
<1> QED
  BY <1>2, <1>3, <1>4 DEF t, h

\* A request joins a queue, once if it is a start that does not wait there.
LEMMA StartJoins ==
  ASSUME NEW S, NEW q \in Seq(S), NEW e \in S, OnceEach(q)
  PROVE  /\ StartsIn(Append(q, e)) = StartsIn(q) \cup (IF e.kind = "start" THEN {e.turn} ELSE {})
         /\ (e.kind = "start" => e.turn \notin StartsIn(q)) => OnceEach(Append(q, e))
<1> DEFINE r == Append(q, e)
           n == Len(q) + 1
<1>1. /\ \A i \in DOMAIN r : (i \in DOMAIN q /\ r[i] = q[i]) \/ (i = n /\ r[i] = e)
      /\ \A i \in DOMAIN q : i \in DOMAIN r /\ i # n
      /\ n \in DOMAIN r
  BY LastJoins
<1> HIDE DEF r, n
<1>2. r[n] = e /\ \A i \in DOMAIN q : r[i] = q[i]
  <2>1. n \notin DOMAIN q
    BY <1>1
  <2> QED
    BY <1>1, <2>1
<1>3. StartsIn(r) = StartsIn(q) \cup (IF e.kind = "start" THEN {e.turn} ELSE {})
  <2>1. ASSUME NEW t \in StartsIn(r)
        PROVE  t \in StartsIn(q) \/ (e.kind = "start" /\ t = e.turn)
    BY <1>1, <2>1 DEF StartsIn
  <2>2. StartsIn(q) \subseteq StartsIn(r)
    BY <1>1, <1>2 DEF StartsIn
  <2>3. e.kind = "start" => e.turn \in StartsIn(r)
    BY <1>1, <1>2 DEF StartsIn
  <2> QED
    BY <2>1, <2>2, <2>3
<1>4. ASSUME e.kind = "start" => e.turn \notin StartsIn(q) PROVE OnceEach(r)
  <2> SUFFICES ASSUME NEW i \in DOMAIN r, NEW j \in DOMAIN r,
                      r[i].kind = "start", r[j].kind = "start", r[i].turn = r[j].turn
               PROVE  i = j
    BY DEF OnceEach
  <2>1. CASE i = n /\ j # n
    BY <1>1, <1>2, <1>4, <2>1 DEF StartsIn
  <2>2. CASE j = n /\ i # n
    BY <1>1, <1>2, <1>4, <2>2 DEF StartsIn
  <2>3. CASE i # n /\ j # n
    BY <1>1, <2>3 DEF OnceEach
  <2> QED
    BY <2>1, <2>2, <2>3
<1> QED
  BY <1>3, <1>4 DEF r

-----------------------------------------------------------------------------
(* What the writers dispatch *)

\* Every session that a writer decides on names turns the provider has had.
LEMMA DecisionsTyped ==
  ASSUME TurnInv
  PROVE  /\ NoWrite \in Decisions
         /\ \A s \in Statuses, a \in Known : Session(s, a) \in Decisions
         /\ FailedSession \in Decisions
         /\ \A ok \in BOOLEAN : Settled(ok) \in Decisions
         /\ \A e \in Reportable : Lifecycle(e) \in Decisions
<1>1. chat \in [status : Statuses, active : Known, pending : MaybeTurn]
  BY DEF TurnInv, DecidedTyped
<1>2. NoTurn \in Known /\ NoTurn \in MaybeTurn /\ Known \subseteq MaybeTurn
  BY DEF Known, MaybeTurn
<1>3. {"none", "stopped", "ready", "interrupted", "error", "starting", "running"} \subseteq Statuses
  BY DEF Statuses, Terminal
<1>4. NoWrite \in Decisions
  BY <1>2, <1>3 DEF NoWrite, Decisions
<1>5. \A s \in Statuses, a \in Known : Session(s, a) \in Decisions
  BY <1>2 DEF Session, Decisions
<1>6. FailedSession \in Decisions
  BY <1>2, <1>3, <1>4, <1>5 DEF FailedSession
<1>7. \A ok \in BOOLEAN : Settled(ok) \in Decisions
  BY <1>2, <1>3, <1>4, <1>5 DEF Settled
<1>8. ASSUME NEW e \in Reportable PROVE Lifecycle(e) \in Decisions
  <2>1. e.turn \in Known /\ e.turn \in MaybeTurn
    BY <1>2 DEF Reportable, Words
  <2>2. CASE e.kind = "aborted"
    <3>1. Lifecycle(e) = [Session("interrupted", NoTurn) EXCEPT !.expected = e.turn]
      BY <2>2 DEF Lifecycle
    <3> QED
      BY <2>1, <3>1, <1>2, <1>3 DEF Session, Decisions
  <2>3. CASE e.kind # "aborted"
    BY <2>1, <2>3, <1>1, <1>2, <1>3, <1>5 DEF Lifecycle
  <2> QED
    BY <2>2, <2>3
<1> QED
  BY <1>4, <1>5, <1>6, <1>7, <1>8

-----------------------------------------------------------------------------
(* What a step may do to the provider and its turns *)

\* A turn begins at the provider when it is accepted, and stays ended.
OutsideStep ==
  /\ OutsideTyped'
  /\ \A t \in Turns : /\ turn[t] = "ended" => turn'[t] = "ended"
                      /\ turn'[t] = "unsent" => turn[t] = "unsent"
                      /\ turn[t] = "unsent" => turn'[t] = "unsent" \/ send'[t] = "accepted"

\* What the provider has had, it has had ever since.
LEMMA KnownStays ==
  ASSUME OutsideStep
  PROVE  Known \subseteq Known' /\ Decisions \subseteq Decisions'
<1>1. Known \subseteq Known'
  BY DEF Known, OutsideStep
<1>2. MaybeTurn' = MaybeTurn /\ Statuses' = Statuses
  BY DEF MaybeTurn, Statuses
<1>3. Decisions \subseteq Decisions'
  BY <1>1, <1>2 DEF Decisions
<1> QED
  BY <1>1, <1>3

\* What was reported may still be, when more turns are known and more ends are
\* noticed.
LEMMA ReportableStays ==
  ASSUME Known \subseteq Known', \A t \in Turns : Noticed(t) => Noticed(t)'
  PROVE  Words \subseteq Words' /\ Reportable \subseteq Reportable'
<1>1. Words \subseteq Words'
  <2> SUFFICES ASSUME NEW e \in Words PROVE e \in Words'
    OBVIOUS
  <2>1. e \in [kind : Reports, turn : Known'] /\ (e.kind \in EndKinds => e.turn \in Turns)
    BY DEF Words
  <2> QED
    BY <2>1 DEF Words
<1>2. Reportable \subseteq Reportable'
  <2> SUFFICES ASSUME NEW e \in Reportable PROVE e \in Reportable'
    OBVIOUS
  <2>1. e \in Words' /\ (e.kind \in EndKinds => e.turn \in Turns /\ Noticed(e.turn))
    BY <1>1 DEF Reportable, Words
  <2>2. e.kind \in EndKinds => Noticed(e.turn)'
    BY <2>1
  <2> QED
    BY <2>1, <2>2 DEF Reportable
<1> QED
  BY <1>1, <1>2

LEMMA OutsideSame ==
  ASSUME OutsideTyped, UNCHANGED outside
  PROVE  OutsideStep
<1>1. OutsideTyped'
  BY DEF outside, OutsideTyped, Reportable, Words, Known, Noticed, MaybeTurn
<1> QED
  BY <1>1 DEF OutsideStep, outside

\* Each end that is reported is noticed, by the queue of the ledger.
LEMMA ReportTyped ==
  ASSUME OutsideTyped, Known \subseteq Known', settled' = settled,
         NEW evs \in Seq(Words'), Report(evs)
  PROVE  /\ runtime' \in Seq(Reportable') /\ unrecorded' \subseteq Turns
         /\ Words \subseteq Words'
<1>1. runtime' = runtime \o evs /\ unrecorded' = unrecorded \cup EndsIn(evs)
  BY DEF Report
<1>2. \A n \in DOMAIN evs : evs[n] \in Words'
  BY ElementOfSeq, LenProperties
<1>3. unrecorded' \subseteq Turns
  BY <1>1, <1>2 DEF EndsIn, Words, OutsideTyped
<1>4. Words \subseteq Words' /\ Reportable \subseteq Reportable'
  BY <1>1, ReportableStays DEF Noticed
<1>5. evs \in Seq(Reportable')
  <2>1. ASSUME NEW n \in DOMAIN evs PROVE evs[n] \in Reportable'
    <3>1. evs[n].kind \in EndKinds => evs[n].turn \in unrecorded'
      BY <1>1 DEF EndsIn
    <3>2. evs[n].kind \in EndKinds => Noticed(evs[n].turn)'
      BY <3>1 DEF Noticed
    <3> QED
      BY <1>2, <3>2 DEF Reportable
  <2>2. DOMAIN evs = 1..Len(evs) /\ Len(evs) \in Nat /\ evs = [n \in 1..Len(evs) |-> evs[n]]
    BY LenProperties
  <2>3. evs \in [1..Len(evs) -> Reportable']
    BY <2>1, <2>2
  <2> QED
    BY <2>2, <2>3, SeqDef
<1>6. runtime \in Seq(Reportable')
  BY <1>4, SeqMonotonic DEF OutsideTyped
<1> QED
  BY <1>1, <1>3, <1>4, <1>5, <1>6, ConcatProperties

\* The turn that a session takes with it ends, and no other.
LEMMA CutEffect ==
  ASSUME OutsideTyped
  PROVE  /\ Cut \in [Turns -> {"unsent", "running", "interrupting", "ended"}]
         /\ \A t \in Turns : Cut[t] = IF t = provider.active THEN "ended" ELSE turn[t]
         /\ \A t \in Turns : turn[t] = "unsent" <=> Cut[t] = "unsent"
<1>1. /\ turn \in [Turns -> {"unsent", "running", "interrupting", "ended"}]
      /\ provider.active \in Turns \cup {NoTurn} /\ NoTurn \notin Turns
      /\ \A t \in Turns : turn[t] \in {"running", "interrupting"} <=> provider.active = t
  BY TurnConstants DEF OutsideTyped, MaybeTurn
<1>2. /\ Cut \in [Turns -> {"unsent", "running", "interrupting", "ended"}]
      /\ \A t \in Turns : Cut[t] = IF t = provider.active THEN "ended" ELSE turn[t]
  BY <1>1 DEF Cut
<1> QED
  BY <1>1, <1>2

\* The last words of a session are about a turn that it has had.
LEMMA LastWordsTyped ==
  ASSUME OutsideTyped, NEW told \in BOOLEAN, NEW exits \in BOOLEAN
  PROVE  LastWords(told, exits) \in Seq(Words)
<1> DEFINE end  == IF ~told THEN <<>>
                   ELSE IF provider.active = NoTurn THEN provider.ending
                   ELSE <<Event("completed", provider.active)>>
           exit == IF exits THEN <<Event("exited", NoTurn)>> ELSE <<>>
<1>1. end \in Seq(Words)
  <2>1. CASE told /\ provider.active # NoTurn
    <3>1. provider.active \in Turns /\ turn[provider.active] # "unsent"
      BY <2>1 DEF OutsideTyped, MaybeTurn
    <3>2. Event("completed", provider.active) \in Words
      BY <3>1 DEF Event, Words, Reports, Known
    <3> QED
      BY <2>1, <3>2
  <2>2. CASE told /\ provider.active = NoTurn
    BY <2>2 DEF OutsideTyped
  <2>3. CASE ~told
    BY <2>3, EmptySeq
  <2> QED
    BY <2>1, <2>2, <2>3
<1>2. exit \in Seq(Words)
  <2>1. Event("exited", NoTurn) \in Words
    BY DEF Event, Words, Reports, Known, EndKinds
  <2> QED
    BY <2>1, EmptySeq
<1>3. LastWords(told, exits) = end \o exit
  BY DEF LastWords
<1> HIDE DEF end, exit
<1> QED
  BY <1>1, <1>2, <1>3, ConcatProperties

\* An event that names no turn may always be reported.
LEMMA BareWords ==
  ASSUME NEW k \in Reports \ EndKinds
  PROVE  Event(k, NoTurn) \in Words
BY DEF Event, Words, Known

\* The session that is there no more, or another in its place, has no turn: the
\* step ends the turn that was active.
LEMMA CutStep ==
  ASSUME OutsideTyped, turn' = Cut, provider' = Up(NoTurn) \/ provider' = Down,
         settled' = settled, NEW evs \in Seq(Words), Report(evs),
         binding' \in [status : {"none", "running", "stopped"}, idle : BOOLEAN]
  PROVE  OutsideStep
<1>1. /\ turn' \in [Turns -> {"unsent", "running", "interrupting", "ended"}]
      /\ \A t \in Turns : turn'[t] = IF t = provider.active THEN "ended" ELSE turn[t]
      /\ \A t \in Turns : turn[t] = "unsent" <=> turn'[t] = "unsent"
  BY CutEffect
<1>2. Known' = Known
  BY <1>1 DEF Known
<1>3. Words' = Words
  BY <1>2 DEF Words, Reports, EndKinds
<1>4. runtime' \in Seq(Reportable') /\ unrecorded' \subseteq Turns
  BY <1>2, <1>3, ReportTyped
<1>5. /\ provider' \in [up : BOOLEAN, active : MaybeTurn', ending : Seq(Words')]
      /\ provider'.active = NoTurn /\ provider'.ending = <<>>
  <2>1. <<>> \in Seq(Words') /\ NoTurn \in MaybeTurn'
    BY EmptySeq DEF MaybeTurn
  <2>2. CASE provider' = Up(NoTurn)
    BY <2>1, <2>2 DEF Up
  <2>3. CASE provider' = Down
    BY <2>1, <2>3 DEF Down
  <2> QED
    BY <2>2, <2>3
<1>6. /\ \A t \in Turns : turn[t] \in {"running", "interrupting"} <=> provider.active = t
      /\ settled' \in [Turns -> {"unknown", "recent", "old"}] /\ NoTurn \notin Turns
  BY TurnConstants DEF OutsideTyped
<1>7. \A t \in Turns : turn'[t] \in {"running", "interrupting"} <=> provider'.active = t
  BY <1>1, <1>5, <1>6
<1>8. OutsideTyped'
  BY <1>1, <1>4, <1>5, <1>6, <1>7 DEF OutsideTyped
<1> QED
  BY <1>1, <1>8 DEF OutsideStep

LEMMA CloseStep ==
  ASSUME OutsideTyped, NEW exits \in BOOLEAN, Close(exits),
         binding' \in [status : {"none", "running", "stopped"}, idle : BOOLEAN]
  PROVE  OutsideStep
<1> PICK told \in BOOLEAN : Report(LastWords(told, exits))
  BY DEF Close
<1>1. turn' = Cut /\ provider' = Down /\ settled' = settled
  BY DEF Close
<1> QED
  BY <1>1, LastWordsTyped, CutStep

LEMMA BootStep ==
  ASSUME OutsideTyped, Boot
  PROVE  OutsideStep
<1> PICK told \in BOOLEAN, exits \in BOOLEAN :
      Report(Append(LastWords(told, exits), Event("session-started", NoTurn)))
  BY DEF Boot
<1>1. /\ turn' = Cut /\ provider' = Up(NoTurn) /\ settled' = settled
      /\ binding' = [status |-> "running", idle |-> FALSE]
  BY DEF Boot
<1>2. Event("session-started", NoTurn) \in Words
  BY BareWords DEF Reports, EndKinds
<1>3. Append(LastWords(told, exits), Event("session-started", NoTurn)) \in Seq(Words)
  BY <1>2, LastWordsTyped, AppendProperties
<1> QED
  BY <1>1, <1>3, CutStep

LEMMA BootFailsStep ==
  ASSUME OutsideTyped, BootFails
  PROVE  OutsideStep
<1>1. CASE UNCHANGED outside
  BY <1>1, OutsideSame
<1>2. CASE (\E exits \in BOOLEAN : Close(exits)) /\ UNCHANGED binding
  BY <1>2, CloseStep DEF OutsideTyped
<1> QED
  BY <1>1, <1>2 DEF BootFails

LEMMA StopStep ==
  ASSUME OutsideTyped, StopSession
  PROVE  OutsideStep
<1>1. CASE binding.status = "none"
  BY <1>1, OutsideSame DEF StopSession
<1>2. CASE binding.status # "none" /\ provider.up
  <2>1. binding' = [status |-> "stopped", idle |-> FALSE] /\ Close(TRUE)
    BY <1>2 DEF StopSession
  <2> QED
    BY <2>1, CloseStep
<1>3. CASE binding.status # "none" /\ ~provider.up
  <2>1. /\ binding' = [status |-> "stopped", idle |-> FALSE]
        /\ UNCHANGED <<provider, turn, runtime, unrecorded, settled>>
    BY <1>3 DEF StopSession
  <2>2. OutsideTyped'
    BY <2>1 DEF OutsideTyped, Reportable, Words, Known, Noticed, MaybeTurn
  <2> QED
    BY <2>1, <2>2 DEF OutsideStep
<1> QED
  BY <1>1, <1>2, <1>3


\* An interrupt leaves the writer a session to dispatch, and marks the
\* provider's active turn or resumes the provider's session.
LEMMA InterruptStep ==
  ASSUME TurnInv, NEW w, NEW t, Interrupt(w, t)
  PROVE  /\ OutsideStep
         /\ \E ok \in BOOLEAN : write' = [write EXCEPT ![w] = Settled(ok)]
         /\ UNCHANGED <<chat, noted>>
<1> DEFINE victim == IF t = NoTurn THEN provider.active ELSE t
           hit    == provider.up /\ victim # NoTurn /\ victim = provider.active
<1>0. OutsideTyped
  BY DEF TurnInv
<1>1. PICK ok \in BOOLEAN :
        /\ write' = [write EXCEPT ![w] = Settled(ok)]
        /\ IF hit /\ ok THEN turn' = [turn EXCEPT ![victim] = "interrupting"]
           ELSE UNCHANGED turn
        /\ IF provider.up \/ binding.status = "none"
           THEN UNCHANGED <<provider, runtime, unrecorded, binding>>
           ELSE /\ provider' = Up(NoTurn)
                /\ Report(<<Event("session-started", NoTurn)>>)
                /\ binding' = [status |-> "running", idle |-> FALSE]
        /\ UNCHANGED <<chat, noted, settled>>
  BY DEF Interrupt
<1>2. /\ turn \in [Turns -> {"unsent", "running", "interrupting", "ended"}]
      /\ provider \in [up : BOOLEAN, active : MaybeTurn, ending : Seq(Words)]
      /\ provider.active # NoTurn => provider.up
      /\ provider.ending # <<>> => provider.up /\ provider.active = NoTurn
      /\ \A u \in Turns : turn[u] \in {"running", "interrupting"} <=> provider.active = u
      /\ settled \in [Turns -> {"unknown", "recent", "old"}] /\ unrecorded \subseteq Turns
      /\ binding \in [status : {"none", "running", "stopped"}, idle : BOOLEAN]
      /\ runtime \in Seq(Reportable)
  BY <1>0 DEF OutsideTyped
<1>3. /\ turn' \in [Turns -> {"unsent", "running", "interrupting", "ended"}]
      /\ \A u \in Turns : \/ turn'[u] = turn[u]
                          \/ turn'[u] = "interrupting" /\ turn[u] \in {"running", "interrupting"}
  <2>1. CASE hit /\ ok
    <3>1. victim \in Turns /\ turn[victim] \in {"running", "interrupting"}
      BY <1>2, <2>1 DEF MaybeTurn
    <3>2. turn' = [turn EXCEPT ![victim] = "interrupting"]
      BY <1>1, <2>1
    <3> QED
      BY <1>2, <3>1, <3>2
  <2>2. CASE ~(hit /\ ok)
    BY <1>1, <1>2, <2>2
  <2> QED
    BY <2>1, <2>2
<1>4. \A u \in Turns : /\ turn[u] \in {"running", "interrupting"}
                             <=> turn'[u] \in {"running", "interrupting"}
                       /\ turn[u] = "unsent" <=> turn'[u] = "unsent"
                       /\ turn[u] = "ended" => turn'[u] = "ended"
  BY <1>3
<1>5. Known' = Known /\ settled' = settled
  BY <1>1, <1>4 DEF Known
<1>6. Words' = Words
  BY <1>5 DEF Words, Reports, EndKinds
<1>7. /\ provider' \in [up : BOOLEAN, active : MaybeTurn, ending : Seq(Words)]
      /\ provider'.active # NoTurn => provider'.up
      /\ provider'.ending # <<>> => provider'.up /\ provider'.active = NoTurn
      /\ provider'.active = provider.active
      /\ binding' \in [status : {"none", "running", "stopped"}, idle : BOOLEAN]
      /\ runtime' \in Seq(Reportable') /\ unrecorded' \subseteq Turns
  <2>1. CASE provider.up \/ binding.status = "none"
    <3>1. UNCHANGED <<provider, runtime, unrecorded, binding>>
      BY <1>1, <2>1
    <3>2. Reportable' = Reportable
      BY <1>5, <1>6, <3>1 DEF Reportable, Noticed
    <3> QED
      BY <1>2, <3>1, <3>2
  <2>2. CASE ~(provider.up \/ binding.status = "none")
    <3>1. /\ provider' = Up(NoTurn)
          /\ Report(<<Event("session-started", NoTurn)>>)
          /\ binding' = [status |-> "running", idle |-> FALSE]
      BY <1>1, <2>2
    <3>2. provider.active = NoTurn
      BY <1>2, <2>2
    <3>3. Event("session-started", NoTurn) \in Words
      BY BareWords DEF Reports, EndKinds
    <3>4. <<Event("session-started", NoTurn)>> \in Seq(Words')
      BY <1>6, <3>3
    <3>5. runtime' \in Seq(Reportable') /\ unrecorded' \subseteq Turns
      BY <1>0, <1>5, <3>1, <3>4, ReportTyped
    <3> QED
      BY <3>1, <3>2, <3>5, EmptySeq DEF Up, MaybeTurn
  <2> QED
    BY <2>1, <2>2
<1>8. OutsideTyped'
  BY <1>2, <1>3, <1>4, <1>5, <1>6, <1>7 DEF OutsideTyped, MaybeTurn
<1> HIDE DEF victim, hit
<1> QED
  BY <1>1, <1>4, <1>8 DEF OutsideStep

\* The end of a turn, of which nothing is reported yet.
LEMMA EndStep ==
  ASSUME OutsideTyped, NEW t \in Turns, NEW k \in EndKinds, End(t, k)
  PROVE  OutsideStep
<1>1. /\ turn' = [turn EXCEPT ![t] = "ended"] /\ provider.active = t
      /\ provider' = [Up(NoTurn) EXCEPT !.ending = <<Event(k, t)>>]
      /\ UNCHANGED <<runtime, unrecorded, settled, binding>>
  BY DEF End
<1>2. /\ turn \in [Turns -> {"unsent", "running", "interrupting", "ended"}]
      /\ \A u \in Turns : turn[u] \in {"running", "interrupting"} <=> provider.active = u
      /\ unrecorded \subseteq Turns /\ settled \in [Turns -> {"unknown", "recent", "old"}]
      /\ binding \in [status : {"none", "running", "stopped"}, idle : BOOLEAN]
      /\ runtime \in Seq(Reportable) /\ NoTurn \notin Turns
  BY TurnConstants DEF OutsideTyped
<1>3. /\ turn' \in [Turns -> {"unsent", "running", "interrupting", "ended"}]
      /\ \A u \in Turns : turn'[u] = IF u = t THEN "ended" ELSE turn[u]
      /\ \A u \in Turns : turn[u] = "unsent" <=> turn'[u] = "unsent"
  BY <1>1, <1>2
<1>4. Known' = Known /\ t \in Known
  BY <1>3 DEF Known
<1>5. Reportable' = Reportable /\ Words' = Words
  BY <1>1, <1>4 DEF Reportable, Words, Noticed, Reports, EndKinds
<1>6. Event(k, t) \in Words
  BY <1>4 DEF Event, Words, Reports, EndKinds
<1>7. /\ provider' \in [up : BOOLEAN, active : MaybeTurn', ending : Seq(Words')]
      /\ provider'.active = NoTurn /\ provider'.up
  <2>1. <<Event(k, t)>> \in Seq(Words')
    BY <1>5, <1>6
  <2> QED
    BY <1>1, <2>1 DEF Up, MaybeTurn
<1>8. \A u \in Turns : turn'[u] \in {"running", "interrupting"} <=> provider'.active = u
  BY <1>1, <1>2, <1>3, <1>7
<1>9. OutsideTyped'
  BY <1>1, <1>2, <1>3, <1>5, <1>7, <1>8 DEF OutsideTyped
<1> QED
  BY <1>2, <1>3, <1>9 DEF OutsideStep

\* The end of a turn is reported.
LEMMA AnnounceStep ==
  ASSUME OutsideTyped, Announce
  PROVE  OutsideStep
<1>1. /\ provider' = Up(NoTurn) /\ provider.ending \in Seq(Words) /\ provider.active = NoTurn
      /\ Report(provider.ending) /\ UNCHANGED <<turn, settled, binding>>
  BY DEF Announce, OutsideTyped
<1>2. turn' = Cut /\ binding' \in [status : {"none", "running", "stopped"}, idle : BOOLEAN]
  BY <1>1 DEF Cut, OutsideTyped
<1> QED
  BY <1>1, <1>2, CutStep

LEMMA DieStep ==
  ASSUME OutsideTyped, Die
  PROVE  OutsideStep
<1>1. /\ turn' = Cut /\ provider' = Down /\ UNCHANGED <<settled, binding>>
      /\ Report(Append(provider.ending, Event("crashed", NoTurn)))
      /\ provider.ending \in Seq(Words)
      /\ binding \in [status : {"none", "running", "stopped"}, idle : BOOLEAN]
  BY DEF Die, OutsideTyped
<1>2. Event("crashed", NoTurn) \in Words
  BY BareWords DEF Reports, EndKinds
<1>3. Append(provider.ending, Event("crashed", NoTurn)) \in Seq(Words)
  BY <1>1, <1>2, AppendProperties
<1> QED
  BY <1>1, <1>3, CutStep

LEMMA IngestStep ==
  ASSUME OutsideTyped, Ingest
  PROVE  OutsideStep /\ Head(runtime) \in Reportable
<1>1. /\ runtime # <<>> /\ runtime' = Tail(runtime)
      /\ UNCHANGED <<provider, turn, unrecorded, settled, binding>>
      /\ runtime \in Seq(Reportable)
  BY DEF Ingest, OutsideTyped
<1>2. Head(runtime) \in Reportable /\ runtime' \in Seq(Reportable)
  BY <1>1, FirstLeaves
<1>3. Known' = Known
  BY <1>1 DEF Known
<1>4. Reportable' = Reportable /\ Words' = Words
  BY <1>1, <1>3 DEF Reportable, Words, Noticed, Reports, EndKinds
<1>5. OutsideTyped'
  BY <1>1, <1>2, <1>4 DEF OutsideTyped, MaybeTurn
<1> QED
  BY <1>1, <1>2, <1>5 DEF OutsideStep

\* A step of the ledger or of its clock: what was noticed stays so.
LEMMA LedgerStep ==
  ASSUME OutsideTyped, UNCHANGED <<provider, turn, runtime, binding>>,
         unrecorded' \subseteq Turns, settled' \in [Turns -> {"unknown", "recent", "old"}],
         \A t \in Turns : Noticed(t) => Noticed(t)'
  PROVE  OutsideStep
<1>1. Known' = Known
  BY DEF Known
<1>2. Words' = Words /\ Reportable \subseteq Reportable'
  BY <1>1, ReportableStays DEF Words, Reports, EndKinds
<1>3. runtime' \in Seq(Reportable')
  BY <1>2, SeqMonotonic DEF OutsideTyped
<1>4. OutsideTyped'
  BY <1>2, <1>3 DEF OutsideTyped, MaybeTurn
<1> QED
  BY <1>4 DEF OutsideStep

LEMMA RecordStep ==
  ASSUME OutsideTyped, NEW t \in Turns, Record(t)
  PROVE  OutsideStep
<1>1. /\ unrecorded' = unrecorded \ {t} /\ settled' = [settled EXCEPT ![t] = "recent"]
      /\ UNCHANGED <<provider, turn, runtime, binding>>
      /\ unrecorded \subseteq Turns /\ settled \in [Turns -> {"unknown", "recent", "old"}]
  BY DEF Record, OutsideTyped
<1>2. \A u \in Turns : Noticed(u) => Noticed(u)'
  BY <1>1 DEF Noticed
<1> QED
  BY <1>1, <1>2, LedgerStep

LEMMA HoldExpiresStep ==
  ASSUME OutsideTyped, NEW t \in Turns, HoldExpires(t)
  PROVE  OutsideStep
<1>1. /\ settled' = [settled EXCEPT ![t] = "old"]
      /\ UNCHANGED <<provider, turn, runtime, unrecorded, binding>>
      /\ unrecorded \subseteq Turns /\ settled \in [Turns -> {"unknown", "recent", "old"}]
  BY DEF HoldExpires, OutsideTyped
<1>2. \A u \in Turns : Noticed(u) => Noticed(u)'
  BY <1>1 DEF Noticed
<1> QED
  BY <1>1, <1>2, LedgerStep

\* Only the directory's row is written.
LEMMA BindingStep ==
  ASSUME OutsideTyped, UNCHANGED <<provider, turn, runtime, unrecorded, settled>>,
         binding' \in [status : {"none", "running", "stopped"}, idle : BOOLEAN]
  PROVE  OutsideStep
<1>1. OutsideTyped'
  BY DEF OutsideTyped, MaybeTurn, Reportable, Words, Known, Noticed
<1> QED
  BY <1>1 DEF OutsideStep

\* The provider takes a turn, which replaces the one it runs.
LEMMA AcceptStep ==
  ASSUME TurnInv, NEW t \in Turns, Accept(t)
  PROVE  OutsideStep
<1>1. OutsideTyped
  BY DEF TurnInv
<1>2. turn[t] = "unsent"
  BY DEF Accept, TurnInv, SendsInStep
<1>3. PICK told \in BOOLEAN : Report(Append(LastWords(told, FALSE), Event("started", t)))
  BY DEF Accept
<1>4. /\ turn' = [Cut EXCEPT ![t] = "running"] /\ provider' = Up(t)
      /\ UNCHANGED <<settled, binding>> /\ send' = [send EXCEPT ![t] = "accepted"]
  BY DEF Accept
<1>5. /\ turn \in [Turns -> {"unsent", "running", "interrupting", "ended"}]
      /\ provider.active \in Turns \cup {NoTurn}
      /\ settled \in [Turns -> {"unknown", "recent", "old"}]
      /\ \A u \in Turns : turn[u] \in {"running", "interrupting"} <=> provider.active = u
      /\ binding \in [status : {"none", "running", "stopped"}, idle : BOOLEAN]
      /\ NoTurn \notin Turns
  BY <1>1, TurnConstants DEF OutsideTyped, MaybeTurn
<1>6. send'[t] = "accepted"
  BY <1>4 DEF TurnInv, ReactorTyped
<1>7. /\ turn' \in [Turns -> {"unsent", "running", "interrupting", "ended"}]
      /\ \A u \in Turns :
           turn'[u] = IF u = t THEN "running" ELSE IF u = provider.active THEN "ended" ELSE turn[u]
  BY <1>1, <1>4, CutEffect
<1>8. Known \subseteq Known' /\ t \in Known'
  BY <1>5, <1>7 DEF Known
<1>9. LastWords(told, FALSE) \in Seq(Words')
  <2>1. Words \subseteq Words'
    BY <1>8 DEF Words, Reports, EndKinds
  <2> QED
    BY <1>1, <2>1, LastWordsTyped, SeqMonotonic
<1>10. Event("started", t) \in Words'
  BY <1>8 DEF Event, Words, Reports, EndKinds
<1>11. Append(LastWords(told, FALSE), Event("started", t)) \in Seq(Words')
  BY <1>9, <1>10, AppendProperties
<1>12. runtime' \in Seq(Reportable') /\ unrecorded' \subseteq Turns
  BY <1>1, <1>3, <1>4, <1>8, <1>11, ReportTyped
<1>13. /\ provider' \in [up : BOOLEAN, active : MaybeTurn', ending : Seq(Words')]
       /\ provider'.up /\ provider'.active = t /\ provider'.ending = <<>>
  BY <1>4, EmptySeq DEF Up, MaybeTurn
<1>14. \A u \in Turns : turn'[u] \in {"running", "interrupting"} <=> provider'.active = u
  BY <1>5, <1>7, <1>13
<1>15. OutsideTyped'
  BY <1>4, <1>5, <1>7, <1>12, <1>13, <1>14 DEF OutsideTyped
<1>16. \A u \in Turns : /\ turn[u] = "ended" => turn'[u] = "ended"
                        /\ turn'[u] = "unsent" => turn[u] = "unsent"
                        /\ turn[u] = "unsent" => turn'[u] = "unsent" \/ send'[u] = "accepted"
  BY <1>2, <1>5, <1>6, <1>7
<1> QED
  BY <1>15, <1>16 DEF OutsideStep

\* Every step but a crash is such a step.
LEMMA NextOutside ==
  ASSUME TurnInv, Next, ~Crash
  PROVE  OutsideStep
<1>0. OutsideTyped
  BY DEF TurnInv
<1>1. ASSUME UNCHANGED outside PROVE OutsideStep
  BY <1>0, <1>1, OutsideSame
<1>2. ASSUME \/ \E t \in Turns : Start(t) \/ Send(t) \/ FiberEnd(t) \/ SendFails(t) \/ SendNoted(t)
             \/ Request("interrupt") \/ Request("stop")
             \/ Commits
             \/ Stream \/ Take \/ Tell \/ Stamp \/ Register \/ HandleInterrupt \/ List \/ Arm
             \/ Stopped \/ Sweep \/ SweepLists \/ SweepClears
      PROVE  OutsideStep
  <2>1. UNCHANGED outside
    BY <1>2 DEF Start, Send, FiberEnd, SendFails, SendNoted, Request, Commits, Commit, Stream, Take,
                Tell, Stamp, Register, HandleInterrupt, List, Arm, Stopped, Sweep, SweepLists, SweepClears
  <2> QED
    BY <1>1, <2>1
<1>3. ASSUME Prepare PROVE OutsideStep
  BY <1>0, <1>1, <1>3, BootStep, BootFailsStep DEF Prepare
<1>4. ASSUME StreamInterrupt PROVE OutsideStep
  BY <1>4, InterruptStep DEF StreamInterrupt
<1>5. ASSUME Call PROVE OutsideStep
  BY <1>1, <1>5, InterruptStep DEF Call
<1>6. ASSUME HandleStop PROVE OutsideStep
  BY <1>0, <1>1, <1>6, StopStep DEF HandleStop
<1>7. ASSUME SweepStops PROVE OutsideStep
  BY <1>0, <1>7, StopStep DEF SweepStops
<1>8. ASSUME NEW t \in Turns, Resume(t) PROVE OutsideStep
  BY <1>0, <1>8, BootStep DEF Resume
<1>9. ASSUME NEW t \in Turns, Accept(t) PROVE OutsideStep
  BY <1>9, AcceptStep
<1>10. ASSUME NEW t \in Turns, Answer(t) PROVE OutsideStep
  <2>1. UNCHANGED <<provider, turn, runtime, unrecorded, settled>>
    BY <1>10 DEF Answer
  <2>2. binding' \in [status : {"none", "running", "stopped"}, idle : BOOLEAN]
    BY <1>10 DEF Answer
  <2> QED
    BY <1>0, <2>1, <2>2, BindingStep
<1>11. ASSUME NEW t \in Turns, FiberInterrupt(t) PROVE OutsideStep
  BY <1>11, InterruptStep DEF FiberInterrupt
<1>12. ASSUME TimePasses PROVE OutsideStep
  <2>1. UNCHANGED <<provider, turn, runtime, unrecorded, settled>>
    BY <1>12 DEF TimePasses
  <2>2. binding' \in [status : {"none", "running", "stopped"}, idle : BOOLEAN]
    BY <1>0, <1>12 DEF TimePasses, OutsideTyped
  <2> QED
    BY <1>0, <2>1, <2>2, BindingStep
<1>13. ASSUME Ingest PROVE OutsideStep
  BY <1>0, <1>13, IngestStep
<1>14. ASSUME Die PROVE OutsideStep
  BY <1>0, <1>14, DieStep
<1>15. ASSUME Ends("completed") \/ Ends("failed") \/ Ends("aborted") PROVE OutsideStep
  BY <1>0, <1>15, EndStep DEF Ends, EndKinds
<1>16. ASSUME Expires PROVE OutsideStep
  BY <1>0, <1>16, HoldExpiresStep DEF Expires
<1>17. ASSUME Announce PROVE OutsideStep
  BY <1>0, <1>17, AnnounceStep
<1>18. ASSUME Records PROVE OutsideStep
  BY <1>0, <1>18, RecordStep DEF Records
<1> QED
  BY <1>2, <1>3, <1>4, <1>5, <1>6, <1>7, <1>8, <1>9, <1>10, <1>11, <1>12, <1>13, <1>14, <1>15,
     <1>16, <1>17, <1>18 DEF Next, Worker, Fibers, Fiber, StreamLoop, Reaper

-----------------------------------------------------------------------------
(* Each part of the invariant is kept by every step but a crash *)

\* What a step leaves in the read model and with the writers.
DecidedStep ==
  /\ chat' \in [status : Statuses, active : Known, pending : MaybeTurn]
  /\ write' \in [Writers -> Decisions]
  /\ noted' \subseteq Turns

LEMMA OneWrites ==
  ASSUME write \in [Writers -> Decisions], NEW w, NEW s \in Decisions,
         write' = [write EXCEPT ![w] = s]
  PROVE  write' \in [Writers -> Decisions]
OBVIOUS

LEMMA DecidedSteps ==
  ASSUME TurnInv, Next, ~Crash
  PROVE  DecidedStep
<1>0. /\ chat \in [status : Statuses, active : Known, pending : MaybeTurn]
      /\ write \in [Writers -> Decisions] /\ noted \subseteq Turns
      /\ NoTurn \in Known /\ NoTurn \in MaybeTurn /\ Known \subseteq MaybeTurn
      /\ Turns \subseteq MaybeTurn
  BY DEF TurnInv, DecidedTyped, Known, MaybeTurn
<1>1. ASSUME NEW w, NEW s \in Decisions, write' = [write EXCEPT ![w] = s],
             UNCHANGED <<chat, noted>>
      PROVE  DecidedStep
  BY <1>0, <1>1, OneWrites DEF DecidedStep
<1>2. ASSUME UNCHANGED decided PROVE DecidedStep
  BY <1>0, <1>2 DEF DecidedStep, decided
<1>3. ASSUME \/ \E t \in Turns : Send(t) \/ Resume(t) \/ Accept(t) \/ Answer(t) \/ FiberEnd(t)
             \/ Request("interrupt") \/ Request("stop")
             \/ Stream \/ Take \/ Register \/ List \/ Arm \/ HandleStop
             \/ Ends("completed") \/ Ends("failed") \/ Ends("aborted") \/ Announce \/ Die
             \/ Records \/ TimePasses \/ Expires \/ Sweep \/ SweepLists \/ SweepStops
      PROVE  DecidedStep
  <2>1. UNCHANGED decided
    BY <1>3 DEF Send, Resume, Accept, Answer, FiberEnd, Request, Stream, Take, Register, List, Arm,
                HandleStop, Ends, End, Announce, Die, Records, Record, TimePasses, Expires,
                HoldExpires, Sweep, SweepLists, SweepStops
  <2> QED
    BY <1>2, <2>1
<1>4. ASSUME NEW w \in Writers, Commit(w) PROVE DecidedStep
  <2>1. write[w] \in Decisions /\ NoWrite \in Decisions
    BY <1>0, DecisionsTyped
  <2>2. write' = [write EXCEPT ![w] = NoWrite] /\ noted' = noted
    BY <1>4 DEF Commit
  <2>3. write[w].status \in Statuses /\ write[w].active \in Known
    BY <2>1 DEF Decisions
  <2>4. \/ chat' = chat
        \/ chat' = [status  |-> write[w].status,
                    active  |-> write[w].active,
                    pending |-> IF ResolvesPending(write[w]) THEN NoTurn ELSE chat.pending]
    BY <1>4 DEF Commit
  <2>5. chat' \in [status : Statuses, active : Known, pending : MaybeTurn]
    BY <1>0, <2>3, <2>4
  <2>6. write' \in [Writers -> Decisions]
    BY <1>0, <2>1, <2>2, OneWrites
  <2> QED
    BY <1>0, <2>2, <2>5, <2>6 DEF DecidedStep
<1>5. ASSUME NEW t \in Turns, Start(t) PROVE DecidedStep
  <2>1. chat' = [chat EXCEPT !.pending = t] /\ UNCHANGED <<write, noted>>
    BY <1>5 DEF Start
  <2> QED
    BY <1>0, <2>1 DEF DecidedStep
<1>6. ASSUME NEW t \in Turns, Note(t), UNCHANGED write PROVE DecidedStep
  <2>1. /\ noted' = noted \cup {t}
        /\ chat' = [chat EXCEPT !.pending = IF @ = t THEN NoTurn ELSE @]
    BY <1>6 DEF Note
  <2> QED
    BY <1>0, <1>6, <2>1 DEF DecidedStep
<1>7. ASSUME Tell \/ \E t \in Turns : SendNoted(t) PROVE DecidedStep
  <2>1. Tell => worker.turn \in Turns
    BY DEF Tell, At, TurnInv, ReactorTyped
  <2> QED
    BY <1>6, <1>7, <2>1 DEF Tell, SendNoted
<1>8. ASSUME NEW w, NEW t, Interrupt(w, t) PROVE DecidedStep
  BY <1>1, <1>8, InterruptStep, DecisionsTyped
<1>9. ASSUME StreamInterrupt \/ Call \/ \E t \in Turns : FiberInterrupt(t) PROVE DecidedStep
  BY <1>2, <1>8, <1>9 DEF StreamInterrupt, Call, FiberInterrupt, decided
<1>10. ASSUME Prepare PROVE DecidedStep
  <2>1. /\ UNCHANGED <<chat, noted>>
        /\ \/ UNCHANGED write
           \/ write' = [write EXCEPT !["worker"] = FailedSession]
           \/ write' = [write EXCEPT !["worker"] = Session("ready", NoTurn)]
    BY <1>10 DEF Prepare, Hand
  <2>2. FailedSession \in Decisions /\ Session("ready", NoTurn) \in Decisions
    BY <1>0, DecisionsTyped DEF Statuses
  <2> QED
    BY <1>1, <1>2, <2>1, <2>2 DEF decided
<1>11. ASSUME Stamp PROVE DecidedStep
  <2>1. /\ UNCHANGED <<chat, noted>>
        /\ \/ write' = [write EXCEPT !["worker"] = NoWrite]
           \/ write' = [write EXCEPT !["worker"] = Session("starting", chat.active)]
           \/ write' = [write EXCEPT !["worker"] = Session(chat.status, chat.active)]
    BY <1>11 DEF Stamp, Hand
  <2>2. chat.active \in Known /\ chat.status \in Statuses /\ "starting" \in Statuses
    BY <1>0 DEF Statuses
  <2>3. /\ NoWrite \in Decisions /\ Session("starting", chat.active) \in Decisions
        /\ Session(chat.status, chat.active) \in Decisions
    BY <2>2, DecisionsTyped
  <2> QED
    BY <1>1, <2>1, <2>3
<1>12. ASSUME HandleInterrupt PROVE DecidedStep
  <2>1. /\ UNCHANGED <<chat, noted>>
        /\ UNCHANGED write \/ write' = [write EXCEPT !["worker"] = Settled(TRUE)]
    BY <1>12 DEF HandleInterrupt, Hand
  <2> QED
    BY <1>1, <1>2, <2>1, DecisionsTyped DEF decided
<1>13. ASSUME Stopped PROVE DecidedStep
  <2>1. /\ UNCHANGED <<chat, noted>>
        /\ write' = [write EXCEPT !["worker"] = Session("stopped", NoTurn)]
    BY <1>13 DEF Stopped, Hand
  <2>2. Session("stopped", NoTurn) \in Decisions
    BY <1>0, DecisionsTyped DEF Statuses, Terminal
  <2> QED
    BY <1>1, <2>1, <2>2
<1>14. ASSUME NEW t \in Turns, SendFails(t) PROVE DecidedStep
  <2>1. UNCHANGED <<chat, noted>> /\ write' = [write EXCEPT ![t] = FailedSession]
    BY <1>14 DEF SendFails
  <2> QED
    BY <1>1, <2>1, DecisionsTyped
<1>15. ASSUME Ingest PROVE DecidedStep
  <2>1. /\ UNCHANGED <<chat, noted>>
        /\ \/ UNCHANGED write
           \/ write' = [write EXCEPT !["ingestion"] = Lifecycle(Head(runtime))]
    BY <1>15 DEF Ingest
  <2>2. OutsideTyped
    BY DEF TurnInv
  <2>3. Lifecycle(Head(runtime)) \in Decisions
    BY <1>15, <2>2, IngestStep, DecisionsTyped
  <2> QED
    BY <1>1, <1>2, <2>1, <2>3 DEF decided
<1>16. ASSUME SweepClears PROVE DecidedStep
  <2>1. /\ UNCHANGED <<chat, noted>>
        /\ \/ UNCHANGED write
           \/ write' = [write EXCEPT !["reaper"] = Session("interrupted", NoTurn)]
    BY <1>16 DEF SweepClears
  <2>2. Session("interrupted", NoTurn) \in Decisions
    BY <1>0, DecisionsTyped DEF Statuses, Terminal
  <2> QED
    BY <1>1, <1>2, <2>1, <2>2 DEF decided
<1> QED
  BY <1>3, <1>4, <1>5, <1>7, <1>9, <1>10, <1>11, <1>12, <1>13, <1>14, <1>15, <1>16
     DEF Next, Commits, Worker, Fibers, Fiber, StreamLoop, Reaper

LEMMA NextDecided ==
  ASSUME TurnInv, Next, ~Crash
  PROVE  DecidedTyped'
<1>1. Known \subseteq Known' /\ Decisions \subseteq Decisions'
  BY NextOutside, KnownStays
<1>2. MaybeTurn' = MaybeTurn /\ Statuses' = Statuses /\ Writers' = Writers
  BY DEF MaybeTurn, Statuses, Writers
<1>3. DecidedStep
  BY DecidedSteps
<1>4. chat' \in [status : Statuses', active : Known', pending : MaybeTurn']
  BY <1>1, <1>2, <1>3 DEF DecidedStep
<1>5. write' \in [Writers -> Decisions']
  BY <1>1, <1>3 DEF DecidedStep
<1> QED
  BY <1>2, <1>3, <1>4, <1>5 DEF DecidedStep, DecidedTyped

LEMMA NextReaper ==
  ASSUME TurnInv, Next, ~Crash
  PROVE  ReaperTyped'
<1>0. /\ reaper \in [at : {"resting", "reading", "lost", "idle"}, active : Known]
      /\ reaper.at = "lost" => reaper.active \in Turns /\ turn[reaper.active] = "ended"
  BY DEF TurnInv, ReaperTyped
<1>1. /\ Known \subseteq Known'
      /\ \A t \in Turns : turn[t] = "ended" => turn'[t] = "ended"
  BY NextOutside, KnownStays DEF OutsideStep
<1>2. ASSUME UNCHANGED reaper PROVE ReaperTyped'
  BY <1>0, <1>1, <1>2 DEF ReaperTyped
<1>3. ASSUME reaper' = Resting PROVE ReaperTyped'
  BY <1>3 DEF ReaperTyped, Resting, Known
<1>4. ASSUME Sweep PROVE ReaperTyped'
  <2>1. reaper' = [at |-> "reading", active |-> chat.active] /\ chat.active \in Known
    BY <1>4 DEF Sweep, TurnInv, DecidedTyped
  <2> QED
    BY <1>1, <2>1 DEF ReaperTyped
<1>5. ASSUME SweepLists PROVE ReaperTyped'
  <2>1. UNCHANGED <<turn, provider>>
    BY <1>5 DEF SweepLists, outside
  <2>2. CASE reaper.active # NoTurn /\ provider.active # reaper.active
    <3>1. reaper' = [reaper EXCEPT !.at = "lost"]
      BY <1>5, <2>2 DEF SweepLists
    <3>2. reaper.active \in Turns /\ turn[reaper.active] # "unsent"
      BY <1>0, <2>2 DEF Known
    <3>3. turn[reaper.active] = "ended"
      BY <2>2, <3>2 DEF TurnInv, OutsideTyped
    <3>4. /\ reaper' \in [at : {"resting", "reading", "lost", "idle"}, active : Known']
          /\ reaper'.active = reaper.active
      BY <1>0, <1>1, <3>1
    <3> QED
      BY <2>1, <3>2, <3>3, <3>4 DEF ReaperTyped
  <2>3. CASE reaper.active # NoTurn /\ provider.active = reaper.active
    BY <1>3, <1>5, <2>3 DEF SweepLists
  <2>4. CASE reaper.active = NoTurn
    <3>1. reaper' = [reaper EXCEPT !.at = "idle"]
      BY <1>5, <2>4 DEF SweepLists
    <3>2. /\ reaper' \in [at : {"resting", "reading", "lost", "idle"}, active : Known']
          /\ reaper'.at = "idle"
      BY <1>0, <1>1, <3>1
    <3> QED
      BY <3>2 DEF ReaperTyped
  <2> QED
    BY <2>2, <2>3, <2>4
<1>6. ASSUME SweepClears \/ SweepStops PROVE ReaperTyped'
  BY <1>3, <1>6 DEF SweepClears, SweepStops
<1>7. UNCHANGED reaper \/ Sweep \/ SweepLists \/ SweepClears \/ SweepStops
  <2>1. ASSUME NEW t \in Turns, Fiber(t) PROVE UNCHANGED reaper
    BY <2>1 DEF Fiber, Send, Resume, Accept, Answer, FiberInterrupt, FiberEnd, SendFails, SendNoted
  <2>2. ASSUME StreamLoop \/ Worker PROVE UNCHANGED reaper
    BY <2>2 DEF StreamLoop, Stream, StreamInterrupt, Worker, Take, Prepare, Tell, Stamp, Register,
                HandleInterrupt, List, Arm, Call, HandleStop, Stopped
  <2>3. ASSUME \/ \E t \in Turns : Start(t)
               \/ Request("interrupt") \/ Request("stop") \/ Ingest
               \/ \E w \in Writers : Commit(w)
               \/ Ends("completed") \/ Ends("failed") \/ Ends("aborted") \/ Announce \/ Die
               \/ Records \/ TimePasses \/ Expires
        PROVE  UNCHANGED reaper
    BY <2>3 DEF Start, Request, Ingest, Commit, Ends, End, Announce, Die, Records, Record,
                TimePasses, Expires, HoldExpires
  <2> QED
    BY <2>1, <2>2, <2>3 DEF Next, Commits, Fibers, Reaper
<1> QED
  BY <1>2, <1>4, <1>5, <1>6, <1>7

\* A step of the user, the engine, the provider, ingestion or the reaper, which
\* touches neither the worker nor the fibers.
Elsewhere ==
  \/ \E t \in Turns : Resume(t)
  \/ Ingest \/ Ends("completed") \/ Ends("failed") \/ Ends("aborted") \/ Announce \/ Die
  \/ Records \/ TimePasses \/ Expires \/ Sweep \/ Reaper

LEMMA ElsewhereKeeps ==
  ASSUME Elsewhere
  PROVE  UNCHANGED <<events, stream, queue, worker, entry, start, send, noted>>
<1>1. ASSUME Ingest \/ Announce \/ Die \/ TimePasses \/ Sweep \/ Reaper
      PROVE  UNCHANGED <<events, stream, queue, worker, entry, start, send, noted>>
  BY <1>1 DEF Ingest, Announce, Die, TimePasses, Sweep, Reaper, SweepLists, SweepClears,
              SweepStops, decided, reactor
<1>2. ASSUME \/ \E t \in Turns : Resume(t)
             \/ Ends("completed") \/ Ends("failed") \/ Ends("aborted") \/ Records \/ Expires
      PROVE  UNCHANGED <<events, stream, queue, worker, entry, start, send, noted>>
  BY <1>2 DEF Resume, Ends, End, Records, Record, Expires, HoldExpires, decided, reactor
<1> QED
  BY <1>1, <1>2 DEF Elsewhere

LEMMA NextReactor ==
  ASSUME TurnInv, Next, ~Crash
  PROVE  ReactorTyped'
<1>0. /\ events \in Seq(DomainEvents) /\ queue \in Seq(Asks)
      /\ stream \in {"reading", "interrupting"}
      /\ worker \in [at : Places, turn : MaybeTurn]
      /\ worker.at \in {"start", "stamp", "register", "list", "arm", "note"} => worker.turn \in Turns
      /\ entry \in MaybeTurn
      /\ start \in [Turns -> Flags]
      /\ send \in [Turns -> Sends]
  BY DEF TurnInv, ReactorTyped
<1>1. /\ ReactorTyped' <=>
           /\ events' \in Seq(DomainEvents) /\ queue' \in Seq(Asks)
           /\ stream' \in {"reading", "interrupting"}
           /\ worker' \in [at : Places, turn : MaybeTurn]
           /\ worker'.at \in {"start", "stamp", "register", "list", "arm", "note"}
                => worker'.turn \in Turns
           /\ entry' \in MaybeTurn
           /\ start' \in [Turns -> Flags]
           /\ send' \in [Turns -> Sends]
      /\ Turns \subseteq MaybeTurn /\ NoTurn \in MaybeTurn
  BY DEF ReactorTyped, DomainEvents, Asks, MaybeTurn
<1>2. ASSUME NEW t \in Turns, NEW s \in Sends, send' = [send EXCEPT ![t] = s]
      PROVE  send' \in [Turns -> Sends]
  BY <1>0, <1>2
<1>3. ASSUME NEW p \in Places, Goto(p),
             p \in {"start", "stamp", "register", "list", "arm", "note"} => worker.turn \in Turns
      PROVE  /\ worker' \in [at : Places, turn : MaybeTurn]
             /\ worker'.at \in {"start", "stamp", "register", "list", "arm", "note"}
                  => worker'.turn \in Turns
  <2>1. worker' = [worker EXCEPT !.at = p]
    BY <1>3 DEF Goto
  <2> QED
    BY <1>0, <1>3, <2>1
<1>4. Idle \in [at : Places, turn : MaybeTurn] /\ Idle.at = "idle"
  BY <1>1 DEF Idle, Places
<1>5. ASSUME NEW t \in Turns, Leave(t)
      PROVE  entry' \in MaybeTurn /\ start' \in [Turns -> Flags]
  <2>1. start' = [start EXCEPT ![t] = [Unmarked EXCEPT !.late = start[t].late]]
    BY <1>5 DEF Leave
  <2>2. [Unmarked EXCEPT !.late = start[t].late] \in Flags
    <3>1. start[t] \in Flags
      BY <1>0
    <3> QED
      BY <3>1 DEF Flags, Unmarked
  <2>3. entry' \in MaybeTurn
    BY <1>0, <1>1, <1>5 DEF Leave
  <2> QED
    BY <1>0, <2>1, <2>2, <2>3
<1>6. ASSUME Elsewhere PROVE ReactorTyped'
  BY <1>0, <1>1, <1>6, ElsewhereKeeps
<1>7. ASSUME NEW t \in Turns, Start(t) PROVE ReactorTyped'
  <2>1. /\ send' = [send EXCEPT ![t] = "asked"]
        /\ events' = Append(events, [kind |-> "start", turn |-> t])
        /\ UNCHANGED <<stream, queue, worker, entry, start>>
    BY <1>7 DEF Start, Asked
  <2>2. [kind |-> "start", turn |-> t] \in DomainEvents
    BY <1>1 DEF DomainEvents, Asks
  <2>3. events' \in Seq(DomainEvents)
    BY <1>0, <2>1, <2>2, LastJoins
  <2>4. send' \in [Turns -> Sends]
    BY <1>2, <2>1 DEF Sends
  <2> QED
    BY <1>0, <1>1, <2>1, <2>3, <2>4
<1>8. ASSUME NEW k \in {"interrupt", "stop"}, Request(k) PROVE ReactorTyped'
  <2>1. /\ events' = Append(events, [kind |-> k, turn |-> NoTurn])
        /\ UNCHANGED <<stream, queue, worker, entry, start, send>>
    BY <1>8 DEF Request, Asked
  <2>2. [kind |-> k, turn |-> NoTurn] \in DomainEvents
    BY <1>1 DEF DomainEvents, Asks
  <2>3. events' \in Seq(DomainEvents)
    BY <1>0, <2>1, <2>2, LastJoins
  <2> QED
    BY <1>0, <1>1, <2>1, <2>3
<1>9. ASSUME NEW w \in Writers, Commit(w) PROVE ReactorTyped'
  <2>1. /\ UNCHANGED <<stream, queue, worker, entry, start, send>>
        /\ \/ UNCHANGED events
           \/ events' = Append(events, [kind |-> "session", turn |-> write[w].active])
    BY <1>9 DEF Commit
  <2>2. [kind |-> "session", turn |-> write[w].active] \in DomainEvents
    <3>1. write[w] \in Decisions
      BY DEF TurnInv, DecidedTyped
    <3>2. write[w].active \in MaybeTurn
      BY <3>1 DEF Decisions, Known, MaybeTurn
    <3> QED
      BY <3>2 DEF DomainEvents
  <2>3. Append(events, [kind |-> "session", turn |-> write[w].active]) \in Seq(DomainEvents)
    BY <1>0, <2>2, LastJoins
  <2>4. events' \in Seq(DomainEvents)
    BY <1>0, <2>1, <2>3
  <2> QED
    BY <1>0, <1>1, <2>1, <2>4
<1>10. ASSUME Stream PROVE ReactorTyped'
  <2>1. events # <<>> /\ events' = Tail(events) /\ UNCHANGED <<worker, entry, send>>
    BY <1>10 DEF Stream
  <2>2. events' \in Seq(DomainEvents) /\ Head(events) \in DomainEvents
    BY <1>0, <2>1, FirstLeaves
  <2>3. queue' \in Seq(Asks)
    <3>1. CASE Head(events).kind # "session"
      <4>1. Head(events) \in Asks
        BY <2>2, <3>1 DEF DomainEvents
      <4>2. queue' = Append(queue, Head(events))
        BY <1>10, <3>1 DEF Stream
      <4> QED
        BY <1>0, <4>1, <4>2, LastJoins
    <3>2. CASE Head(events).kind = "session"
      BY <1>0, <1>10, <3>2 DEF Stream
    <3> QED
      BY <3>1, <3>2
  <2>4. stream' \in {"reading", "interrupting"}
    BY <1>0, <1>10 DEF Stream
  <2>5. start' \in [Turns -> Flags]
    <3>1. \/ UNCHANGED start
          \/ /\ entry # NoTurn
             /\ start' = [start EXCEPT ![entry].observed = TRUE,
                                       ![entry].late = @ /\ ~start[entry].cancelled]
      BY <1>10 DEF Stream
    <3>2. entry # NoTurn => entry \in Turns
      BY <1>0 DEF MaybeTurn
    <3>3. ASSUME entry # NoTurn
          PROVE  [start EXCEPT ![entry].observed = TRUE,
                               ![entry].late = @ /\ ~start[entry].cancelled]
                   \in [Turns -> Flags]
      <4>1. start[entry] \in Flags /\ entry \in Turns
        BY <1>0, <3>2, <3>3
      <4>2. [start[entry] EXCEPT !.observed = TRUE, !.late = @ /\ ~start[entry].cancelled]
              \in Flags
        BY <4>1 DEF Flags
      <4> QED
        BY <1>0, <4>1, <4>2
    <3> QED
      BY <1>0, <3>1, <3>3
  <2> QED
    BY <1>0, <1>1, <2>1, <2>2, <2>3, <2>4, <2>5
<1>11. ASSUME StreamInterrupt PROVE ReactorTyped'
  BY <1>0, <1>1, <1>11 DEF StreamInterrupt
<1>12. ASSUME Take PROVE ReactorTyped'
  <2>1. /\ queue # <<>> /\ queue' = Tail(queue)
        /\ worker' = [at |-> Head(queue).kind, turn |-> Head(queue).turn]
        /\ UNCHANGED <<events, stream, entry, start, send>>
    BY <1>12 DEF Take
  <2>2. queue' \in Seq(Asks) /\ Head(queue) \in Asks
    BY <1>0, <2>1, FirstLeaves
  <2>3. /\ Head(queue).kind \in {"start", "interrupt", "stop"} /\ Head(queue).turn \in MaybeTurn
        /\ Head(queue).kind = "start" => Head(queue).turn \in Turns
    BY <2>2 DEF Asks
  <2>4. /\ worker' \in [at : Places, turn : MaybeTurn]
        /\ worker'.at \in {"start", "stamp", "register", "list", "arm", "note"}
             => worker'.turn \in Turns
    BY <2>1, <2>3 DEF Places
  <2> QED
    BY <1>0, <1>1, <2>1, <2>2, <2>4
<1>13. ASSUME Prepare PROVE ReactorTyped'
  <2>1. /\ Goto("stamp") \/ Goto("note")
        /\ UNCHANGED <<events, stream, queue, entry, start, send>>
        /\ worker.turn \in Turns
    BY <1>0, <1>13 DEF Prepare, At
  <2>2. /\ worker' \in [at : Places, turn : MaybeTurn]
        /\ worker'.at \in {"start", "stamp", "register", "list", "arm", "note"}
             => worker'.turn \in Turns
    BY <1>3, <2>1 DEF Places
  <2> QED
    BY <1>0, <1>1, <2>1, <2>2
<1>14. ASSUME Tell PROVE ReactorTyped'
  <2>1. /\ send' = [send EXCEPT ![worker.turn] = IF @ = "asked" THEN "done" ELSE @]
        /\ worker' = Idle /\ UNCHANGED <<events, stream, queue, entry, start>>
    BY <1>14 DEF Tell
  <2>2. send' \in [Turns -> Sends]
    BY <1>0, <2>1 DEF Sends
  <2> QED
    BY <1>0, <1>1, <1>4, <2>1, <2>2
<1>15. ASSUME Stamp PROVE ReactorTyped'
  <2>1. /\ Goto("register") /\ worker.turn \in Turns
        /\ UNCHANGED <<events, stream, queue, entry, start, send>>
    BY <1>0, <1>15 DEF Stamp, At
  <2>2. /\ worker' \in [at : Places, turn : MaybeTurn]
        /\ worker'.at \in {"start", "stamp", "register", "list", "arm", "note"}
             => worker'.turn \in Turns
    BY <1>3, <2>1 DEF Places
  <2> QED
    BY <1>0, <1>1, <2>1, <2>2
<1>16. ASSUME Register PROVE ReactorTyped'
  <2>1. /\ worker.turn \in Turns /\ entry' = worker.turn /\ worker' = Idle
        /\ send' = [send EXCEPT ![worker.turn] = "forked"]
        /\ UNCHANGED <<events, stream, queue, start>>
    BY <1>0, <1>16 DEF Register, At
  <2>2. send' \in [Turns -> Sends]
    BY <1>2, <2>1 DEF Sends
  <2> QED
    BY <1>0, <1>1, <1>4, <2>1, <2>2
<1>17. ASSUME HandleInterrupt PROVE ReactorTyped'
  <2>1. UNCHANGED <<events, stream, queue, entry, send>>
    BY <1>17 DEF HandleInterrupt
  <2>2. CASE entry = NoTurn
    <3>1. Goto("call") /\ UNCHANGED start
      BY <1>17, <2>2 DEF HandleInterrupt
    <3>2. /\ worker' \in [at : Places, turn : MaybeTurn]
          /\ worker'.at \in {"start", "stamp", "register", "list", "arm", "note"}
               => worker'.turn \in Turns
      BY <1>3, <3>1 DEF Places
    <3> QED
      BY <1>0, <1>1, <2>1, <3>1, <3>2
  <2>3. CASE entry # NoTurn
    <3>1. /\ start' = [start EXCEPT ![entry].cancelled = TRUE]
          /\ \E p \in {"note", "call", "list"} : worker' = [at |-> p, turn |-> entry]
      BY <1>17, <2>3 DEF HandleInterrupt
    <3>2. entry \in Turns
      BY <1>0, <2>3 DEF MaybeTurn
    <3>3. start' \in [Turns -> Flags]
      BY <1>0, <3>1, <3>2 DEF Flags
    <3>4. /\ worker' \in [at : Places, turn : MaybeTurn]
          /\ worker'.at \in {"start", "stamp", "register", "list", "arm", "note"}
               => worker'.turn \in Turns
      BY <1>1, <3>1, <3>2 DEF Places
    <3> QED
      BY <1>0, <1>1, <2>1, <3>3, <3>4
  <2> QED
    BY <2>2, <2>3
<1>18. ASSUME List PROVE ReactorTyped'
  <2>1. /\ Goto("call") \/ Goto("arm")
        /\ UNCHANGED <<events, stream, queue, entry, start, send>>
        /\ worker.turn \in Turns
    BY <1>0, <1>18 DEF List, At
  <2>2. /\ worker' \in [at : Places, turn : MaybeTurn]
        /\ worker'.at \in {"start", "stamp", "register", "list", "arm", "note"}
             => worker'.turn \in Turns
    BY <1>3, <2>1 DEF Places
  <2> QED
    BY <1>0, <1>1, <2>1, <2>2
<1>19. ASSUME Arm PROVE ReactorTyped'
  <2>1. /\ start' = [start EXCEPT ![worker.turn].late = TRUE] /\ worker.turn \in Turns
        /\ worker' = Idle /\ UNCHANGED <<events, stream, queue, entry, send>>
    BY <1>0, <1>19 DEF Arm, At
  <2>2. start' \in [Turns -> Flags]
    BY <1>0, <2>1 DEF Flags
  <2> QED
    BY <1>0, <1>1, <1>4, <2>1, <2>2
<1>20. ASSUME Call \/ Stopped PROVE ReactorTyped'
  <2>1. worker' = Idle /\ UNCHANGED <<events, stream, queue, entry, start, send>>
    BY <1>20 DEF Call, Stopped
  <2> QED
    BY <1>0, <1>1, <1>4, <2>1
<1>21. ASSUME HandleStop PROVE ReactorTyped'
  <2>1. Goto("stopped") /\ UNCHANGED <<events, stream, queue, entry, start, send>>
    BY <1>21 DEF HandleStop
  <2>2. /\ worker' \in [at : Places, turn : MaybeTurn]
        /\ worker'.at \in {"start", "stamp", "register", "list", "arm", "note"}
             => worker'.turn \in Turns
    BY <1>3, <2>1 DEF Places
  <2> QED
    BY <1>0, <1>1, <2>1, <2>2
<1>22. ASSUME NEW t \in Turns, Send(t) PROVE ReactorTyped'
  <2>1. UNCHANGED <<events, stream, queue, worker>>
    BY <1>22 DEF Send
  <2>2. \/ send' = [send EXCEPT ![t] = "done"] /\ Leave(t)
        \/ /\ send' = [send EXCEPT ![t] = "sending"]
           /\ start' = [start EXCEPT ![t].dispatched = TRUE]
           /\ UNCHANGED entry
    BY <1>22 DEF Send
  <2>3. send' \in [Turns -> Sends]
    BY <1>2, <2>2 DEF Sends
  <2>4. entry' \in MaybeTurn /\ start' \in [Turns -> Flags]
    <3>1. CASE Leave(t)
      BY <1>5, <3>1
    <3>2. CASE start' = [start EXCEPT ![t].dispatched = TRUE] /\ UNCHANGED entry
      BY <1>0, <3>2 DEF Flags
    <3> QED
      BY <2>2, <3>1, <3>2
  <2> QED
    BY <1>0, <1>1, <2>1, <2>3, <2>4
<1>23. ASSUME NEW t \in Turns, Accept(t) \/ FiberInterrupt(t) \/ SendFails(t) PROVE ReactorTyped'
  <2>1. /\ UNCHANGED <<events, stream, queue, worker, entry, start>>
        /\ \E s \in {"accepted", "settling", "failed"} : send' = [send EXCEPT ![t] = s]
    BY <1>23 DEF Accept, FiberInterrupt, SendFails
  <2>2. send' \in [Turns -> Sends]
    BY <1>2, <2>1 DEF Sends
  <2> QED
    BY <1>0, <1>1, <2>1, <2>2
<1>24. ASSUME NEW t \in Turns, Answer(t) \/ FiberEnd(t) \/ SendNoted(t) PROVE ReactorTyped'
  <2>1. /\ UNCHANGED <<events, stream, queue, worker>>
        /\ \E s \in {"interrupting", "done"} : send' = [send EXCEPT ![t] = s]
        /\ \/ Leave(t)
           \/ start' = [start EXCEPT ![t].late = FALSE] /\ UNCHANGED entry
    BY <1>24 DEF Answer, FiberEnd, SendNoted
  <2>2. send' \in [Turns -> Sends]
    BY <1>2, <2>1 DEF Sends
  <2>3. entry' \in MaybeTurn /\ start' \in [Turns -> Flags]
    <3>1. CASE Leave(t)
      BY <1>5, <3>1
    <3>2. CASE start' = [start EXCEPT ![t].late = FALSE] /\ UNCHANGED entry
      BY <1>0, <3>2 DEF Flags
    <3> QED
      BY <2>1, <3>1, <3>2
  <2> QED
    BY <1>0, <1>1, <2>1, <2>2, <2>3
<1> QED
  BY <1>6, <1>7, <1>8, <1>9, <1>10, <1>11, <1>12, <1>13, <1>14, <1>15, <1>16, <1>17, <1>18, <1>19,
     <1>20, <1>21, <1>22, <1>23, <1>24
     DEF Next, Commits, Worker, Fibers, Fiber, StreamLoop, Elsewhere

-----------------------------------------------------------------------------
(* The places where a start waits, and the fibers *)

\* What waits in a queue is a start of a turn.
LEMMA StartsInTurns ==
  ASSUME NEW q \in Seq(DomainEvents)
  PROVE  StartsIn(q) \subseteq Turns
<1> SUFFICES ASSUME NEW i \in DOMAIN q, q[i].kind = "start" PROVE q[i].turn \in Turns
  BY DEF StartsIn
<1>1. q[i] \in DomainEvents
  BY ElementOfSeq, LenProperties
<1> QED
  BY <1>1 DEF DomainEvents, Asks

\* A turn whose start waits was asked for and no more.
LEMMA WaitingTyped ==
  ASSUME TurnInv
  PROVE  /\ StartsIn(events) \cup StartsIn(queue) \subseteq Turns
         /\ queue \in Seq(DomainEvents) /\ queue \in Seq(Asks) /\ events \in Seq(DomainEvents)
<1>1. events \in Seq(DomainEvents) /\ queue \in Seq(Asks)
  BY DEF TurnInv, ReactorTyped
<1>2. queue \in Seq(DomainEvents)
  BY <1>1, SeqMonotonic DEF DomainEvents
<1> QED
  BY <1>1, <1>2, StartsInTurns

FiberMoves(t) == \/ Send(t) \/ Accept(t) \/ Answer(t) \/ FiberInterrupt(t) \/ FiberEnd(t)
                 \/ SendFails(t) \/ SendNoted(t)

\* A fiber moves its turn alone, and leaves nothing of it in the map of pending
\* starts when it is done.
LEMMA FiberEffect ==
  ASSUME TurnInv, NEW t \in Turns, FiberMoves(t)
  PROVE  /\ send[t] \notin {"new", "asked", "done"}
         /\ send'[t] \in Underway \cup {"done"}
         /\ send'[t] = "sending" => send[t] = "forked"
         /\ send[t] = "forked" /\ start[t].cancelled => send'[t] = "done"
         /\ \A u \in Turns : u # t => send'[u] = send[u] /\ start'[u] = start[u]
         /\ UNCHANGED <<events, queue, worker>>
         /\ entry' = entry \/ entry' = NoTurn
         /\ send'[t] = "done" => entry' # t
         /\ send'[t] # "done" => start'[t].dispatched
         /\ noted' = noted \/ (noted' = noted \cup {t} /\ send'[t] = "done")
<1>0. /\ send \in [Turns -> Sends] /\ start \in [Turns -> Flags] /\ start[t] \in Flags
      /\ send[t] \in Underway => start[t].dispatched
      /\ NoTurn \notin Turns
  BY TurnConstants DEF TurnInv, ReactorTyped, ReportedIsOver
<1>1. ASSUME NEW f, start' = [start EXCEPT ![t] = f]
      PROVE  start'[t] = f /\ \A u \in Turns : u # t => start'[u] = start[u]
  BY <1>0, <1>1
<1>2. ASSUME NEW s, send' = [send EXCEPT ![t] = s]
      PROVE  send'[t] = s /\ \A u \in Turns : u # t => send'[u] = send[u]
  BY <1>0, <1>2
<1>3. ASSUME Leave(t)
      PROVE  /\ \A u \in Turns : u # t => start'[u] = start[u]
             /\ entry' = entry \/ entry' = NoTurn
             /\ entry' # t
  BY <1>0, <1>1, <1>3 DEF Leave
<1>4. CASE Send(t)
  <2>1. send[t] = "forked" /\ UNCHANGED <<events, queue, worker, noted>>
    BY <1>4 DEF Send, decided
  <2>2. CASE start[t].cancelled
    <3>1. send' = [send EXCEPT ![t] = "done"] /\ Leave(t)
      BY <1>4, <2>2 DEF Send, Withdrawn
    <3> QED
      BY <1>2, <1>3, <2>1, <3>1
  <2>3. CASE ~start[t].cancelled
    <3>1. /\ send' = [send EXCEPT ![t] = "sending"]
          /\ start' = [start EXCEPT ![t].dispatched = TRUE]
          /\ UNCHANGED entry
      BY <1>4, <2>3 DEF Send, Withdrawn
    <3>2. start'[t].dispatched
      BY <1>0, <3>1 DEF Flags
    <3> QED
      BY <1>0, <1>2, <2>1, <2>3, <3>1, <3>2 DEF Underway
  <2> QED
    BY <2>2, <2>3
<1>5. CASE Accept(t) \/ FiberInterrupt(t) \/ SendFails(t)
  <2>1. /\ send[t] \in Underway \cap {"sending", "accepted", "interrupting"}
        /\ UNCHANGED <<events, queue, worker, entry, start, noted>>
        /\ \E s \in {"accepted", "settling", "failed"} : send' = [send EXCEPT ![t] = s]
    BY <1>5 DEF Accept, FiberInterrupt, SendFails, Interrupt, decided, Underway
  <2> QED
    BY <1>0, <1>2, <2>1 DEF Underway
<1>6. CASE Answer(t)
  <2>1. send[t] = "accepted" /\ UNCHANGED <<events, queue, worker, noted>>
    BY <1>6 DEF Answer, decided
  <2>2. CASE start[t].late
    <3>1. /\ start' = [start EXCEPT ![t].late = FALSE]
          /\ send' = [send EXCEPT ![t] = "interrupting"]
          /\ UNCHANGED entry
      BY <1>6, <2>2 DEF Answer
    <3>2. start'[t].dispatched
      BY <1>0, <2>1, <3>1 DEF Flags, Underway
    <3> QED
      BY <1>0, <1>2, <2>1, <3>1, <3>2 DEF Underway
  <2>3. CASE ~start[t].late
    <3>1. send' = [send EXCEPT ![t] = "done"] /\ Leave(t)
      BY <1>6, <2>3 DEF Answer
    <3> QED
      BY <1>2, <1>3, <2>1, <3>1
  <2> QED
    BY <2>2, <2>3
<1>7. CASE FiberEnd(t) \/ SendNoted(t)
  <2>1. /\ send[t] \in {"settling", "failed"} /\ UNCHANGED <<events, queue, worker>>
        /\ send' = [send EXCEPT ![t] = "done"] /\ Leave(t)
        /\ noted' = noted \/ noted' = noted \cup {t}
    BY <1>7 DEF FiberEnd, SendNoted, Note, decided
  <2> QED
    BY <1>2, <1>3, <2>1
<1> QED
  BY <1>4, <1>5, <1>6, <1>7 DEF FiberMoves

\* A step of the worker that hands no start on.
WorkerMoves == Prepare \/ Stamp \/ List \/ Arm \/ Call \/ HandleStop \/ Stopped

LEMMA WorkerEffect ==
  ASSUME TurnInv, WorkerMoves
  PROVE  /\ UNCHANGED <<events, queue, entry, send, noted>>
         /\ \A t \in Turns : /\ start'[t].dispatched = start[t].dispatched
                             /\ start'[t].cancelled = start[t].cancelled
         /\ worker'.at \in {"stamp", "register", "note"} =>
              worker.at \in {"start", "stamp"} /\ worker'.turn = worker.turn
         /\ worker'.at # "start"
<1>0. /\ worker \in [at : Places, turn : MaybeTurn] /\ start \in [Turns -> Flags]
      /\ worker.at = "arm" => worker.turn \in Turns
  BY DEF TurnInv, ReactorTyped
<1>1. UNCHANGED <<events, queue, entry, send, noted>>
  BY DEF WorkerMoves, Prepare, Stamp, List, Arm, Call, HandleStop, Stopped, Interrupt, decided
<1>2. \/ UNCHANGED start
      \/ worker.turn \in Turns /\ start' = [start EXCEPT ![worker.turn].late = TRUE]
  BY <1>0 DEF WorkerMoves, Prepare, Stamp, List, Arm, Call, HandleStop, Stopped, At
<1>3. \A t \in Turns : /\ start'[t].dispatched = start[t].dispatched
                       /\ start'[t].cancelled = start[t].cancelled
  BY <1>0, <1>2 DEF Flags
<1>4. \/ worker.at \in {"start", "stamp"}
         /\ \E p \in {"stamp", "note", "register"} : worker' = [worker EXCEPT !.at = p]
      \/ \E p \in {"call", "arm", "stopped"} : worker' = [worker EXCEPT !.at = p]
      \/ worker' = Idle
  BY DEF WorkerMoves, Prepare, Stamp, List, Arm, Call, HandleStop, Stopped, At, Goto
<1>5. /\ worker'.at \in {"stamp", "register", "note"} =>
              worker.at \in {"start", "stamp"} /\ worker'.turn = worker.turn
      /\ worker'.at # "start"
  BY <1>0, <1>4 DEF Idle
<1> QED
  BY <1>1, <1>3, <1>5

\* Next without the crash, by what the steps do to the turns.
LEMMA NextCases ==
  ASSUME Next, ~Crash
  PROVE  \/ Elsewhere \/ WorkerMoves
         \/ \E t \in Turns : Start(t) \/ FiberMoves(t)
         \/ Request("interrupt") \/ Request("stop")
         \/ \E w \in Writers : Commit(w)
         \/ Stream \/ StreamInterrupt \/ Take \/ Tell \/ Register \/ HandleInterrupt
BY DEF Next, Commits, Elsewhere, WorkerMoves, FiberMoves, Worker, Fibers, Fiber, StreamLoop

LEMMA NextSends ==
  ASSUME TurnInv, Next, ~Crash
  PROVE  SendsInStep'
<1> DEFINE Early == {"new", "asked", "forked", "sending"}
           Kept  == \A t \in Turns : send'[t] \in Early => send[t] \in Early
           Held1 == entry' # NoTurn => send'[entry'] \notin {"new", "asked", "done"}
<1>0. /\ \A t \in Turns : send[t] \in Early => turn[t] = "unsent"
      /\ entry # NoTurn => send[entry] \notin {"new", "asked", "done"}
      /\ send \in [Turns -> Sends] /\ entry \in MaybeTurn /\ MaybeTurn = Turns \cup {NoTurn}
      /\ worker.at \in {"start", "stamp", "register", "list", "arm", "note"} => worker.turn \in Turns
      /\ worker.at \in {"start", "stamp", "register"} => send[worker.turn] = "asked"
  BY DEF TurnInv, ReactorTyped, SendsInStep, StartsOnce, MaybeTurn
<1>1. ASSUME UNCHANGED <<send, entry>> PROVE Kept /\ Held1
  BY <1>0, <1>1
<1>2. ASSUME \/ Elsewhere \/ WorkerMoves
             \/ Request("interrupt") \/ Request("stop")
             \/ \E w \in Writers : Commit(w)
             \/ Stream \/ StreamInterrupt \/ Take \/ HandleInterrupt
      PROVE  Kept /\ Held1
  <2>1. UNCHANGED <<send, entry>>
    BY <1>2, ElsewhereKeeps, WorkerEffect
       DEF Request, Commit, Stream, StreamInterrupt, Take, HandleInterrupt
  <2> QED
    BY <1>1, <2>1
<1>3. ASSUME NEW t \in Turns, Start(t) PROVE Kept /\ Held1
  <2>1. send[t] = "new" /\ send' = [send EXCEPT ![t] = "asked"] /\ UNCHANGED entry
    BY <1>3 DEF Start
  <2> QED
    BY <1>0, <2>1
<1>4. ASSUME NEW t \in Turns, FiberMoves(t) PROVE Kept /\ Held1
  <2>1. Kept
    BY <1>0, <1>4, FiberEffect DEF Underway
  <2>2. Held1
    BY <1>0, <1>4, FiberEffect DEF Underway
  <2> QED
    BY <2>1, <2>2
<1>5. ASSUME Tell PROVE Kept /\ Held1
  <2>1. /\ send' = [send EXCEPT ![worker.turn] = IF @ = "asked" THEN "done" ELSE @]
        /\ UNCHANGED entry
    BY <1>5 DEF Tell
  <2> QED
    BY <1>0, <2>1
<1>6. ASSUME Register PROVE Kept /\ Held1
  <2>1. /\ send' = [send EXCEPT ![worker.turn] = "forked"] /\ entry' = worker.turn
        /\ worker.turn \in Turns /\ send[worker.turn] = "asked"
    BY <1>0, <1>6 DEF Register, At
  <2> QED
    BY <1>0, <2>1
<1>7. Kept /\ Held1
  BY <1>2, <1>3, <1>4, <1>5, <1>6, NextCases
<1>8. \A t \in Turns : send'[t] \in Early => turn'[t] = "unsent"
  <2>1. \A t \in Turns : turn[t] = "unsent" => turn'[t] = "unsent" \/ send'[t] = "accepted"
    BY NextOutside DEF OutsideStep
  <2> QED
    BY <1>0, <1>7, <2>1
<1> QED
  BY <1>7, <1>8 DEF SendsInStep

LEMMA NextStarts ==
  ASSUME TurnInv, Next, ~Crash
  PROVE  StartsOnce'
<1> DEFINE Waiting == StartsIn(events) \cup StartsIn(queue)
<1>0. /\ OnceEach(events) /\ OnceEach(queue)
      /\ StartsIn(events) \cap StartsIn(queue) = {}
      /\ \A t \in Waiting : send[t] = "asked"
      /\ worker.at \in {"start", "stamp", "register"} => send[worker.turn] = "asked"
      /\ worker.at \in {"start", "stamp", "register", "note"} => worker.turn \notin Waiting
      /\ worker.at \in {"start", "stamp", "register", "note"} => worker.turn \in Turns
      /\ worker.at = "note" => IsOver(worker.turn) \/ send[worker.turn] = "asked"
      /\ send \in [Turns -> Sends] /\ entry \in MaybeTurn /\ MaybeTurn = Turns \cup {NoTurn}
      /\ entry # NoTurn => send[entry] \notin {"new", "asked", "done"}
  BY DEF TurnInv, StartsOnce, ReactorTyped, ReportedIsOver, MaybeTurn, SendsInStep
<1>1. /\ Waiting \subseteq Turns
      /\ events \in Seq(DomainEvents) /\ queue \in Seq(DomainEvents) /\ queue \in Seq(Asks)
  BY WaitingTyped
<1>2. ASSUME UNCHANGED <<events, queue>>,
             \A t \in Waiting : send'[t] = "asked",
             worker'.at \in {"start", "stamp", "register"} => send'[worker'.turn] = "asked",
             worker'.at \in {"start", "stamp", "register", "note"} => worker'.turn \notin Waiting
      PROVE  StartsOnce'
  BY <1>0, <1>2 DEF StartsOnce
<1>3. ASSUME UNCHANGED <<events, queue, worker, send>> PROVE StartsOnce'
  BY <1>0, <1>2, <1>3
<1>4. ASSUME Elsewhere \/ StreamInterrupt PROVE StartsOnce'
  BY <1>3, <1>4, ElsewhereKeeps DEF StreamInterrupt
<1>5. ASSUME WorkerMoves PROVE StartsOnce'
  <2>1. /\ UNCHANGED <<events, queue, send>>
        /\ worker'.at \in {"stamp", "register", "note"} =>
              worker.at \in {"start", "stamp"} /\ worker'.turn = worker.turn
        /\ worker'.at # "start"
    BY <1>5, WorkerEffect
  <2> QED
    BY <1>0, <1>2, <2>1
<1>6. ASSUME NEW t \in Turns, FiberMoves(t) PROVE StartsOnce'
  <2>1. /\ send[t] # "asked" /\ UNCHANGED <<events, queue, worker>>
        /\ \A u \in Turns : u # t => send'[u] = send[u]
    BY <1>6, FiberEffect
  <2> QED
    BY <1>0, <1>1, <1>2, <2>1
<1>7. ASSUME Tell \/ Register PROVE StartsOnce'
  <2>1. /\ worker.turn \in Turns /\ worker.turn \notin Waiting
        /\ worker' = Idle /\ UNCHANGED <<events, queue>>
        /\ \E s : send' = [send EXCEPT ![worker.turn] = s]
    BY <1>0, <1>7 DEF Tell, Register, At
  <2>2. \A t \in Waiting : send'[t] = send[t]
    BY <1>0, <1>1, <2>1
  <2> QED
    BY <1>0, <1>2, <2>1, <2>2 DEF Idle
<1>8. ASSUME HandleInterrupt PROVE StartsOnce'
  <2>1. /\ UNCHANGED <<events, queue, send>>
        /\ \/ worker' = [worker EXCEPT !.at = "call"]
           \/ entry # NoTurn /\ \E p \in {"note", "call", "list"} : worker' = [at |-> p, turn |-> entry]
    BY <1>8 DEF HandleInterrupt, Goto
  <2>2. entry # NoTurn => entry \notin Waiting
    BY <1>0
  <2>3. /\ worker'.at \notin {"start", "stamp", "register"}
        /\ worker'.at = "note" => worker'.turn \notin Waiting
    <3>1. worker \in [at : Places, turn : MaybeTurn]
      BY DEF TurnInv, ReactorTyped
    <3> QED
      BY <2>1, <2>2, <3>1
  <2> QED
    BY <1>0, <1>2, <2>1, <2>3
<1>9. ASSUME NEW t \in Turns, Start(t) PROVE StartsOnce'
  <2> DEFINE e == [kind |-> "start", turn |-> t]
  <2>1. /\ send[t] = "new" /\ send' = [send EXCEPT ![t] = "asked"]
        /\ events' = Append(events, e) /\ UNCHANGED <<queue, worker>>
    BY <1>9 DEF Start, Asked
  <2>2. e \in DomainEvents /\ e.kind = "start" /\ e.turn = t
    BY DEF DomainEvents, Asks, MaybeTurn
  <2>3. t \notin Waiting
    BY <1>0, <2>1
  <2> HIDE DEF e
  <2>4. StartsIn(events') = StartsIn(events) \cup {t} /\ OnceEach(events')
    BY <1>0, <1>1, <2>1, <2>2, <2>3, StartJoins
  <2>5. send'[t] = "asked" /\ \A u \in Turns : u # t => send'[u] = send[u]
    BY <1>0, <2>1
  <2>6. worker.at \in {"start", "stamp", "register", "note"} => worker.turn # t
    BY <1>0, <2>1 DEF IsOver
  <2> QED
    BY <1>0, <1>1, <2>1, <2>3, <2>4, <2>5, <2>6 DEF StartsOnce
<1>10. ASSUME NEW e \in DomainEvents, e.kind # "start", events' = Append(events, e),
              UNCHANGED <<queue, worker, send>>
       PROVE  StartsOnce'
  <2>1. /\ StartsIn(Append(events, e))
             = StartsIn(events) \cup (IF e.kind = "start" THEN {e.turn} ELSE {})
        /\ (e.kind = "start" => e.turn \notin StartsIn(events)) => OnceEach(Append(events, e))
    BY <1>0, <1>1, StartJoins
  <2>2. StartsIn(events') = StartsIn(events) /\ OnceEach(events')
    BY <1>10, <2>1
  <2> QED
    BY <1>0, <1>10, <2>2 DEF StartsOnce
<1>11. ASSUME Request("interrupt") \/ Request("stop") PROVE StartsOnce'
  <2>1. /\ UNCHANGED <<queue, worker, send>>
        /\ \E k \in {"interrupt", "stop"} : events' = Append(events, [kind |-> k, turn |-> NoTurn])
    BY <1>11 DEF Request, Asked
  <2>2. \A k \in {"interrupt", "stop"} : [kind |-> k, turn |-> NoTurn] \in DomainEvents
    BY DEF DomainEvents, Asks, MaybeTurn
  <2> QED
    BY <1>10, <2>1, <2>2
<1>12. ASSUME NEW w \in Writers, Commit(w) PROVE StartsOnce'
  <2>1. /\ UNCHANGED <<queue, worker, send>>
        /\ \/ UNCHANGED events
           \/ events' = Append(events, [kind |-> "session", turn |-> write[w].active])
    BY <1>12 DEF Commit
  <2>2. [kind |-> "session", turn |-> write[w].active] \in DomainEvents
    <3>1. write[w] \in Decisions
      BY DEF TurnInv, DecidedTyped
    <3>2. write[w].active \in MaybeTurn
      BY <3>1 DEF Decisions, Known, MaybeTurn
    <3> QED
      BY <3>2 DEF DomainEvents
  <2> QED
    BY <1>3, <1>10, <2>1, <2>2
<1>13. ASSUME Stream PROVE StartsOnce'
  <2> DEFINE e == Head(events)
  <2>1. /\ events # <<>> /\ events' = Tail(events) /\ UNCHANGED <<worker, send>>
        /\ \/ e.kind # "session" /\ queue' = Append(queue, e)
           \/ queue' = queue
    BY <1>13 DEF Stream
  <2>2. e \in DomainEvents
    BY <1>1, <2>1, FirstLeaves
  <2> HIDE DEF e
  <2>3. /\ OnceEach(events') /\ StartsIn(events') \subseteq StartsIn(events)
        /\ e.kind = "start" => e.turn \in StartsIn(events) /\ e.turn \notin StartsIn(events')
    BY <1>0, <1>1, <2>1, StartLeaves DEF e
  <2>4. CASE queue' = queue
    BY <1>0, <2>1, <2>3, <2>4 DEF StartsOnce
  <2>5. CASE queue' = Append(queue, e)
    <3>1. /\ StartsIn(queue') = StartsIn(queue) \cup (IF e.kind = "start" THEN {e.turn} ELSE {})
          /\ (e.kind = "start" => e.turn \notin StartsIn(queue)) => OnceEach(queue')
      BY <1>0, <1>1, <2>2, <2>5, StartJoins
    <3>2. /\ OnceEach(queue')
          /\ StartsIn(events') \cap StartsIn(queue') = {}
          /\ StartsIn(events') \cup StartsIn(queue') \subseteq Waiting
      BY <1>0, <2>3, <3>1
    <3> QED
      BY <1>0, <2>1, <2>3, <3>2 DEF StartsOnce
  <2> QED
    BY <2>1, <2>4, <2>5
<1>14. ASSUME Take PROVE StartsOnce'
  <2> DEFINE e == Head(queue)
  <2>1. /\ queue # <<>> /\ queue' = Tail(queue) /\ UNCHANGED <<events, send>>
        /\ worker' = [at |-> e.kind, turn |-> e.turn]
    BY <1>14 DEF Take
  <2>2. e \in Asks
    BY <1>1, <2>1, FirstLeaves
  <2>3. e.kind \in {"start", "interrupt", "stop"}
    BY <2>2 DEF Asks
  <2> HIDE DEF e
  <2>4. /\ OnceEach(queue') /\ StartsIn(queue') \subseteq StartsIn(queue)
        /\ e.kind = "start" => e.turn \in StartsIn(queue) /\ e.turn \notin StartsIn(queue')
    BY <1>0, <1>1, <2>1, StartLeaves DEF e
  <2>5. worker'.at = e.kind /\ worker'.turn = e.turn
    BY <2>1
  <2> QED
    BY <1>0, <2>1, <2>3, <2>4, <2>5 DEF StartsOnce
<1> QED
  BY <1>4, <1>5, <1>6, <1>7, <1>8, <1>9, <1>11, <1>12, <1>13, <1>14, NextCases

LEMMA NextReported ==
  ASSUME TurnInv, Next, ~Crash
  PROVE  ReportedIsOver'
<1>0. /\ \A t \in Turns : send[t] \in Underway => start[t].dispatched
      /\ \A t \in noted : IsOver(t)
      /\ worker.at = "note" => IsOver(worker.turn) \/ send[worker.turn] = "asked"
      /\ worker.at \in {"start", "stamp", "register"} => send[worker.turn] = "asked"
      /\ worker.at \in {"start", "stamp", "register", "note", "list", "arm"} => worker.turn \in Turns
      /\ noted \subseteq Turns
      /\ send \in [Turns -> Sends] /\ start \in [Turns -> Flags]
      /\ entry \in MaybeTurn /\ MaybeTurn = Turns \cup {NoTurn}
      /\ entry # NoTurn => send[entry] \notin {"new", "asked", "done"}
      /\ worker \in [at : Places, turn : MaybeTurn]
  BY DEF TurnInv, StartsOnce, ReactorTyped, ReportedIsOver, MaybeTurn, SendsInStep, DecidedTyped
\* The turns whose start and send are as they were.
<1>1. ASSUME UNCHANGED send,
             \A t \in Turns : /\ start'[t].dispatched = start[t].dispatched
                              /\ start[t].cancelled => start'[t].cancelled
      PROVE  /\ \A t \in Turns : send'[t] \in Underway => start'[t].dispatched
             /\ \A t \in Turns : IsOver(t) => (IsOver(t))'
  BY <1>0, <1>1 DEF IsOver
<1>2. ASSUME UNCHANGED <<send, start, noted, worker>> PROVE ReportedIsOver'
  BY <1>0, <1>2 DEF ReportedIsOver, IsOver
<1>3. ASSUME \/ Elsewhere \/ StreamInterrupt
             \/ Request("interrupt") \/ Request("stop")
             \/ \E w \in Writers : Commit(w)
      PROVE  ReportedIsOver'
  <2>1. UNCHANGED <<send, start, noted, worker>>
    BY <1>3, ElsewhereKeeps DEF StreamInterrupt, Interrupt, Request, Commit, decided
  <2> QED
    BY <1>2, <2>1
<1>4. ASSUME WorkerMoves PROVE ReportedIsOver'
  <2>1. /\ UNCHANGED <<send, noted>>
        /\ \A t \in Turns : /\ start'[t].dispatched = start[t].dispatched
                            /\ start'[t].cancelled = start[t].cancelled
        /\ worker'.at = "note" => worker.at \in {"start", "stamp"} /\ worker'.turn = worker.turn
    BY <1>4, WorkerEffect
  <2>2. worker'.at = "note" => send'[worker'.turn] = "asked"
    BY <1>0, <2>1
  <2>3. \A t \in noted' : (IsOver(t))'
    BY <1>0, <1>1, <2>1
  <2>4. \A t \in Turns : send'[t] \in Underway => start'[t].dispatched
    BY <1>1, <2>1
  <2> QED
    BY <2>2, <2>3, <2>4 DEF ReportedIsOver
<1>5. ASSUME NEW t \in Turns, FiberMoves(t) PROVE ReportedIsOver'
  <2>1. /\ send[t] \notin {"new", "asked", "done"}
        /\ send'[t] \in Underway \cup {"done"}
        /\ send[t] = "forked" /\ start[t].cancelled => send'[t] = "done"
        /\ \A u \in Turns : u # t => send'[u] = send[u] /\ start'[u] = start[u]
        /\ worker' = worker
        /\ send'[t] # "done" => start'[t].dispatched
        /\ noted' = noted \/ (noted' = noted \cup {t} /\ send'[t] = "done")
    BY <1>5, FiberEffect
  <2>2. \A u \in Turns : IsOver(u) => (IsOver(u))'
    BY <2>1 DEF IsOver
  <2>3. \A u \in noted' : (IsOver(u))'
    BY <1>0, <2>1, <2>2 DEF IsOver
  <2>4. \A u \in Turns : send'[u] \in Underway => start'[u].dispatched
    BY <1>0, <2>1 DEF Underway
  <2>5. ASSUME worker'.at = "note" PROVE (IsOver(worker.turn))' \/ send'[worker'.turn] = "asked"
    <3>1. worker.at = "note" /\ worker.turn \in Turns
      BY <1>0, <2>1, <2>5
    <3>2. CASE send[worker.turn] = "asked"
      BY <2>1, <3>1, <3>2
    <3>3. CASE IsOver(worker.turn)
      <4>1. send'[worker.turn] = "done" \/ (send'[worker.turn] = "forked" /\ start'[worker.turn].cancelled)
        BY <2>1, <3>1, <3>3 DEF IsOver
      <4> QED
        BY <2>1, <4>1 DEF IsOver
    <3> QED
      BY <1>0, <3>1, <3>2, <3>3
  <2> QED
    BY <2>3, <2>4, <2>5 DEF ReportedIsOver
<1>6. ASSUME NEW t \in Turns, Start(t) PROVE ReportedIsOver'
  <2>1. /\ send[t] = "new" /\ send' = [send EXCEPT ![t] = "asked"]
        /\ UNCHANGED <<start, noted, worker>>
    BY <1>6 DEF Start
  <2>2. send'[t] = "asked" /\ \A u \in Turns : u # t => send'[u] = send[u]
    BY <1>0, <2>1
  <2>3. \A u \in noted' : (IsOver(u))'
    BY <1>0, <2>1, <2>2 DEF IsOver
  <2>4. \A u \in Turns : send'[u] \in Underway => start'[u].dispatched
    BY <1>0, <2>1, <2>2 DEF Underway
  <2>5. worker'.at = "note" => (IsOver(worker.turn))' \/ send'[worker'.turn] = "asked"
    BY <1>0, <2>1, <2>2 DEF IsOver
  <2> QED
    BY <2>3, <2>4, <2>5 DEF ReportedIsOver
<1>7. ASSUME Tell PROVE ReportedIsOver'
  <2>1. /\ send' = [send EXCEPT ![worker.turn] = IF @ = "asked" THEN "done" ELSE @]
        /\ noted' = noted \cup {worker.turn}
        /\ worker' = Idle /\ UNCHANGED start
        /\ worker.at = "note" /\ worker.turn \in Turns
    BY <1>0, <1>7 DEF Tell, At, Note
  <2>2. /\ \A u \in Turns : u # worker.turn => send'[u] = send[u]
        /\ send'[worker.turn] = IF send[worker.turn] = "asked" THEN "done" ELSE send[worker.turn]
    BY <1>0, <2>1
  <2>3. \A u \in noted' : (IsOver(u))'
    BY <1>0, <2>1, <2>2 DEF IsOver
  <2>4. \A u \in Turns : send'[u] \in Underway => start'[u].dispatched
    BY <1>0, <2>1, <2>2 DEF Underway
  <2> QED
    BY <2>1, <2>3, <2>4 DEF ReportedIsOver, Idle
<1>8. ASSUME Register PROVE ReportedIsOver'
  <2>1. /\ send' = [send EXCEPT ![worker.turn] = "forked"] /\ send[worker.turn] = "asked"
        /\ worker.turn \in Turns /\ worker' = Idle /\ UNCHANGED <<start, noted>>
    BY <1>0, <1>8 DEF Register, At, decided
  <2>2. /\ \A u \in Turns : u # worker.turn => send'[u] = send[u]
        /\ send'[worker.turn] = "forked"
    BY <1>0, <2>1
  <2>3. worker.turn \notin noted
    BY <1>0, <2>1 DEF IsOver
  <2>4. \A u \in noted' : (IsOver(u))'
    BY <1>0, <2>1, <2>2, <2>3 DEF IsOver
  <2>5. \A u \in Turns : send'[u] \in Underway => start'[u].dispatched
    BY <1>0, <2>1, <2>2 DEF Underway
  <2> QED
    BY <2>1, <2>4, <2>5 DEF ReportedIsOver, Idle
<1>9. ASSUME Stream PROVE ReportedIsOver'
  <2>1. /\ UNCHANGED <<send, noted, worker>>
        /\ \/ UNCHANGED start
           \/ /\ entry # NoTurn
              /\ start' = [start EXCEPT ![entry].observed = TRUE,
                                        ![entry].late = @ /\ ~start[entry].cancelled]
    BY <1>9 DEF Stream, decided
  <2>2. \A t \in Turns : /\ start'[t].dispatched = start[t].dispatched
                         /\ start'[t].cancelled = start[t].cancelled
    <3>1. CASE UNCHANGED start
      BY <3>1
    <3>2. CASE start' = [start EXCEPT ![entry].observed = TRUE,
                                      ![entry].late = @ /\ ~start[entry].cancelled]
      BY <1>0, <3>2 DEF Flags
    <3> QED
      BY <2>1, <3>1, <3>2
  <2>3. /\ \A t \in Turns : send'[t] \in Underway => start'[t].dispatched
        /\ \A t \in Turns : IsOver(t) => (IsOver(t))'
    BY <1>1, <2>1, <2>2
  <2>4. worker'.at = "note" => (IsOver(worker.turn))' \/ send'[worker'.turn] = "asked"
    <3>1. worker.at = "note" /\ IsOver(worker.turn) =>
            send[worker.turn] = "done" \/ (send[worker.turn] = "forked" /\ start'[worker.turn].cancelled)
      BY <1>0, <2>2 DEF IsOver
    <3> QED
      BY <1>0, <2>1, <3>1 DEF IsOver
  <2> QED
    BY <1>0, <2>1, <2>3, <2>4 DEF ReportedIsOver
<1>10. ASSUME Take PROVE ReportedIsOver'
  <2>1. /\ UNCHANGED <<send, start, noted>>
        /\ queue # <<>> /\ worker' = [at |-> Head(queue).kind, turn |-> Head(queue).turn]
    BY <1>10 DEF Take, decided
  <2>2. Head(queue).kind \in {"start", "interrupt", "stop"}
    BY <2>1, WaitingTyped, FirstLeaves DEF Asks
  <2>3. worker'.at # "note"
    BY <2>1, <2>2
  <2> QED
    BY <1>0, <2>1, <2>3 DEF ReportedIsOver, IsOver
<1>11. ASSUME HandleInterrupt PROVE ReportedIsOver'
  <2>1. UNCHANGED <<send, noted>>
    BY <1>11 DEF HandleInterrupt
  <2>2. CASE entry = NoTurn
    <3>1. UNCHANGED start /\ worker' = [worker EXCEPT !.at = "call"]
      BY <1>11, <2>2 DEF HandleInterrupt, Goto
    <3>2. worker'.at # "note"
      BY <1>0, <3>1
    <3> QED
      BY <1>0, <2>1, <3>1, <3>2 DEF ReportedIsOver, IsOver
  <2>3. CASE entry # NoTurn
    <3>1. /\ start' = [start EXCEPT ![entry].cancelled = TRUE] /\ entry \in Turns
          /\ IF start[entry].dispatched
             THEN \E p \in {"call", "list"} : worker' = [at |-> p, turn |-> entry]
             ELSE worker' = [at |-> "note", turn |-> entry]
      BY <1>0, <1>11, <2>3 DEF HandleInterrupt
    <3>2. /\ \A t \in Turns : /\ start'[t].dispatched = start[t].dispatched
                              /\ start[t].cancelled => start'[t].cancelled
          /\ start'[entry].cancelled
      BY <1>0, <3>1 DEF Flags
    <3>3. /\ \A t \in Turns : send'[t] \in Underway => start'[t].dispatched
          /\ \A t \in Turns : IsOver(t) => (IsOver(t))'
      BY <1>1, <2>1, <3>2
    <3>4. ASSUME worker'.at = "note" PROVE (IsOver(worker.turn))'
      <4>1. ~start[entry].dispatched /\ worker'.turn = entry
        BY <3>1, <3>4
      <4>2. send[entry] \in Sends /\ send[entry] \notin Underway
        BY <1>0, <3>1, <4>1
      <4>3. send[entry] = "forked"
        BY <1>0, <2>3, <4>2 DEF Sends, Underway
      <4> QED
        BY <2>1, <3>2, <4>1, <4>3 DEF IsOver
    <3> QED
      BY <1>0, <2>1, <3>3, <3>4 DEF ReportedIsOver
  <2> QED
    BY <2>2, <2>3
<1> QED
  BY <1>3, <1>4, <1>5, <1>6, <1>7, <1>8, <1>9, <1>10, <1>11, NextCases

\* After a crash nothing is under way, and every turn that was sent has ended.
LEMMA CrashTurns ==
  ASSUME TurnInv, Crash
  PROVE  TurnInv'
<1>0. /\ chat \in [status : Statuses, active : Known, pending : MaybeTurn]
      /\ noted \subseteq Turns
      /\ send \in [Turns -> Sends]
      /\ turn \in [Turns -> {"unsent", "running", "interrupting", "ended"}]
      /\ binding \in [status : {"none", "running", "stopped"}, idle : BOOLEAN]
      /\ \A t \in Turns : send[t] \in {"new", "asked", "forked", "sending"} => turn[t] = "unsent"
      /\ \A t \in noted : send[t] # "new"
      /\ NoTurn \notin Turns
  BY TurnConstants
     DEF TurnInv, DecidedTyped, ReactorTyped, OutsideTyped, SendsInStep, ReportedIsOver, IsOver
<1>1. /\ chat' = [status  |-> IF chat.active # NoTurn THEN "interrupted" ELSE chat.status,
                  active  |-> NoTurn,
                  pending |-> NoTurn]
      /\ write' = [w \in Writers |-> NoWrite]
      /\ events' = <<>> /\ stream' = "reading" /\ queue' = <<>> /\ worker' = Idle
      /\ entry' = NoTurn
      /\ start' = [t \in Turns |-> Unmarked]
      /\ send' = [t \in Turns |-> IF send[t] = "new" THEN "new" ELSE "done"]
      /\ provider' = Down
      /\ turn' = [t \in Turns |-> IF turn[t] = "unsent" THEN "unsent" ELSE "ended"]
      /\ runtime' = <<>> /\ unrecorded' = {} /\ settled' = [t \in Turns |-> "unknown"]
      /\ reaper' = Resting
      /\ UNCHANGED <<noted, binding>>
  BY DEF Crash
<1>2. DecidedTyped'
  <2>1. NoTurn \in Known' /\ MaybeTurn' = MaybeTurn /\ NoTurn \in MaybeTurn
    BY DEF Known, MaybeTurn
  <2>2. chat' \in [status : Statuses, active : Known', pending : MaybeTurn]
    BY <1>0, <1>1, <2>1 DEF Statuses, Terminal
  <2>3. NoWrite \in Decisions'
    BY <2>1 DEF NoWrite, Decisions, Statuses
  <2> QED
    BY <1>0, <1>1, <2>1, <2>2, <2>3 DEF DecidedTyped, Statuses
<1>3. ReactorTyped'
  <2>1. Unmarked \in Flags
    BY DEF Unmarked, Flags
  <2>2. Idle \in [at : Places, turn : MaybeTurn] /\ Idle.at = "idle"
    BY DEF Idle, Places, MaybeTurn
  <2>3. events' \in Seq(DomainEvents) /\ queue' \in Seq(Asks)
    BY <1>1, EmptySeq
  <2>4. send' \in [Turns -> Sends] /\ start' \in [Turns -> Flags]
    BY <1>1, <2>1 DEF Sends
  <2> QED
    BY <1>1, <2>2, <2>3, <2>4 DEF ReactorTyped, MaybeTurn, DomainEvents, Asks
<1>4. OutsideTyped'
  <2>1. runtime' \in Seq(Reportable')
    BY <1>1, EmptySeq
  <2>2. /\ provider' \in [up : BOOLEAN, active : MaybeTurn', ending : Seq(Words')]
        /\ provider'.active = NoTurn /\ provider'.ending = <<>>
    BY <1>1, EmptySeq DEF Down, MaybeTurn
  <2>3. /\ turn' \in [Turns -> {"unsent", "running", "interrupting", "ended"}]
        /\ \A t \in Turns : turn'[t] \notin {"running", "interrupting"}
    BY <1>0, <1>1
  <2> QED
    BY <1>0, <1>1, <2>1, <2>2, <2>3 DEF OutsideTyped
<1>5. ReaperTyped'
  BY <1>1 DEF ReaperTyped, Resting, Known
<1>6. StartsOnce'
  BY <1>1 DEF StartsOnce, OnceEach, StartsIn, Idle
<1>7. SendsInStep'
  <2>1. \A t \in Turns : send'[t] \in {"new", "asked", "forked", "sending"} => turn'[t] = "unsent"
    BY <1>0, <1>1
  <2> QED
    BY <1>1, <2>1 DEF SendsInStep
<1>8. ReportedIsOver'
  <2>1. \A t \in Turns : send'[t] \notin Underway
    BY <1>1 DEF Underway
  <2>2. \A t \in noted' : send'[t] = "done"
    BY <1>0, <1>1
  <2> QED
    BY <1>1, <2>1, <2>2 DEF ReportedIsOver, IsOver, Idle
<1> QED
  BY <1>2, <1>3, <1>4, <1>5, <1>6, <1>7, <1>8 DEF TurnInv

-----------------------------------------------------------------------------
(* The theorems *)

\* The inductive invariant holds, from the first start on and whatever crashes.
THEOREM TurnInvariance == Spec => []TurnInv
<1>1. ASSUME Init PROVE TurnInv
  <2>1. DecidedTyped
    BY <1>1 DEF Init, DecidedTyped, Statuses, Known, MaybeTurn, Decisions, NoWrite
  <2>2. ReactorTyped
    <3>1. events \in Seq(DomainEvents) /\ queue \in Seq(Asks)
      BY <1>1, EmptySeq DEF Init
    <3>2. Unmarked \in Flags
      BY DEF Unmarked, Flags
    <3> QED
      BY <1>1, <3>1, <3>2 DEF Init, ReactorTyped, Idle, Places, MaybeTurn, Sends
  <2>3. OutsideTyped
    <3>1. runtime \in Seq(Reportable)
      BY <1>1, EmptySeq DEF Init
    <3>2. /\ provider \in [up : BOOLEAN, active : MaybeTurn, ending : Seq(Words)]
          /\ provider.active = NoTurn /\ provider.ending = <<>>
      BY <1>1, EmptySeq DEF Init, Down, MaybeTurn
    <3> QED
      BY <1>1, <3>1, <3>2, TurnConstants DEF Init, OutsideTyped
  <2>4. ReaperTyped
    BY <1>1 DEF Init, ReaperTyped, Resting, Known
  <2>5. StartsOnce
    BY <1>1 DEF Init, StartsOnce, OnceEach, StartsIn, Idle
  <2>6. SendsInStep /\ ReportedIsOver
    BY <1>1 DEF Init, SendsInStep, ReportedIsOver, Underway, Idle
  <2> QED
    BY <2>1, <2>2, <2>3, <2>4, <2>5, <2>6 DEF TurnInv
<1>2. ASSUME TurnInv, [Next]_vars PROVE TurnInv'
  <2>1. CASE Crash
    BY <1>2, <2>1, CrashTurns
  <2>2. CASE Next /\ ~Crash
    BY <1>2, <2>2, NextDecided, NextReactor, NextOutside, NextReaper, NextStarts, NextSends,
       NextReported DEF TurnInv, OutsideStep
  <2>3. CASE UNCHANGED vars
    <3>1. UNCHANGED <<chat, write, noted, events, stream, queue, worker, entry, start, send>>
      BY <2>3 DEF vars
    <3>2. UNCHANGED <<provider, turn, runtime, unrecorded, settled, binding, reaper>>
      BY <2>3 DEF vars
    <3>3. UNCHANGED outside /\ Known' = Known /\ Decisions' = Decisions
      BY <3>2 DEF outside, Known, Decisions, MaybeTurn, Statuses
    <3>4. OutsideTyped'
      BY <1>2, <3>3, OutsideSame DEF TurnInv, OutsideStep
    <3>5. DecidedTyped' /\ ReaperTyped'
      BY <1>2, <3>1, <3>2, <3>3 DEF TurnInv, DecidedTyped, ReaperTyped, MaybeTurn, Statuses
    <3>6. ReactorTyped'
      BY <1>2, <3>1 DEF TurnInv, ReactorTyped, DomainEvents, Asks, MaybeTurn
    <3>7. StartsOnce'
      BY <1>2, <3>1 DEF TurnInv, StartsOnce
    <3>8. SendsInStep' /\ ReportedIsOver'
      BY <1>2, <3>1, <3>2 DEF TurnInv, SendsInStep, ReportedIsOver, IsOver
    <3> QED
      BY <3>4, <3>5, <3>6, <3>7, <3>8 DEF TurnInv
  <2> QED
    BY <1>2, <2>1, <2>2, <2>3
<1> QED
  BY <1>1, <1>2, PTL DEF Spec

\* Every variable has its type, the map of pending starts holds no entry whose
\* fiber is gone, and the provider's active turn is one that it runs.
THEOREM TypeCorrect == Spec => []TypeOK
<1>1. ASSUME TurnInv PROVE TypeOK
  <2>1. Known \subseteq Turns \cup {NoTurn} /\ MaybeTurn = Turns \cup {NoTurn}
    BY DEF Known, MaybeTurn
  <2>2. chat \in [status : Terminal \cup {"none", "starting", "ready", "running"},
                  active : Turns \cup {NoTurn}, pending : Turns \cup {NoTurn}]
    BY <1>1, <2>1 DEF TurnInv, DecidedTyped, Statuses
  <2>3. write \in [Writers -> Sessions]
    <3>1. Decisions \subseteq Sessions
      BY <2>1 DEF Decisions, Sessions, Statuses
    <3> QED
      BY <1>1, <3>1 DEF TurnInv, DecidedTyped
  <2>4. /\ noted \subseteq Turns /\ unrecorded \subseteq Turns
        /\ settled \in [Turns -> {"unknown", "recent", "old"}]
    BY <1>1 DEF TurnInv, DecidedTyped, OutsideTyped
  <2>5. /\ stream \in {"reading", "interrupting"}
        /\ worker.at \in {"start", "stamp", "register", "list", "arm", "note"}
             => worker.turn \in Turns
        /\ entry # NoTurn => entry \in Turns /\ send[entry] \notin {"new", "asked", "done"}
    BY <1>1, <2>1 DEF TurnInv, ReactorTyped, SendsInStep
  <2>6. provider.active # NoTurn
          => provider.up /\ turn[provider.active] \in {"running", "interrupting"}
    BY <1>1, <2>1 DEF TurnInv, OutsideTyped
  <2>9. provider.ending # <<>> => provider.up /\ provider.active = NoTurn
    BY <1>1 DEF TurnInv, OutsideTyped
  <2>7. binding.status \in {"none", "running", "stopped"} /\ binding.idle \in BOOLEAN
    BY <1>1 DEF TurnInv, OutsideTyped
  <2>8. reaper.at \in {"reading", "lost"} => reaper.active \in Turns \cup {NoTurn}
    BY <1>1, <2>1 DEF TurnInv, ReaperTyped
  <2> QED
    BY <2>2, <2>3, <2>4, <2>5, <2>6, <2>7, <2>8, <2>9 DEF TypeOK
<1> QED
  BY <1>1, TurnInvariance, PTL

\* A start that was reported as cancelled or failed is never given to the
\* provider, however the worker's interrupt and the fiber that sends the turn
\* interleave (ProviderCommandReactor.ts 1219, 1254).
THEOREM CancelledAreNotSent == Spec => CancelledIsNotSent
<1>1. ASSUME TurnInv PROVE \A t \in Turns : Accept(t) => t \notin noted
  BY <1>1 DEF TurnInv, ReportedIsOver, IsOver, Accept
<1>2. ASSUME TurnInv, [Next]_vars PROVE [\A t \in Turns : Accept(t) => t \notin noted]_vars
  BY <1>1, <1>2
<1> QED
  BY <1>2, TurnInvariance, PTL DEF Spec, CancelledIsNotSent

\* What the chat shows as its turn when the reaper gives it up is a turn that no
\* provider runs; one whose end is still to be ingested is given up only when the
\* ledger has yet to record the end, or recorded it ten minutes ago
\* (ProviderSessionReaper.ts 50).
THEOREM ReaperClearsLost == Spec => ReaperClearsLostTurns
<1> DEFINE Spared(t) == /\ turn[t] = "ended"
                        /\ EndsOnTheWay(t) => t \in unrecorded \/ settled[t] = "old"
           Clears == SweepClears /\ write' # write => \A t \in Turns : t = chat.active => Spared(t)
<1>1. ASSUME TurnInv PROVE Clears
  <2> SUFFICES ASSUME SweepClears, write' # write, NEW t \in Turns, t = chat.active
               PROVE  Spared(t)
    OBVIOUS
  <2>1. reaper.at = "lost" /\ reaper.active = t /\ settled[t] # "recent"
    BY DEF SweepClears, Held
  <2>2. turn[t] = "ended" /\ settled[t] \in {"unknown", "recent", "old"}
    BY <1>1, <2>1 DEF TurnInv, ReaperTyped, OutsideTyped
  <2>3. ASSUME NEW n \in DOMAIN runtime, runtime[n].turn = t, runtime[n].kind \in EndKinds
        PROVE  Noticed(t)
    <3>1. runtime \in Seq(Reportable)
      BY <1>1 DEF TurnInv, OutsideTyped
    <3>2. runtime[n] \in Reportable
      BY <3>1, ElementOfSeq, LenProperties
    <3> QED
      BY <2>3, <3>2 DEF Reportable
  <2> QED
    BY <2>1, <2>2, <2>3 DEF EndsOnTheWay, Noticed
<1>2. ASSUME TurnInv, [Next]_vars PROVE [Clears]_vars
  BY <1>1, <1>2
<1> QED
  BY <1>2, TurnInvariance, PTL DEF Spec, ReaperClearsLostTurns
====
