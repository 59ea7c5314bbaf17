------------------------------ MODULE ShellStream ------------------------------
(***************************************************************************)
(* The list of chats of a client, kept in step with the server: the web    *)
(* socket method subscribeShell (apps/server/src/ws.ts, shellStream.ts)    *)
(* and the client's makeEnvironmentShellState (packages/client-runtime/    *)
(* src/state/shell.ts, rpc/client.ts, which the mobile client uses).       *)
(*                                                                         *)
(* The server commits events under a lock, swaps its read model and        *)
(* publishes.  A subscription forks a fiber that turns what is published   *)
(* into items, each with the row as it is when the event is mapped, and    *)
(* buffers them; then it either replays the events after the client's      *)
(* cursor, or sends a snapshot; then the buffer.  The fiber attaches to    *)
(* the publisher at its first pull, not when it is forked.                 *)
(*                                                                         *)
(* A client that has no snapshot from its present session loads one over   *)
(* HTTP, and only if this fails subscribes without a cursor.               *)
(*                                                                         *)
(* Abstractions.  A thread's row is known by its last event.  The columns  *)
(* that the reconciler derives later, and announces to nobody, are left    *)
(* out, and so are events that change no row of the list.  A replay is one *)
(* query (the code's pages hold 500 events).  One event a commit.  Projects*)
(* and workflows, whose items are alike, are left out, and so is the       *)
(* client's cache, which is shown and never resumed from.  What is sent and*)
(* not yet received is as if it were not yet sent: the client does nothing *)
(* in between but drop it.                                                 *)
(***************************************************************************)
EXTENDS Integers, Sequences, FiniteSets

CONSTANTS
  Threads,
  NoCursor,       \* a subscription without afterSequence
  Synchronized,   \* the completion marker
  ResumeMaxGap,   \* SHELL_RESUME_MAX_GAP
  MaxEvents, MaxSessions, MaxWakes, MaxFailures   \* bounds

ASSUME ShellConstants ==
  /\ NoCursor \notin Nat
  /\ {ResumeMaxGap, MaxEvents, MaxSessions, MaxWakes, MaxFailures} \subseteq Nat

VARIABLES
  log,          \* the committed events, by sequence number
  row,          \* the projected row of a thread
  head,         \* snapshotSequence of the read model
  published,    \* the last event given to the publisher
  sub,          \* the server's side of the subscription
  feed,         \* events the attached fiber has not mapped
  live,         \* liveBuffer
  shell,        \* the client's snapshot
  status, awaiting, authoritative, step,   \* of the client
  since,        \* the last event published when the session began
  missed,       \* events no item came for, or one too late to be taken,
                \* since the last snapshot
  sessions, wakes, failures

server == <<log, row, head, published>>
stream == <<sub, feed, live>>
client == <<shell, status, awaiting, authoritative, step>>
counts == <<sessions, wakes, failures>>
vars == <<server, stream, client, since, missed, counts>>

Kinds == {"changed", "archived", "unarchived", "deleted"}
Rows == [at: 0..MaxEvents, state: {"absent", "open", "archived"}]
NoRow == [at |-> 0, state |-> "absent"]
Items == [seq: 1..MaxEvents, thread: Threads, row: Rows]

ASSUME MarkerIsNoItem == Synchronized \notin Items

\* thread.deleted purges the whole stream, its own event included.
Purged(s) == row[log[s].thread].at > 0 /\ row[log[s].thread].state = "absent"

-----------------------------------------------------------------------------
(* The server.                                                             *)

Possible(t, kind) ==
  CASE kind = "changed" -> row[t].at = 0 \/ row[t].state # "absent"
    [] kind = "deleted" -> row[t].state # "absent"
    [] kind = "archived" -> row[t].state = "open"
    [] kind = "unarchived" -> row[t].state = "archived"

\* The row as the transaction leaves it.
RowAfter(t, kind) ==
  [at |-> Len(log) + 1,
   state |-> CASE kind = "deleted" -> "absent"
               [] kind = "archived" -> "archived"
               [] kind = "unarchived" -> "open"
               [] OTHER -> IF row[t].state = "archived" THEN "archived" ELSE "open"]

\* A transaction; the lock is held until its event is published.
Commit(t, kind) ==
  /\ Len(log) < MaxEvents /\ published = Len(log)
  /\ Possible(t, kind)
  /\ log' = Append(log, [thread |-> t, kind |-> kind])
  /\ row' = [row EXCEPT ![t] = RowAfter(t, kind)]
  /\ UNCHANGED <<head, published, stream, client, since, missed, counts>>

\* readModel = nextReadModel
Advance ==
  /\ head < Len(log)
  /\ head' = Len(log)
  /\ UNCHANGED <<log, row, published, stream, client, since, missed, counts>>

\* Fault: published before the read model has it.
FaultPublish ==
  /\ published < Len(log)
  /\ published' = Len(log)
  /\ feed' = IF sub.attached THEN Append(feed, Len(log)) ELSE feed
  /\ UNCHANGED <<log, row, head, sub, live, client, since, missed, counts>>

Publish ==
  /\ published < head
  /\ published' = head
  /\ feed' = IF sub.attached THEN Append(feed, head) ELSE feed
  /\ UNCHANGED <<log, row, head, sub, live, client, since, missed, counts>>

-----------------------------------------------------------------------------
(* subscribeShell.                                                         *)

NoSubscription ==
  [pc |-> "none", attached |-> FALSE, after |-> NoCursor, cut |-> 0, page |-> {}]

\* The bounds between which a cursor is resumed from.
CanResume == sub.after # NoCursor /\ head - sub.after \in 0..ResumeMaxGap

Removes(s) == log[s].kind \in {"archived", "deleted"}
HasItem(s) == Removes(s) \/ row[log[s].thread].state # "absent"

\* toShellStreamEvent: the row is the one of now, not of the event.
Item(s) ==
  [seq |-> s, thread |-> log[s].thread,
   row |-> IF Removes(s) THEN NoRow ELSE row[log[s].thread]]

\* What a fiber that attaches only now will not see.
AttachMisses ==
  IF sub.pc \in {"started", "snapshot"} THEN {} ELSE {s \in 1..published : s > sub.cut}

\* Stream.fromPubSub subscribes when it is first pulled.
Attach ==
  /\ sub.pc # "none" /\ ~sub.attached
  /\ sub' = [sub EXCEPT !.attached = TRUE]
  /\ missed' = missed \cup AttachMisses
  /\ UNCHANGED <<server, feed, live, client, since, counts>>

Map ==
  /\ feed # <<>>
  /\ feed' = Tail(feed)
  /\ live' = IF HasItem(Head(feed)) THEN Append(live, Item(Head(feed))) ELSE live
  /\ UNCHANGED <<server, sub, client, since, missed, counts>>

\* The row cannot be read: Effect.catch drops the item.
MapFails ==
  /\ failures < MaxFailures /\ feed # <<>> /\ ~Removes(Head(feed))
  /\ failures' = failures + 1
  /\ feed' = Tail(feed)
  /\ missed' = missed \cup {Head(feed)}
  /\ UNCHANGED <<server, sub, live, client, since, sessions, wakes>>

\* getReadModel, and the choice between a replay and a snapshot.
Choose ==
  /\ sub.pc = "started"
  /\ sub' = IF CanResume THEN [sub EXCEPT !.pc = "replay", !.cut = head]
                         ELSE [sub EXCEPT !.pc = "snapshot"]
  /\ UNCHANGED <<server, feed, live, client, since, missed, counts>>

\* readEvents, cut to as many events as there are numbers in the gap.
Page ==
  LET events == {s \in (sub.after + 1)..Len(log) : ~Purged(s)}
  IN {s \in events : Cardinality({r \in events : r <= s}) <= sub.cut - sub.after}

ReadPage ==
  /\ sub.pc = "replay"
  /\ sub' = [sub EXCEPT !.pc = "replaying", !.page = Page]
  /\ missed' = missed \cup {s \in (sub.after + 1)..sub.cut : log[s].kind = "deleted"}
  /\ UNCHANGED <<server, feed, live, client, since, counts>>

\* The client's side of an item: applyItem.
Taken(item) ==
  IF item.seq > shell.seq
    THEN [shell EXCEPT !.seq = item.seq, !.rows[item.thread] = item.row]
    ELSE shell
\* Fault: the marker is not remembered.
FaultWaiting == "synchronizing"
Waiting == IF awaiting THEN "synchronizing" ELSE "live"

Receive(item) ==
  /\ shell' = Taken(item)
  /\ status' = Waiting
  /\ UNCHANGED <<awaiting, authoritative, step>>

ReceiveMarker ==
  /\ awaiting' = FALSE
  /\ status' = "live"
  /\ UNCHANGED <<shell, authoritative, step>>

Leads(s) == \A r \in sub.page : s <= r

\* Stream.take counts events: where some are purged, the page goes beyond the
\* cut. The client then has a number past theirs, and drops their live items.
Overtakes(s) == {d \in (sub.cut + 1)..(s - 1) : log[d].kind = "deleted"}

Replay(s) ==
  /\ sub.pc = "replaying" /\ s \in sub.page /\ Leads(s)
  /\ sub' = [sub EXCEPT !.page = @ \ {s}]
  /\ IF HasItem(s) THEN Receive(Item(s)) /\ missed' = missed \cup Overtakes(s)
                   ELSE UNCHANGED <<client, missed>>
  /\ UNCHANGED <<server, feed, live, since, counts>>

ReplayFails(s) ==
  /\ failures < MaxFailures
  /\ sub.pc = "replaying" /\ s \in sub.page /\ Leads(s) /\ ~Removes(s)
  /\ failures' = failures + 1
  /\ sub' = [sub EXCEPT !.page = @ \ {s}]
  /\ missed' = missed \cup {s}
  /\ UNCHANGED <<server, feed, live, client, since, sessions, wakes>>

\* The page is sent, and the marker after it.
\* Fault: the marker does not wait for the page.
FaultReplayed == sub.pc = "replaying"
Replayed == sub.pc = "replaying" /\ sub.page = {}
MarkReplayed ==
  /\ Replayed
  /\ sub' = [sub EXCEPT !.pc = "streaming"]
  /\ ReceiveMarker
  /\ UNCHANGED <<server, feed, live, since, missed, counts>>

\* A snapshot of the database, which may be ahead of the read model.
Snapshot == [known |-> TRUE, seq |-> Len(log), rows |-> row]

SendSnapshot ==
  /\ sub.pc = "snapshot"
  /\ sub' = [sub EXCEPT !.pc = "marking", !.cut = Len(log)]
  /\ shell' = Snapshot
  /\ status' = Waiting
  /\ authoritative' = TRUE
  /\ missed' = {}
  /\ UNCHANGED <<server, feed, live, awaiting, step, since, counts>>

\* Here the marker goes through the buffer.
MarkSnapshot ==
  /\ sub.pc = "marking"
  /\ sub' = [sub EXCEPT !.pc = "streaming"]
  /\ live' = Append(live, Synchronized)
  /\ UNCHANGED <<server, feed, client, since, missed, counts>>

AfterCut(item) == item.seq > sub.cut

Deliver ==
  /\ sub.pc = "streaming" /\ live # <<>>
  /\ live' = Tail(live)
  /\ CASE Head(live) = Synchronized -> ReceiveMarker
       [] Head(live) # Synchronized /\ AfterCut(Head(live)) -> Receive(Head(live))
       [] OTHER -> UNCHANGED client
  /\ UNCHANGED <<server, sub, feed, since, missed, counts>>

-----------------------------------------------------------------------------
(* The client.                                                             *)

NothingStreams == sub' = NoSubscription /\ feed' = <<>> /\ live' = <<>>
ShownOffline == IF shell.known THEN "cached" ELSE "empty"

\* makeInput begins for a session: the marker is awaited.
Begin ==
  /\ step' = "input"
  /\ awaiting' = TRUE
  /\ status' = "synchronizing"

\* A new session; lastAuthoritativeSession is an older one.
Connect ==
  /\ step = "offline" /\ sessions < MaxSessions
  /\ sessions' = sessions + 1
  /\ Begin
  /\ authoritative' = FALSE
  /\ since' = published
  /\ UNCHANGED <<server, stream, shell, missed, wakes, failures>>

Subscribe(cursor) ==
  /\ step' = "subscribed"
  /\ sub' = [NoSubscription EXCEPT !.pc = "started", !.after = cursor]

\* Fault: a new session resumes from what the old one left.
FaultResumes == shell.known
Resumes == authoritative /\ shell.known

\* The same session resumes from the cursor in memory.
SubscribeAgain ==
  /\ step = "input" /\ Resumes
  /\ Subscribe(shell.seq)
  /\ UNCHANGED <<server, feed, live, shell, status, awaiting, authoritative, since, missed, counts>>

LoadSnapshot ==
  /\ step = "input" /\ ~Resumes
  /\ shell' = Snapshot
  /\ authoritative' = TRUE
  /\ missed' = {}
  /\ Subscribe(Len(log))
  /\ UNCHANGED <<server, feed, live, status, awaiting, since, counts>>

LoadFails ==
  /\ step = "input" /\ ~Resumes
  /\ failures < MaxFailures
  /\ failures' = failures + 1
  /\ Subscribe(NoCursor)
  /\ UNCHANGED <<server, feed, live, shell, status, awaiting, authoritative, since, missed, sessions, wakes>>

\* The application comes to the foreground: switchMap drops the subscription.
Wake ==
  /\ step \in {"input", "subscribed", "retrying"} /\ wakes < MaxWakes
  /\ wakes' = wakes + 1
  /\ Begin
  /\ NothingStreams
  /\ UNCHANGED <<server, shell, authoritative, since, missed, sessions, failures>>

\* The server cannot read its snapshot or its events: the client shows what it
\* has, and subscribes again after a while.
ReadFails ==
  /\ sub.pc \in {"snapshot", "replay"} /\ failures < MaxFailures
  /\ failures' = failures + 1
  /\ step' = "retrying"
  /\ awaiting' = FALSE
  /\ status' = ShownOffline
  /\ NothingStreams
  /\ UNCHANGED <<server, shell, authoritative, since, missed, sessions, wakes>>

Retry ==
  /\ step = "retrying"
  /\ Begin
  /\ UNCHANGED <<server, stream, shell, authoritative, since, missed, counts>>

GoesOffline ==
  /\ step # "offline" /\ sessions < MaxSessions
  /\ step' = "offline"
  /\ awaiting' = FALSE
  /\ status' = ShownOffline
  /\ NothingStreams
  /\ UNCHANGED <<shell, authoritative, since, missed, counts>>

Disconnect == GoesOffline /\ UNCHANGED server

\* What was committed and not published is read at the start.
Restart ==
  /\ GoesOffline
  /\ head' = Len(log) /\ published' = Len(log)
  /\ UNCHANGED <<log, row>>

-----------------------------------------------------------------------------

Init ==
  /\ log = <<>> /\ row = [t \in Threads |-> NoRow]
  /\ head = 0 /\ published = 0
  /\ sub = NoSubscription /\ feed = <<>> /\ live = <<>>
  /\ shell = [known |-> FALSE, seq |-> 0, rows |-> [t \in Threads |-> NoRow]]
  /\ status = "empty" /\ awaiting = FALSE /\ authoritative = FALSE /\ step = "offline"
  /\ since = 0 /\ missed = {}
  /\ sessions = 0 /\ wakes = 0 /\ failures = 0

Commits == \E t \in Threads, kind \in Kinds : Commit(t, kind)
Serve == Attach \/ Map \/ Choose \/ ReadPage
         \/ (\E s \in sub.page : Replay(s)) \/ MarkReplayed
         \/ SendSnapshot \/ MarkSnapshot \/ Deliver
Follow == Connect \/ SubscribeAgain \/ LoadSnapshot \/ Retry
Fail == MapFails \/ (\E s \in sub.page : ReplayFails(s)) \/ LoadFails \/ ReadFails
Interrupt == Wake \/ Disconnect \/ Restart

Next ==
  \/ Commits \/ Advance \/ Publish
  \/ Serve \/ Follow \/ Fail \/ Interrupt

Spec == Init /\ [][Next]_vars

\* The engine ends what it began, fibers run, the supervisor reconnects. The
\* requests that may fail are retried until one succeeds.
FairSpec ==
  /\ Spec
  /\ WF_vars(Advance) /\ WF_vars(Publish)
  /\ WF_vars(Attach) /\ WF_vars(Map) /\ WF_vars(Choose) /\ WF_vars(ReadPage)
  /\ WF_vars(\E s \in sub.page : Replay(s)) /\ WF_vars(MarkReplayed)
  /\ WF_vars(SendSnapshot) /\ WF_vars(MarkSnapshot) /\ WF_vars(Deliver)
  /\ WF_vars(Connect) /\ WF_vars(SubscribeAgain) /\ WF_vars(LoadSnapshot) /\ WF_vars(Retry)

-----------------------------------------------------------------------------
(* Properties.                                                             *)

Members(s) == {s[i] : i \in DOMAIN s}

TypeOK ==
  /\ log \in Seq([thread: Threads, kind: Kinds]) /\ Len(log) \in 0..MaxEvents
  /\ row \in [Threads -> Rows]
  /\ head \in 0..Len(log) /\ published \in 0..head
  /\ sub \in [pc: {"none", "started", "replay", "replaying", "snapshot", "marking", "streaming"},
              attached: BOOLEAN, after: 0..MaxEvents \cup {NoCursor},
              cut: 0..MaxEvents, page: SUBSET (1..MaxEvents)]
  /\ feed \in Seq(1..MaxEvents) /\ live \in Seq(Items \cup {Synchronized})
  /\ shell \in [known: BOOLEAN, seq: 0..MaxEvents, rows: [Threads -> Rows]]
  /\ status \in {"empty", "cached", "synchronizing", "live"}
  /\ awaiting \in BOOLEAN /\ authoritative \in BOOLEAN
  /\ step \in {"offline", "input", "subscribed", "retrying"}
  /\ since \in 0..MaxEvents /\ missed \subseteq 1..MaxEvents
  /\ sessions \in 0..MaxSessions /\ wakes \in 0..MaxWakes /\ failures \in 0..MaxFailures

\* A list shows a thread that is there and not archived.
Visible(r) == IF r.state = "open" THEN r.at ELSE 0
ShownAsIs(t) == Visible(shell.rows[t]) = Visible(row[t])

OnItsWay(s) ==
  \/ s > published
  \/ s \in Members(feed)
  \/ \E i \in DOMAIN live : live[i] # Synchronized /\ live[i].seq = s

\* No item came, or none will when the fiber attaches at last.
Lost == missed \cup (IF sub.pc # "none" /\ ~sub.attached THEN AttachMisses ELSE {})

\* A client that says it is live shows every thread as its last event left it,
\* unless this event is still on its way, or is one for which no item came.
LiveShellIsCurrent ==
  status = "live" =>
    \A t \in Threads : ShownAsIs(t) \/ OnItsWay(row[t].at) \/ row[t].at \in Lost

\* What a client misses, it misses until its next session at the latest: a new
\* session does not build on what the one before has left.
LossEndsWithSession ==
  sub.pc \in {"marking", "streaming"} => \A s \in missed : s > since

\* Once nothing disturbs it any more, the client says it is live, and shows
\* every thread as it is, but for what no item came for.
Settled ==
  /\ status = "live"
  /\ \A t \in Threads : ShownAsIs(t) \/ row[t].at \in missed
SettlesLive == <>[]Settled
================================================================================
