-------------------------- MODULE ShellStream_proofs --------------------------
(***************************************************************************)
(* Proofs about ShellStream, for any threads and bounds: the variables are *)
(* typed, what a client misses it does not carry into a new session, and   *)
(* a client that says it is live shows what there is.                      *)
(***************************************************************************)
EXTENDS ShellStream, SequenceTheorems, FiniteSetTheorems, TLAPS

\* Nothing that streams, and no cursor, is older than the session.
SessionInv ==
  /\ since <= published
  /\ feed \in Seq((since + 1)..published)
  /\ sub.page \subseteq (since + 1)..Len(log)
  /\ step # "subscribed" => sub = NoSubscription /\ feed = <<>>
  /\ sub.pc # "none" /\ sub.after # NoCursor => sub.after >= since /\ authoritative
  /\ sub.pc \in {"replay", "replaying"} => sub.after # NoCursor /\ sub.cut >= since
  /\ sub.pc \in {"marking", "streaming"} => authoritative /\ sub.cut >= since
  /\ authoritative => shell.seq >= since /\ missed \subseteq (since + 1)..MaxEvents

ShellInv == TypeOK /\ SessionInv

\* One part of the type invariant for each variable.
Subs == [pc: {"none", "started", "replay", "replaying", "snapshot", "marking", "streaming"},
         attached: BOOLEAN, after: 0..MaxEvents \cup {NoCursor},
         cut: 0..MaxEvents, page: SUBSET (1..MaxEvents)]
Shells == [known: BOOLEAN, seq: 0..MaxEvents, rows: [Threads -> Rows]]
LogTyped ==
  /\ log \in Seq([thread: Threads, kind: Kinds]) /\ Len(log) \in 0..MaxEvents
  /\ row \in [Threads -> Rows]
  /\ head \in 0..Len(log) /\ published \in 0..head
StreamTyped ==
  /\ sub \in Subs
  /\ feed \in Seq(1..MaxEvents) /\ live \in Seq(Items \cup {Synchronized})
ClientTyped ==
  /\ shell \in Shells
  /\ status \in {"empty", "cached", "synchronizing", "live"}
  /\ awaiting \in BOOLEAN /\ authoritative \in BOOLEAN
  /\ step \in {"offline", "input", "subscribed", "retrying"}
RestTyped ==
  /\ since \in 0..MaxEvents /\ missed \subseteq 1..MaxEvents
  /\ sessions \in 0..MaxSessions /\ wakes \in 0..MaxWakes /\ failures \in 0..MaxFailures

LEMMA TypeParts == TypeOK <=> LogTyped /\ StreamTyped /\ ClientTyped /\ RestTyped
BY DEF TypeOK, LogTyped, StreamTyped, ClientTyped, RestTyped, Subs, Shells

LEMMA Together ==
  ASSUME LogTyped', StreamTyped', ClientTyped', RestTyped', SessionInv'
  PROVE  ShellInv'
BY DEF ShellInv, TypeOK, LogTyped, StreamTyped, ClientTyped, RestTyped, Subs, Shells

LEMMA Bounds ==
  /\ ResumeMaxGap \in Nat /\ MaxEvents \in Nat /\ MaxSessions \in Nat
  /\ MaxWakes \in Nat /\ MaxFailures \in Nat
BY ShellConstants

-----------------------------------------------------------------------------
(* What is shared by several actions.                                       *)

LEMMA ItemTyped ==
  ASSUME LogTyped, NEW s \in 1..Len(log)
  PROVE  Item(s) \in Items
<1>1. s \in 1..MaxEvents
  BY Bounds DEF LogTyped
<1>0. log[s] \in [thread: Threads, kind: Kinds]
  BY ElementOfSeq DEF LogTyped
<1>2. log[s].thread \in Threads /\ row[log[s].thread] \in Rows
  BY <1>0 DEF LogTyped
<1>3. NoRow \in Rows
  BY Bounds DEF NoRow, Rows
<1> QED
  BY <1>1, <1>2, <1>3 DEF Item, Items

\* An item only moves the client's snapshot forward.
LEMMA TakenForward ==
  ASSUME ShellInv, NEW item \in Items
  PROVE  Taken(item) \in Shells /\ Taken(item).seq >= shell.seq
<1>1. shell \in Shells
  BY TypeParts DEF ShellInv, ClientTyped
<1>2. item.seq \in 1..MaxEvents /\ item.thread \in Threads /\ item.row \in Rows
  BY DEF Items
<1>3. CASE item.seq > shell.seq
  <2> DEFINE rows == [shell.rows EXCEPT ![item.thread] = item.row]
  <2>1. rows \in [Threads -> Rows]
    BY <1>1, <1>2 DEF Shells
  <2>2. Taken(item) = [known |-> shell.known, seq |-> item.seq, rows |-> rows]
    BY <1>1, <1>3 DEF Taken, Shells
  <2> HIDE DEF rows
  <2> QED
    BY <1>1, <1>2, <1>3, <2>1, <2>2, Bounds DEF Shells
<1>4. CASE ~(item.seq > shell.seq)
  BY <1>1, <1>4, Bounds DEF Taken, Shells
<1> QED
  BY <1>3, <1>4

LEMMA SnapshotTyped ==
  ASSUME ShellInv
  PROVE  Snapshot \in Shells /\ Snapshot.seq = Len(log) /\ Len(log) >= since
BY TypeParts, Bounds DEF ShellInv, SessionInv, LogTyped, RestTyped, Snapshot, Shells

LEMMA FeedTyped ==
  ASSUME ShellInv, feed # <<>>
  PROVE  Head(feed) \in (since + 1)..published /\ Tail(feed) \in Seq((since + 1)..published)
BY HeadTailProperties DEF ShellInv, SessionInv

-----------------------------------------------------------------------------
(* The server's steps.                                                      *)

LEMMA CommitKeeps ==
  ASSUME ShellInv, NEW t \in Threads, NEW kind \in Kinds, Commit(t, kind)
  PROVE  ShellInv'
<1> USE DEF server, stream, client, counts
<1>0. LogTyped /\ StreamTyped /\ ClientTyped /\ RestTyped /\ SessionInv
  BY TypeParts DEF ShellInv
<1>1. log' \in Seq([thread: Threads, kind: Kinds]) /\ Len(log') = Len(log) + 1
  BY <1>0, AppendProperties DEF Commit, LogTyped
<1>2. Len(log) \in Nat /\ Len(log) + 1 \in 0..MaxEvents
  BY <1>0, Bounds DEF Commit, LogTyped
<1>3. row' \in [Threads -> Rows]
  <2>1. row[t] \in Rows
    BY <1>0 DEF LogTyped
  <2>2. RowAfter(t, kind) \in Rows
    BY <1>2, <2>1 DEF RowAfter, Rows, Kinds
  <2> QED
    BY <1>0, <2>2 DEF Commit, LogTyped
<1>4. LogTyped'
  BY <1>0, <1>1, <1>2, <1>3 DEF Commit, LogTyped
<1>5. StreamTyped' /\ ClientTyped' /\ RestTyped'
  BY <1>0 DEF Commit, StreamTyped, ClientTyped, RestTyped
<1>6. SessionInv'
  BY <1>0, <1>1, <1>2 DEF Commit, SessionInv, NoSubscription, RestTyped
<1> QED
  BY <1>4, <1>5, <1>6, Together

LEMMA AdvanceKeeps ==
  ASSUME ShellInv, Advance
  PROVE  ShellInv'
<1> USE DEF server, stream, client, counts
<1>0. LogTyped /\ StreamTyped /\ ClientTyped /\ RestTyped /\ SessionInv
  BY TypeParts DEF ShellInv
<1>1. LogTyped'
  BY <1>0 DEF Advance, LogTyped
<1>2. StreamTyped' /\ ClientTyped' /\ RestTyped' /\ SessionInv'
  BY <1>0 DEF Advance, StreamTyped, ClientTyped, RestTyped, SessionInv, NoSubscription
<1> QED
  BY <1>1, <1>2, Together

LEMMA PublishKeeps ==
  ASSUME ShellInv, Publish
  PROVE  ShellInv'
<1> USE DEF server, stream, client, counts
<1>0. LogTyped /\ StreamTyped /\ ClientTyped /\ RestTyped /\ SessionInv
  BY TypeParts DEF ShellInv
<1>1. /\ head \in Nat /\ published \in Nat /\ since \in Nat /\ since <= published
      /\ published < head /\ published' = head /\ head <= MaxEvents
  BY <1>0, Bounds DEF Publish, LogTyped, RestTyped, SessionInv
<1>2. feed' \in Seq((since + 1)..head)
  <2>1. feed \in Seq((since + 1)..head)
    <3>1. (since + 1)..published \subseteq (since + 1)..head
      BY <1>1
    <3> QED
      BY <1>0, <3>1, SeqMonotonic DEF SessionInv
  <2>2. head \in (since + 1)..head
    BY <1>1
  <2> QED
    BY <2>1, <2>2, AppendProperties DEF Publish
<1>3. feed' \in Seq(1..MaxEvents)
  <2>1. (since + 1)..head \subseteq 1..MaxEvents
    BY <1>1, Bounds
  <2> QED
    BY <1>2, <2>1, SeqMonotonic
<1>4. LogTyped' /\ StreamTyped' /\ ClientTyped' /\ RestTyped'
  BY <1>0, <1>1, <1>3 DEF Publish, LogTyped, StreamTyped, ClientTyped, RestTyped
<1>5. step = "subscribed" \/ ~sub.attached
  BY <1>0 DEF SessionInv, NoSubscription
<1>6. SessionInv'
  BY <1>0, <1>1, <1>2, <1>5 DEF Publish, SessionInv, NoSubscription
<1> QED
  BY <1>4, <1>6, Together

-----------------------------------------------------------------------------
(* The subscription's steps.                                                *)

LEMMA AttachKeeps ==
  ASSUME ShellInv, Attach
  PROVE  ShellInv'
<1> USE DEF server, stream, client, counts
<1>0. LogTyped /\ StreamTyped /\ ClientTyped /\ RestTyped /\ SessionInv
  BY TypeParts DEF ShellInv
<1>1. AttachMisses \subseteq 1..MaxEvents
  BY <1>0, Bounds DEF AttachMisses, LogTyped
<1>2. AttachMisses \subseteq (since + 1)..MaxEvents
  <2>1. sub.pc \in {"started", "snapshot"} \/ sub.cut >= since
    BY <1>0 DEF Attach, SessionInv, StreamTyped, Subs
  <2> QED
    BY <1>0, <1>1, <2>1, Bounds DEF AttachMisses, LogTyped, RestTyped, StreamTyped, Subs
<1>3. sub' \in Subs /\ \A f \in {"pc", "after", "cut", "page"} : sub'[f] = sub[f]
  BY <1>0 DEF Attach, StreamTyped, Subs
<1>4. LogTyped' /\ StreamTyped' /\ ClientTyped' /\ RestTyped'
  BY <1>0, <1>1, <1>3 DEF Attach, LogTyped, StreamTyped, ClientTyped, RestTyped
<1>5. step = "subscribed"
  BY <1>0 DEF Attach, SessionInv, NoSubscription
<1>6. SessionInv'
  BY <1>0, <1>2, <1>3, <1>5 DEF Attach, SessionInv
<1> QED
  BY <1>4, <1>6, Together

LEMMA MapKeeps ==
  ASSUME ShellInv, Map \/ MapFails
  PROVE  ShellInv'
<1> USE DEF server, stream, client, counts
<1>0. LogTyped /\ StreamTyped /\ ClientTyped /\ RestTyped /\ SessionInv
  BY TypeParts DEF ShellInv
<1>1. feed # <<>> /\ feed' = Tail(feed)
  BY DEF Map, MapFails
<1>2. Head(feed) \in (since + 1)..published /\ feed' \in Seq((since + 1)..published)
  BY <1>1, FeedTyped
<1>3. (since + 1)..published \subseteq 1..Len(log) /\ 1..Len(log) \subseteq 1..MaxEvents
  BY <1>0, Bounds DEF LogTyped, RestTyped
<1>4. feed' \in Seq(1..MaxEvents)
  BY <1>2, <1>3, SeqMonotonic
<1>5. live' \in Seq(Items \cup {Synchronized})
  <2>1. Item(Head(feed)) \in Items
    BY <1>0, <1>2, <1>3, ItemTyped
  <2>2. live \in Seq(Items \cup {Synchronized})
    BY <1>0 DEF StreamTyped
  <2>3. live' \in {live, Append(live, Item(Head(feed)))}
    BY DEF Map, MapFails
  <2> QED
    BY <2>1, <2>2, <2>3, AppendProperties
<1>6. missed' \in {missed, missed \cup {Head(feed)}}
  BY DEF Map, MapFails
<1>7. failures' \in 0..MaxFailures
  BY <1>0, Bounds DEF Map, MapFails, RestTyped
<1>8. UNCHANGED <<server, sub, client, since, sessions, wakes>>
  BY DEF Map, MapFails
<1>9. LogTyped' /\ StreamTyped' /\ ClientTyped'
  BY <1>0, <1>4, <1>5, <1>8 DEF LogTyped, StreamTyped, ClientTyped
<1>10. RestTyped'
  BY <1>0, <1>2, <1>3, <1>6, <1>7, <1>8 DEF RestTyped
<1>11. SessionInv'
  <2>1. step = "subscribed"
    BY <1>0, <1>1 DEF SessionInv
  <2>2. Head(feed) \in (since + 1)..MaxEvents
    BY <1>0, <1>2, Bounds DEF LogTyped, RestTyped
  <2> QED
    BY <1>0, <1>2, <1>6, <1>8, <2>1, <2>2 DEF SessionInv
<1> QED
  BY <1>9, <1>10, <1>11, Together

\* The steps that choose what is sent.
LEMMA ChooseKeeps ==
  ASSUME ShellInv, Choose
  PROVE  ShellInv'
<1> USE DEF server, stream, client, counts
<1>0. LogTyped /\ StreamTyped /\ ClientTyped /\ RestTyped /\ SessionInv
  BY TypeParts DEF ShellInv
<1>1. step = "subscribed"
  BY <1>0 DEF Choose, SessionInv, NoSubscription
<1>2. /\ head >= since /\ head \in 0..MaxEvents
      /\ \A pc \in {"replay", "snapshot"} : [sub EXCEPT !.pc = pc] \in Subs
      /\ [sub EXCEPT !.pc = "replay", !.cut = head] \in Subs
  <2>1. head >= since /\ head \in 0..MaxEvents
    BY <1>0, Bounds DEF LogTyped, RestTyped, SessionInv
  <2>2. sub \in Subs
    BY <1>0 DEF StreamTyped
  <2> QED
    BY <2>1, <2>2 DEF Subs
<1>3. /\ sub' \in Subs /\ sub'.page = sub.page /\ sub'.after = sub.after
      /\ \/ sub'.pc = "replay" /\ sub'.cut = head /\ sub.after # NoCursor
         \/ sub'.pc = "snapshot"
  BY <1>0, <1>2 DEF Choose, CanResume, StreamTyped, Subs
<1>4. LogTyped' /\ StreamTyped' /\ ClientTyped' /\ RestTyped'
  BY <1>0, <1>3 DEF Choose, LogTyped, StreamTyped, ClientTyped, RestTyped
<1>5. SessionInv'
  BY <1>0, <1>1, <1>2, <1>3 DEF Choose, SessionInv
<1> QED
  BY <1>4, <1>5, Together

LEMMA ReadPageKeeps ==
  ASSUME ShellInv, ReadPage
  PROVE  ShellInv'
<1> USE DEF server, stream, client, counts
<1>0. LogTyped /\ StreamTyped /\ ClientTyped /\ RestTyped /\ SessionInv
  BY TypeParts DEF ShellInv
<1>1. /\ step = "subscribed" /\ sub.pc = "replay"
      /\ sub.after \in 0..MaxEvents /\ sub.after >= since /\ sub.cut \in 0..MaxEvents
      /\ authoritative /\ sub.cut >= since
  BY <1>0 DEF ReadPage, SessionInv, NoSubscription, StreamTyped, Subs
<1>2. Page \subseteq (sub.after + 1)..Len(log)
  BY DEF Page
<1>3. Page \subseteq (since + 1)..Len(log) /\ Page \subseteq 1..MaxEvents
  BY <1>0, <1>1, <1>2, Bounds DEF LogTyped, RestTyped
<1>4. /\ sub' \in Subs /\ sub'.page = Page /\ sub'.after = sub.after
      /\ sub'.cut = sub.cut /\ sub'.pc = "replaying"
  BY <1>0, <1>3 DEF ReadPage, StreamTyped, Subs
<1>5. /\ missed' \subseteq missed \cup (sub.after + 1)..sub.cut
      /\ (sub.after + 1)..sub.cut \subseteq (since + 1)..MaxEvents
      /\ (since + 1)..MaxEvents \subseteq 1..MaxEvents
  BY <1>0, <1>1, Bounds DEF ReadPage, RestTyped
<1>6. LogTyped' /\ StreamTyped' /\ ClientTyped' /\ RestTyped'
  BY <1>0, <1>4, <1>5 DEF ReadPage, LogTyped, StreamTyped, ClientTyped, RestTyped
<1>7. SessionInv'
  <2>1. missed' \subseteq (since + 1)..MaxEvents
    BY <1>0, <1>1, <1>5 DEF SessionInv
  <2>2. UNCHANGED <<server, feed, client, since>>
    BY DEF ReadPage
  <2> QED
    BY <1>0, <1>1, <1>3, <1>4, <2>1, <2>2 DEF SessionInv
<1> QED
  BY <1>6, <1>7, Together

\* The steps that send: the client's snapshot moves forward, or is replaced.
LEMMA ReceiveKeeps ==
  ASSUME ShellInv, NEW item \in Items, Receive(item)
  PROVE  /\ ClientTyped' /\ shell'.seq >= shell.seq
         /\ UNCHANGED <<authoritative, step>>
<1>1. shell' \in Shells /\ shell'.seq >= shell.seq
  BY TakenForward DEF Receive
<1>2. status' \in {"synchronizing", "live"}
  BY DEF Receive, Waiting
<1>3. ClientTyped
  BY TypeParts DEF ShellInv
<1> QED
  BY <1>1, <1>2, <1>3 DEF Receive, ClientTyped

LEMMA MarkerKeeps ==
  ASSUME ShellInv, ReceiveMarker
  PROVE  ClientTyped' /\ UNCHANGED <<shell, authoritative, step>>
BY TypeParts DEF ShellInv, ReceiveMarker, ClientTyped

\* What is left to show once it is known what the client receives.
LEMMA SentKeeps ==
  ASSUME ShellInv, sub.pc \in {"replay", "replaying", "marking", "streaming"},
         ClientTyped', shell'.seq >= shell.seq,
         UNCHANGED <<authoritative, step, log, row, head, published, feed, since, sessions, wakes>>,
         live' \in Seq(Items \cup {Synchronized}),
         sub' \in Subs, sub'.page \subseteq sub.page, sub'.after = sub.after, sub'.cut = sub.cut,
         sub'.pc \in {sub.pc, "streaming"},
         missed' \subseteq missed \cup (since + 1)..MaxEvents,
         failures' \in 0..MaxFailures
  PROVE  ShellInv'
<1> USE DEF server, stream, client, counts
<1>0. LogTyped /\ StreamTyped /\ ClientTyped /\ RestTyped /\ SessionInv
  BY TypeParts DEF ShellInv
<1>1. sub.page \subseteq (since + 1)..MaxEvents /\ (since + 1)..MaxEvents \subseteq 1..MaxEvents
  <2>1. sub.page \subseteq (since + 1)..Len(log) /\ Len(log) \in 0..MaxEvents /\ since \in 0..MaxEvents
    BY <1>0 DEF SessionInv, LogTyped, RestTyped
  <2> QED
    BY <2>1, Bounds
<1>2. step = "subscribed" /\ authoritative /\ sub.cut >= since
  BY <1>0 DEF SessionInv, NoSubscription
<1>3. shell.seq \in Nat /\ shell'.seq \in Nat /\ since \in Nat
  BY <1>0, Bounds DEF ClientTyped, Shells, RestTyped
<1>4. LogTyped' /\ StreamTyped' /\ RestTyped'
  BY <1>0, <1>1 DEF LogTyped, StreamTyped, RestTyped
<1>5. shell'.seq >= since /\ missed' \subseteq (since + 1)..MaxEvents
  BY <1>0, <1>2, <1>3 DEF SessionInv
<1>6. SessionInv'
  BY <1>0, <1>2, <1>5 DEF SessionInv
<1> QED
  BY <1>4, <1>6, Together

LEMMA ReplayKeeps ==
  ASSUME ShellInv, NEW s \in sub.page, Replay(s) \/ ReplayFails(s)
  PROVE  ShellInv'
<1> USE DEF server, stream, client, counts
<1>0. LogTyped /\ StreamTyped /\ ClientTyped /\ RestTyped /\ SessionInv
  BY TypeParts DEF ShellInv
<1>1. sub.pc = "replaying" /\ shell.seq \in Nat
  BY <1>0, Bounds DEF Replay, ReplayFails, ClientTyped, Shells
<1>2. ClientTyped' /\ shell'.seq >= shell.seq /\ UNCHANGED <<authoritative, step>>
  <2>1. CASE UNCHANGED client
    BY <1>0, <1>1, <2>1 DEF ClientTyped
  <2>2. CASE Receive(Item(s))
    <3>1. s \in 1..Len(log)
      BY <1>0, Bounds DEF SessionInv, LogTyped, RestTyped
    <3> QED
      BY <1>0, <2>2, <3>1, ItemTyped, ReceiveKeeps
  <2> QED
    BY <2>1, <2>2 DEF Replay, ReplayFails
<1>3. /\ sub' \in Subs /\ sub'.page \subseteq sub.page
      /\ sub'.after = sub.after /\ sub'.cut = sub.cut /\ sub'.pc = sub.pc
  BY <1>0 DEF Replay, ReplayFails, StreamTyped, Subs
<1>4. /\ live' \in Seq(Items \cup {Synchronized})
      /\ UNCHANGED <<log, row, head, published, feed, since, sessions, wakes>>
  BY <1>0 DEF Replay, ReplayFails, StreamTyped
<1>6. missed' \subseteq missed \cup (since + 1)..MaxEvents
  <2>1. s \in (since + 1)..Len(log) /\ Len(log) \in 0..MaxEvents
    BY <1>0 DEF SessionInv, LogTyped
  <2>2. since \in Nat /\ sub.cut \in Nat /\ sub.cut >= since
    BY <1>0, <1>1, Bounds DEF SessionInv, StreamTyped, Subs, RestTyped
  <2>3. Overtakes(s) \subseteq (since + 1)..MaxEvents /\ s \in (since + 1)..MaxEvents
    BY <2>1, <2>2, Bounds DEF Overtakes
  <2> QED
    BY <2>3 DEF Replay, ReplayFails
<1>5. failures' \in 0..MaxFailures
  BY <1>0, Bounds DEF Replay, ReplayFails, RestTyped
<1> QED
  BY <1>1, <1>2, <1>3, <1>4, <1>5, <1>6, SentKeeps

LEMMA MarkReplayedKeeps ==
  ASSUME ShellInv, MarkReplayed
  PROVE  ShellInv'
<1> USE DEF server, stream, client, counts
<1>0. LogTyped /\ StreamTyped /\ ClientTyped /\ RestTyped /\ SessionInv
  BY TypeParts DEF ShellInv
<1>1. sub.pc = "replaying" /\ shell.seq \in Nat
  BY <1>0, Bounds DEF MarkReplayed, Replayed, ClientTyped, Shells
<1>2. ClientTyped' /\ shell'.seq >= shell.seq /\ UNCHANGED <<authoritative, step>>
  BY <1>1, MarkerKeeps DEF MarkReplayed
<1>3. /\ sub' \in Subs /\ sub'.page = sub.page
      /\ sub'.after = sub.after /\ sub'.cut = sub.cut /\ sub'.pc = "streaming"
  BY <1>0 DEF MarkReplayed, StreamTyped, Subs
<1>4. /\ live' \in Seq(Items \cup {Synchronized}) /\ failures' \in 0..MaxFailures
      /\ UNCHANGED <<log, row, head, published, feed, since, sessions, wakes, missed>>
  BY <1>0 DEF MarkReplayed, StreamTyped, RestTyped
<1> QED
  BY <1>1, <1>2, <1>3, <1>4, SentKeeps

LEMMA MarkSnapshotKeeps ==
  ASSUME ShellInv, MarkSnapshot
  PROVE  ShellInv'
<1> USE DEF server, stream, client, counts
<1>0. LogTyped /\ StreamTyped /\ ClientTyped /\ RestTyped /\ SessionInv
  BY TypeParts DEF ShellInv
<1>1. sub.pc = "marking" /\ shell.seq \in Nat
  BY <1>0, Bounds DEF MarkSnapshot, ClientTyped, Shells
<1>2. ClientTyped' /\ shell'.seq >= shell.seq /\ UNCHANGED <<authoritative, step>>
  BY <1>0, <1>1 DEF MarkSnapshot, ClientTyped
<1>3. /\ sub' \in Subs /\ sub'.page = sub.page
      /\ sub'.after = sub.after /\ sub'.cut = sub.cut /\ sub'.pc = "streaming"
  BY <1>0 DEF MarkSnapshot, StreamTyped, Subs
<1>4. live' \in Seq(Items \cup {Synchronized})
  <2>1. live \in Seq(Items \cup {Synchronized}) /\ live' = Append(live, Synchronized)
    BY <1>0 DEF MarkSnapshot, StreamTyped
  <2> QED
    BY <2>1, AppendProperties
<1>5. /\ UNCHANGED <<log, row, head, published, feed, since, sessions, wakes, missed>>
      /\ failures' \in 0..MaxFailures
  BY <1>0 DEF MarkSnapshot, RestTyped
<1> QED
  BY <1>1, <1>2, <1>3, <1>4, <1>5, SentKeeps

LEMMA DeliverKeeps ==
  ASSUME ShellInv, Deliver
  PROVE  ShellInv'
<1> USE DEF server, stream, client, counts
<1>0. LogTyped /\ StreamTyped /\ ClientTyped /\ RestTyped /\ SessionInv
  BY TypeParts DEF ShellInv
<1>1. sub.pc = "streaming" /\ shell.seq \in Nat /\ sub' = sub /\ sub \in Subs
  BY <1>0, Bounds DEF Deliver, ClientTyped, Shells, StreamTyped
<1>2. /\ Head(live) \in Items \cup {Synchronized}
      /\ live' \in Seq(Items \cup {Synchronized})
  BY <1>0, HeadTailProperties DEF Deliver, StreamTyped
<1>3. ClientTyped' /\ shell'.seq >= shell.seq /\ UNCHANGED <<authoritative, step>>
  <2>1. CASE ReceiveMarker
    BY <1>1, <2>1, MarkerKeeps
  <2>2. CASE Head(live) # Synchronized /\ Receive(Head(live))
    BY <1>2, <2>2, ReceiveKeeps
  <2>3. CASE UNCHANGED client
    BY <1>0, <1>1, <2>3 DEF ClientTyped
  <2> QED
    BY <2>1, <2>2, <2>3 DEF Deliver
<1>4. /\ UNCHANGED <<log, row, head, published, feed, since, sessions, wakes, missed>>
      /\ failures' \in 0..MaxFailures
  BY <1>0 DEF Deliver, RestTyped
<1> QED
  BY <1>1, <1>2, <1>3, <1>4, SentKeeps

LEMMA SendSnapshotKeeps ==
  ASSUME ShellInv, SendSnapshot
  PROVE  ShellInv'
<1> USE DEF server, stream, client, counts
<1>0. LogTyped /\ StreamTyped /\ ClientTyped /\ RestTyped /\ SessionInv
  BY TypeParts DEF ShellInv
<1>1. Len(log) >= since /\ Len(log) \in 0..MaxEvents /\ Snapshot \in Shells /\ Snapshot.seq = Len(log)
  BY <1>0, SnapshotTyped DEF LogTyped
<1>2. step = "subscribed"
  BY <1>0 DEF SendSnapshot, SessionInv, NoSubscription
<1>3. /\ sub' \in Subs /\ sub'.page = sub.page /\ sub'.after = sub.after
      /\ sub'.cut = Len(log) /\ sub'.pc = "marking"
  BY <1>0, <1>1 DEF SendSnapshot, StreamTyped, Subs
<1>4. status' \in {"synchronizing", "live"}
  BY DEF SendSnapshot, Waiting
<1>5. LogTyped' /\ StreamTyped' /\ ClientTyped' /\ RestTyped'
  BY <1>0, <1>1, <1>3, <1>4 DEF SendSnapshot, LogTyped, StreamTyped, ClientTyped, RestTyped
<1>6. SessionInv'
  BY <1>0, <1>1, <1>2, <1>3 DEF SendSnapshot, SessionInv
<1> QED
  BY <1>5, <1>6, Together

-----------------------------------------------------------------------------
(* The client's steps.                                                      *)

LEMMA NoSubscriptionTyped ==
  /\ NoSubscription \in Subs /\ NoSubscription.pc = "none" /\ NoSubscription.page = {}
  /\ \A n : <<>> \in Seq(n)
BY Bounds, EmptySeq DEF NoSubscription, Subs

\* A new session begins with nothing that streams.
LEMMA ConnectKeeps ==
  ASSUME ShellInv, Connect
  PROVE  ShellInv'
<1> USE DEF server, stream, client, counts
<1>0. LogTyped /\ StreamTyped /\ ClientTyped /\ RestTyped /\ SessionInv
  BY TypeParts DEF ShellInv
<1>1. sub = NoSubscription /\ feed = <<>>
  BY <1>0 DEF Connect, SessionInv
<1>2. published \in 0..MaxEvents /\ sessions' \in 0..MaxSessions
  BY <1>0, Bounds DEF Connect, LogTyped, RestTyped
<1>3. LogTyped' /\ StreamTyped' /\ ClientTyped' /\ RestTyped'
  BY <1>0, <1>2 DEF Connect, Begin, LogTyped, StreamTyped, ClientTyped, RestTyped
<1>4. /\ sub' = NoSubscription /\ feed' = <<>> /\ ~authoritative'
      /\ since' = published /\ published' = published
  BY <1>1 DEF Connect
<1>5. SessionInv'
  BY <1>2, <1>4, NoSubscriptionTyped DEF SessionInv
<1> QED
  BY <1>3, <1>5, Together

\* A subscription that begins has a cursor of the session, or none.
LEMMA SubscribeKeeps ==
  ASSUME ShellInv, SubscribeAgain \/ LoadSnapshot \/ LoadFails
  PROVE  ShellInv'
<1> USE DEF server, stream, client, counts
<1>0. LogTyped /\ StreamTyped /\ ClientTyped /\ RestTyped /\ SessionInv
  BY TypeParts DEF ShellInv
<1>1. feed = <<>> /\ feed' = <<>> /\ UNCHANGED <<server, live, status, awaiting, since, sessions, wakes>>
  BY <1>0 DEF SubscribeAgain, LoadSnapshot, LoadFails, SessionInv
<1>2. /\ shell' \in Shells /\ authoritative' \in BOOLEAN /\ step' = "subscribed"
      /\ authoritative' => shell'.seq >= since /\ missed' \subseteq (since + 1)..MaxEvents
      /\ missed' \subseteq 1..MaxEvents /\ failures' \in 0..MaxFailures
  <2>1. CASE SubscribeAgain
    BY <1>0, <2>1 DEF SubscribeAgain, Subscribe, SessionInv, ClientTyped, RestTyped
  <2>2. CASE LoadSnapshot
    BY <1>0, <2>2, SnapshotTyped DEF LoadSnapshot, Subscribe, RestTyped
  <2>3. CASE LoadFails
    BY <1>0, <2>3, Bounds DEF LoadFails, Subscribe, SessionInv, ClientTyped, RestTyped
  <2> QED
    BY <2>1, <2>2, <2>3
<1>3. PICK cursor \in 0..MaxEvents \cup {NoCursor} :
        /\ sub' = [NoSubscription EXCEPT !.pc = "started", !.after = cursor]
        /\ cursor # NoCursor => cursor >= since /\ authoritative'
  <2>1. CASE SubscribeAgain
    <3>1. authoritative' /\ shell.seq \in 0..MaxEvents /\ shell.seq >= since
      BY <1>0, <2>1 DEF SubscribeAgain, Resumes, SessionInv, ClientTyped, Shells
    <3> QED
      BY <2>1, <3>1 DEF SubscribeAgain, Subscribe
  <2>2. CASE LoadSnapshot
    <3>1. authoritative' /\ Len(log) \in 0..MaxEvents /\ Len(log) >= since
      BY <1>0, <2>2, SnapshotTyped DEF LoadSnapshot, LogTyped
    <3> QED
      BY <2>2, <3>1 DEF LoadSnapshot, Subscribe
  <2>3. CASE LoadFails
    BY <2>3 DEF LoadFails, Subscribe
  <2> QED
    BY <2>1, <2>2, <2>3
<1>4. /\ sub' \in Subs /\ sub'.pc = "started" /\ sub'.after = cursor /\ sub'.page = {}
  <2>1. sub' = [pc |-> "started", attached |-> FALSE, after |-> cursor, cut |-> 0, page |-> {}]
    BY <1>3 DEF NoSubscription
  <2>2. 0 \in 0..MaxEvents
    BY Bounds
  <2> QED
    BY <2>1, <2>2 DEF Subs
<1>5. LogTyped' /\ StreamTyped' /\ ClientTyped' /\ RestTyped'
  BY <1>0, <1>1, <1>2, <1>4 DEF LogTyped, StreamTyped, ClientTyped, RestTyped
<1>6. SessionInv'
  BY <1>0, <1>1, <1>2, <1>3, <1>4 DEF SessionInv
<1> QED
  BY <1>5, <1>6, Together

\* What ends a subscription leaves nothing of it.
LEMMA EndKeeps ==
  ASSUME ShellInv, Wake \/ ReadFails \/ Disconnect \/ Restart
  PROVE  ShellInv'
<1> USE DEF server, stream, client, counts
<1>0. LogTyped /\ StreamTyped /\ ClientTyped /\ RestTyped /\ SessionInv
  BY TypeParts DEF ShellInv
<1>1. /\ NothingStreams /\ step' \in {"input", "retrying", "offline"}
      /\ status' \in {"empty", "cached", "synchronizing"} /\ awaiting' \in BOOLEAN
      /\ UNCHANGED <<log, row, shell, authoritative, since, missed, sessions>>
  BY DEF Wake, ReadFails, Disconnect, Restart, GoesOffline, Begin, ShownOffline
<1>2. wakes' \in 0..MaxWakes /\ failures' \in 0..MaxFailures
  BY <1>0, Bounds DEF Wake, ReadFails, Disconnect, Restart, GoesOffline, RestTyped
<1>3. head' \in 0..Len(log) /\ published' \in 0..head' /\ since <= published'
  <2>1. CASE UNCHANGED <<head, published>>
    BY <1>0, <2>1 DEF LogTyped, SessionInv
  <2>2. CASE head' = Len(log) /\ published' = Len(log)
    BY <1>0, <2>2, SnapshotTyped DEF LogTyped
  <2> QED
    BY <2>1, <2>2 DEF Wake, ReadFails, Disconnect, Restart
<1>4. sub' \in Subs /\ sub' = NoSubscription /\ feed' = <<>> /\ live' = <<>>
  BY <1>1, NoSubscriptionTyped DEF NothingStreams
<1>5. LogTyped'
  BY <1>0, <1>1, <1>3 DEF LogTyped
<1>6. StreamTyped' /\ ClientTyped' /\ RestTyped'
  BY <1>0, <1>1, <1>2, <1>4, NoSubscriptionTyped DEF StreamTyped, ClientTyped, RestTyped
<1>7. SessionInv'
  BY <1>0, <1>1, <1>3, <1>4, NoSubscriptionTyped DEF SessionInv
<1> QED
  BY <1>5, <1>6, <1>7, Together

LEMMA RetryKeeps ==
  ASSUME ShellInv, Retry \/ UNCHANGED vars
  PROVE  ShellInv'
<1> USE DEF server, stream, client, counts
<1>0. LogTyped /\ StreamTyped /\ ClientTyped /\ RestTyped /\ SessionInv
  BY TypeParts DEF ShellInv
<1>1. /\ UNCHANGED <<server, stream, shell, authoritative, since, missed, counts>>
      /\ UNCHANGED <<status, awaiting, step>>
         \/ (step = "retrying" /\ step' = "input" /\ awaiting' = TRUE /\ status' = "synchronizing")
  BY DEF Retry, Begin, vars
<1>2. LogTyped' /\ StreamTyped' /\ ClientTyped' /\ RestTyped'
  BY <1>0, <1>1 DEF LogTyped, StreamTyped, ClientTyped, RestTyped
<1>3. SessionInv'
  BY <1>0, <1>1 DEF SessionInv, NoSubscription
<1> QED
  BY <1>2, <1>3, Together

-----------------------------------------------------------------------------
(* The theorems.                                                            *)

LEMMA InitHolds == Init => ShellInv
<1> SUFFICES ASSUME Init PROVE ShellInv
  OBVIOUS
<1>1. NoRow \in Rows
  BY Bounds DEF NoRow, Rows
<1>2. [t \in Threads |-> NoRow] \in [Threads -> Rows]
  BY <1>1
<1>3. LogTyped
  BY <1>2, Bounds, EmptySeq DEF Init, LogTyped
<1>4. StreamTyped /\ RestTyped
  BY Bounds, NoSubscriptionTyped DEF Init, StreamTyped, RestTyped
<1>5. ClientTyped
  <2>1. shell = [known |-> FALSE, seq |-> 0, rows |-> [t \in Threads |-> NoRow]] /\ 0 \in 0..MaxEvents
    BY Bounds DEF Init
  <2>2. shell \in Shells
    BY <1>2, <2>1 DEF Shells
  <2> QED
    BY <2>2 DEF Init, ClientTyped
<1>6. SessionInv
  BY NoSubscriptionTyped DEF Init, SessionInv
<1> QED
  BY <1>3, <1>4, <1>5, <1>6, TypeParts DEF ShellInv

LEMMA StepHolds == ShellInv /\ [Next]_vars => ShellInv'
<1> SUFFICES ASSUME ShellInv, [Next]_vars PROVE ShellInv'
  OBVIOUS
<1>1. CASE Commits \/ Advance \/ Publish
  BY <1>1, CommitKeeps, AdvanceKeeps, PublishKeeps DEF Commits
<1>2. CASE Serve
  BY <1>2, AttachKeeps, MapKeeps, ChooseKeeps, ReadPageKeeps, ReplayKeeps, MarkReplayedKeeps,
     SendSnapshotKeeps, MarkSnapshotKeeps, DeliverKeeps DEF Serve
<1>3. CASE Follow \/ UNCHANGED vars
  BY <1>3, ConnectKeeps, SubscribeKeeps, RetryKeeps DEF Follow
<1>4. CASE Fail
  BY <1>4, MapKeeps, ReplayKeeps, SubscribeKeeps, EndKeeps DEF Fail
<1>5. CASE Interrupt
  BY <1>5, EndKeeps DEF Interrupt
<1> QED
  BY <1>1, <1>2, <1>3, <1>4, <1>5 DEF Next

\* In every behaviour of the stream, for any threads and bounds: the variables
\* have their types.
THEOREM ShellTypes == Spec => []TypeOK
<1>1. ShellInv => TypeOK
  BY DEF ShellInv
<1> QED
  BY <1>1, InitHolds, StepHolds, PTL DEF Spec

\* A client whose server sends live events, after a snapshot or a replay (ws.ts
\* subscribeShell), has missed nothing that was published before its session
\* began: losses do not outlive a session (state/shell.ts
\* lastAuthoritativeSession).
THEOREM LossesEnd == Spec => []LossEndsWithSession
<1>1. ShellInv => LossEndsWithSession
  BY DEF ShellInv, TypeOK, SessionInv, LossEndsWithSession
<1> QED
  BY <1>1, InitHolds, StepHolds, PTL DEF Spec

-----------------------------------------------------------------------------
(* What a client that is live shows.                                        *)

\* A row is the one its last event left; a deletion is the last of a thread.
RowsFollowLog ==
  /\ Len(log) <= published + 1
  /\ \A s \in 1..Len(log) : row[log[s].thread].at >= s
  /\ \A t \in Threads :
       /\ row[t].at <= Len(log)
       /\ row[t].at = 0 => row[t].state = "absent"
       /\ row[t].at > 0 =>
            /\ log[row[t].at].thread = t
            /\ row[t].state = "absent" <=> log[row[t].at].kind = "deleted"
            /\ log[row[t].at].kind = "archived" => row[t].state = "archived"

\* An item of the buffer, which is no marker.
ItemAt(i) == i \in DOMAIN live /\ live[i] # Synchronized

\* Events and items come in the order of their numbers, and the item of a
\* thread's last event shows it as it is.
InOrder ==
  /\ sub.pc = "none" => sub = NoSubscription /\ feed = <<>> /\ live = <<>>
  /\ \A i, j \in DOMAIN feed : i < j => feed[i] < feed[j]
  /\ \A i, j \in DOMAIN live : i < j /\ ItemAt(i) /\ ItemAt(j) => live[i].seq < live[j].seq
  /\ \A i \in DOMAIN live, j \in DOMAIN feed : ItemAt(i) => live[i].seq < feed[j]
  /\ \A i \in DOMAIN live : ItemAt(i) =>
       /\ live[i].seq <= published
       /\ live[i].thread = log[live[i].seq].thread
       /\ row[live[i].thread].at = live[i].seq =>
            Visible(live[i].row) = Visible(row[live[i].thread])

\* Only a fiber that has attached buffers items, and only a replay has a page.
Quiet ==
  /\ ~sub.attached => feed = <<>> /\ \A i \in DOMAIN live : live[i] = Synchronized
  /\ sub.pc # "replaying" => sub.page = {}

\* How far the client, its cursor and the subscription have got.
Cursors ==
  /\ shell.seq <= Len(log) /\ sub.cut <= Len(log)
  /\ sub.pc \in {"started", "replay"} /\ sub.after # NoCursor => shell.seq = sub.after
  /\ sub.pc = "replaying" => \A s \in sub.page : shell.seq < s

\* The client does not say that it is live before the marker.
Marks ==
  /\ status = "live" => sub.pc = "streaming"
  /\ sub.pc \notin {"none", "streaming"} \/ step = "input" => awaiting

\* What the client has passed, it shows or misses.
Passed ==
  \A t \in Threads : row[t].at <= shell.seq => ShownAsIs(t) \/ row[t].at \in missed

\* What is after the cut comes from the buffer.
Coming ==
  sub.pc \in {"replay", "replaying", "marking", "streaming"} /\ sub.attached =>
    \A t \in Threads : row[t].at > sub.cut /\ row[t].at > shell.seq =>
      OnItsWay(row[t].at) \/ row[t].at \in missed

\* What is not after the cut comes with the page.
Paged ==
  sub.pc \in {"replaying", "marking", "streaming"} =>
    \A t \in Threads : row[t].at <= sub.cut /\ row[t].at > shell.seq =>
      row[t].at \in sub.page \cup missed

\* The page has all there is before its last event, but for deletions.
Unbroken ==
  sub.pc = "replaying" =>
    \A s \in sub.page : \A t \in Threads : shell.seq < row[t].at /\ row[t].at < s =>
      \/ row[t].at \in sub.page \cup missed
      \/ row[t].at > sub.cut /\ log[row[t].at].kind = "deleted"

CurrentInv ==
  /\ ShellInv
  /\ RowsFollowLog /\ InOrder /\ Quiet /\ Cursors /\ Marks
  /\ Passed /\ Coming /\ Paged /\ Unbroken

LEMMA Ranges ==
  ASSUME ShellInv
  PROVE  /\ Len(log) \in Nat /\ head \in 0..Len(log) /\ published \in 0..head
         /\ shell \in Shells /\ shell.seq \in Nat /\ sub \in Subs /\ sub.cut \in Nat
         /\ \A t \in Threads : row[t].at \in Nat /\ row[t].state \in {"absent", "open", "archived"}
         /\ \A t \in Threads : row[t] \in Rows
         /\ \A s \in 1..Len(log) : log[s].thread \in Threads /\ log[s].kind \in Kinds
         /\ feed \in Seq(Nat) /\ \A i \in DOMAIN feed : feed[i] \in 1..published
         /\ live \in Seq(Items \cup {Synchronized})
         /\ \A i \in DOMAIN live : ItemAt(i) => live[i] \in Items /\ live[i].seq \in Nat
                                                /\ live[i].seq >= 1
         /\ sub.page \subseteq 1..Len(log)
<1>0. LogTyped /\ StreamTyped /\ ClientTyped /\ RestTyped /\ SessionInv
  BY TypeParts DEF ShellInv
<1>1. Len(log) \in Nat /\ head \in 0..Len(log) /\ published \in 0..head
  BY <1>0, Bounds DEF LogTyped
<1>2. shell \in Shells /\ shell.seq \in Nat /\ sub \in Subs /\ sub.cut \in Nat
  BY <1>0, Bounds DEF ClientTyped, StreamTyped, Shells, Subs
<1>3. \A t \in Threads : /\ row[t] \in Rows /\ row[t].at \in Nat
                         /\ row[t].state \in {"absent", "open", "archived"}
  BY <1>0, Bounds DEF LogTyped, Rows
<1>4. \A s \in 1..Len(log) : log[s].thread \in Threads /\ log[s].kind \in Kinds
  <2> TAKE s \in 1..Len(log)
  <2>1. log[s] \in [thread: Threads, kind: Kinds]
    BY <1>0, ElementOfSeq DEF LogTyped
  <2> QED
    BY <2>1
<1>5. feed \in Seq(Nat) /\ \A i \in DOMAIN feed : feed[i] \in 1..published
  <2>1. feed \in Seq((since + 1)..published) /\ since \in Nat
    BY <1>0, Bounds DEF SessionInv, RestTyped
  <2>2. (since + 1)..published \subseteq 1..published /\ 1..published \subseteq Nat
    BY <1>1, <2>1
  <2>3. feed \in Seq(1..published)
    BY <2>1, <2>2, SeqMonotonic
  <2>4. \A i \in DOMAIN feed : feed[i] \in 1..published
    <3> DEFINE S == 1..published
    <3>1. feed \in Seq(S)
      BY <2>3
    <3> HIDE DEF S
    <3>2. \A i \in DOMAIN feed : feed[i] \in S
      BY <3>1
    <3> QED
      BY <3>2 DEF S
  <2> QED
    BY <2>2, <2>3, <2>4, SeqMonotonic
<1>6. /\ live \in Seq(Items \cup {Synchronized})
      /\ \A i \in DOMAIN live : ItemAt(i) => live[i] \in Items /\ live[i].seq \in Nat
                                             /\ live[i].seq >= 1
  <2>1. live \in Seq(Items \cup {Synchronized})
    BY <1>0 DEF StreamTyped
  <2>2. \A i \in DOMAIN live : live[i] \in Items \cup {Synchronized}
    BY <2>1
  <2>3. \A item \in Items : item.seq \in Nat /\ item.seq >= 1
    BY Bounds DEF Items
  <2> QED
    BY <2>1, <2>2, <2>3 DEF ItemAt
<1>7. sub.page \subseteq 1..Len(log)
  <2>1. sub.page \subseteq (since + 1)..Len(log) /\ since \in Nat
    BY <1>0, Bounds DEF SessionInv, RestTyped
  <2> QED
    BY <1>1, <2>1
<1> QED
  BY <1>1, <1>2, <1>3, <1>4, <1>5, <1>6, <1>7

\* The last event of a thread has an item, which shows the thread as it is.
LEMMA LastItem ==
  ASSUME CurrentInv, NEW t \in Threads, row[t].at > 0
  PROVE  /\ row[t].at \in 1..Len(log) /\ log[row[t].at].thread = t
         /\ HasItem(row[t].at)
         /\ Item(row[t].at).seq = row[t].at /\ Item(row[t].at).thread = t
         /\ Visible(Item(row[t].at).row) = Visible(row[t])
<1>1. /\ row[t].at \in 1..Len(log) /\ log[row[t].at].thread = t
      /\ row[t].state = "absent" <=> log[row[t].at].kind = "deleted"
      /\ log[row[t].at].kind = "archived" => row[t].state = "archived"
  BY Ranges DEF CurrentInv, RowsFollowLog
<1>2. HasItem(row[t].at)
  BY <1>1 DEF HasItem, Removes
<1>3. Item(row[t].at).seq = row[t].at /\ Item(row[t].at).thread = t
  BY <1>1 DEF Item
<1>4. CASE Removes(row[t].at)
  <2>1. Item(row[t].at).row = NoRow /\ NoRow.state = "absent"
    BY <1>4 DEF Item, NoRow
  <2>2. row[t].state # "open"
    BY <1>1, <1>4 DEF Removes
  <2>3. Visible(row[t]) = 0
    BY <2>2 DEF Visible
  <2>4. Visible(Item(row[t].at).row) = 0
    BY <2>1 DEF Visible
  <2> QED
    BY <1>1, <1>2, <1>3, <2>3, <2>4
<1>5. CASE ~Removes(row[t].at)
  <2>1. Item(row[t].at).row = row[t]
    BY <1>1, <1>5 DEF Item
  <2> QED
    BY <1>1, <1>2, <1>3, <2>1
<1> QED
  BY <1>4, <1>5

LEMMA CommitStaysCurrent ==
  ASSUME CurrentInv, NEW t \in Threads, NEW kind \in Kinds, Commit(t, kind)
  PROVE  CurrentInv'
<1> USE DEF server, stream, client, counts
<1> DEFINE n == Len(log) + 1
<1>0. ShellInv'
  BY CommitKeeps DEF CurrentInv
<1>1. /\ log' = Append(log, [thread |-> t, kind |-> kind]) /\ Len(log') = n
      /\ \A s \in 1..Len(log) : log'[s] = log[s]
      /\ log'[n] = [thread |-> t, kind |-> kind]
  <2>1. log \in Seq([thread: Threads, kind: Kinds])
    BY DEF CurrentInv, ShellInv, TypeOK
  <2> QED
    BY <2>1, AppendProperties DEF Commit
<1>2. /\ Len(log) \in Nat /\ published = Len(log) /\ shell.seq <= Len(log) /\ sub.cut <= Len(log)
      /\ shell.seq \in Nat /\ sub.cut \in Nat /\ sub.page \subseteq 1..Len(log)
  BY Ranges DEF CurrentInv, Cursors, Commit
<1>3. /\ \A u \in Threads : u # t => row'[u] = row[u]
      /\ row'[t].at = n
      /\ row'[t].state = "absent" <=> kind = "deleted"
      /\ kind = "archived" => row'[t].state = "archived"
  <2>1. row \in [Threads -> Rows] /\ row[t].state \in {"absent", "open", "archived"}
    BY Ranges DEF CurrentInv, ShellInv, TypeOK
  <2>2. row'[t] = RowAfter(t, kind) /\ \A u \in Threads : u # t => row'[u] = row[u]
    BY <2>1 DEF Commit
  <2> QED
    BY <2>1, <2>2 DEF RowAfter, Kinds
<1>4. /\ UNCHANGED <<published, sub, feed, live, shell, status, awaiting, step, missed>>
      /\ \A u \in Threads : row[u].at \in Nat /\ row[u].at <= Len(log)
  BY Ranges DEF Commit, CurrentInv, RowsFollowLog
<1> HIDE DEF n
<1>n. n = Len(log) + 1
  BY DEF n
<1>5. RowsFollowLog'
  <2>1. Len(log') <= published' + 1
    BY <1>1, <1>2, <1>4, <1>n
  <2>2. \A s \in 1..Len(log') : row'[log'[s].thread].at >= s
    <3> TAKE s \in 1..Len(log')
    <3>1. CASE s = n
      BY <1>1, <1>2, <1>3, <1>n, <3>1
    <3>2. CASE s # n
      <4>1. s \in 1..Len(log) /\ log'[s] = log[s] /\ log[s].thread \in Threads /\ row[log[s].thread].at >= s
        BY <1>1, <1>2, <1>n, <3>2, Ranges DEF CurrentInv, RowsFollowLog
      <4> QED
        BY <1>2, <1>3, <1>n, <4>1
    <3> QED
      BY <3>1, <3>2
  <2>3. ASSUME NEW u \in Threads
        PROVE  /\ row'[u].at <= Len(log')
               /\ row'[u].at = 0 => row'[u].state = "absent"
               /\ row'[u].at > 0 =>
                    /\ log'[row'[u].at].thread = u
                    /\ row'[u].state = "absent" <=> log'[row'[u].at].kind = "deleted"
                    /\ log'[row'[u].at].kind = "archived" => row'[u].state = "archived"
    <3>1. CASE u = t
      BY <1>1, <1>2, <1>3, <1>n, <3>1
    <3>2. CASE u # t
      <4>1. row'[u] = row[u] /\ row[u].at \in 0..Len(log)
        BY <1>3, <1>4, <1>2, <3>2
      <4>2. row[u].at > 0 => log'[row[u].at] = log[row[u].at]
        BY <4>1, <1>1, <1>2
      <4> QED
        BY <1>1, <1>2, <1>n, <4>1, <4>2 DEF CurrentInv, RowsFollowLog
    <3> QED
      BY <3>1, <3>2
  <2> QED
    BY <2>1, <2>2, <2>3 DEF RowsFollowLog
<1>6. InOrder'
  <2>1. ASSUME NEW i \in DOMAIN live, ItemAt(i)
        PROVE  /\ live[i].thread = log'[live[i].seq].thread
               /\ row'[live[i].thread].at = live[i].seq =>
                    Visible(live[i].row) = Visible(row'[live[i].thread])
    <3>1. live[i].seq \in 1..Len(log) /\ live[i].thread = log[live[i].seq].thread
      BY <1>2, <2>1, Ranges DEF CurrentInv, InOrder
    <3>2. live[i].thread \in Threads
      BY <3>1, Ranges DEF CurrentInv
    <3> QED
      BY <1>1, <1>2, <1>3, <1>n, <2>1, <3>1, <3>2 DEF CurrentInv, InOrder
  <2> QED
    BY <1>4, <2>1 DEF CurrentInv, InOrder, ItemAt
<1>7. Quiet' /\ Cursors' /\ Marks'
  BY <1>1, <1>2, <1>4, <1>n DEF CurrentInv, Quiet, Cursors, Marks
<1>8. Passed' /\ Paged'
  BY <1>2, <1>3, <1>4, <1>n DEF CurrentInv, Passed, Paged, ShownAsIs
<1>9. Coming'
  BY <1>2, <1>3, <1>4, <1>n DEF CurrentInv, Coming, OnItsWay, Members
<1>10. Unbroken'
  <2> SUFFICES ASSUME sub.pc = "replaying", NEW s \in sub.page, NEW u \in Threads,
                      shell.seq < row'[u].at, row'[u].at < s
               PROVE  \/ row'[u].at \in sub.page \cup missed
                      \/ row'[u].at > sub.cut /\ log'[row'[u].at].kind = "deleted"
    BY <1>4 DEF Unbroken
  <2>1. u # t /\ row'[u] = row[u]
    BY <1>2, <1>3, <1>n
  <2>2. row[u].at \in 1..Len(log)
    BY <1>2, <1>4, <2>1
  <2> QED
    BY <1>1, <2>1, <2>2 DEF CurrentInv, Unbroken
<1> QED
  BY <1>0, <1>5, <1>6, <1>7, <1>8, <1>9, <1>10 DEF CurrentInv

LEMMA AdvanceStaysCurrent ==
  ASSUME CurrentInv, Advance
  PROVE  CurrentInv'
<1>1. ShellInv'
  BY AdvanceKeeps DEF CurrentInv
<1> QED
  BY <1>1 DEF Advance, server, stream, client, counts, CurrentInv, RowsFollowLog, InOrder, ItemAt, Quiet,
     Cursors, Marks, Passed, ShownAsIs, Coming, OnItsWay, Members, Paged, Unbroken

LEMMA PublishStaysCurrent ==
  ASSUME CurrentInv, Publish
  PROVE  CurrentInv'
<1> USE DEF server, stream, client, counts
<1>0. ShellInv'
  BY PublishKeeps DEF CurrentInv
<1>1. /\ Len(log) \in Nat /\ published \in Nat /\ head = published + 1 /\ head = Len(log)
      /\ published' = head
  BY Ranges DEF CurrentInv, RowsFollowLog, Publish
<1>2. UNCHANGED <<log, row, sub, live, shell, status, awaiting, step, missed>>
  BY DEF Publish
<1>3. /\ feed \in Seq(Nat) /\ \A i \in DOMAIN feed : feed[i] \in 1..published
      /\ feed' = IF sub.attached THEN Append(feed, head) ELSE feed
  BY Ranges DEF CurrentInv, Publish
<1>4. /\ \A i \in DOMAIN feed' : feed'[i] = head \/ (i \in DOMAIN feed /\ feed'[i] = feed[i])
      /\ \A i, j \in DOMAIN feed' : i < j => i \in DOMAIN feed /\ feed'[i] = feed[i]
      /\ Members(feed) \subseteq Members(feed')
      /\ sub.attached => head \in Members(feed')
  <2>1. CASE sub.attached
    <3>1. feed' = Append(feed, head) /\ head \in Nat
      BY <1>1, <1>3, <2>1
    <3>2. /\ DOMAIN feed = 1..Len(feed) /\ Len(feed) \in Nat
          /\ DOMAIN feed' = 1..(Len(feed) + 1)
          /\ \A i \in 1..Len(feed) : feed'[i] = feed[i]
          /\ feed'[Len(feed) + 1] = head
      BY <1>3, <3>1, AppendProperties
    <3> QED
      BY <3>2 DEF Members
  <2>2. CASE ~sub.attached
    BY <1>3, <2>2
  <2> QED
    BY <2>1, <2>2
<1>5. RowsFollowLog'
  BY <1>1, <1>2 DEF CurrentInv, RowsFollowLog
<1>6. InOrder'
  <2>1. sub'.pc = "none" => sub' = NoSubscription /\ feed' = <<>> /\ live' = <<>>
    <3>1. sub.pc = "none" => sub = NoSubscription /\ feed = <<>> /\ live = <<>>
      BY DEF CurrentInv, InOrder
    <3>2. sub = NoSubscription => ~sub.attached
      BY DEF NoSubscription
    <3> QED
      BY <1>2, <1>3, <3>1, <3>2
  <2>2. \A i, j \in DOMAIN feed' : i < j => feed'[i] < feed'[j]
    BY <1>1, <1>3, <1>4 DEF CurrentInv, InOrder
  <2>3. ASSUME NEW i \in DOMAIN live, NEW j \in DOMAIN feed', ItemAt(i)
        PROVE  live[i].seq < feed'[j]
    <3>1. CASE feed'[j] = head
      <4>1. live[i].seq \in Nat /\ live[i].seq <= published
        BY <2>3, Ranges DEF CurrentInv, InOrder
      <4> QED
        BY <1>1, <3>1, <4>1
    <3>2. CASE j \in DOMAIN feed /\ feed'[j] = feed[j]
      BY <2>3, <3>2 DEF CurrentInv, InOrder
    <3> QED
      BY <1>4, <3>1, <3>2
  <2>4. \A i \in DOMAIN live : ItemAt(i) => live[i].seq <= published'
    BY <1>1, Ranges DEF CurrentInv, InOrder
  <2> QED
    BY <1>2, <2>1, <2>2, <2>3, <2>4 DEF CurrentInv, InOrder, ItemAt
<1>7. Quiet' /\ Cursors' /\ Marks' /\ Passed' /\ Paged' /\ Unbroken'
  BY <1>2, <1>3 DEF CurrentInv, Quiet, Cursors, Marks, Passed, Paged, Unbroken, ShownAsIs
<1>8. Coming'
  <2> SUFFICES ASSUME sub.pc \in {"replay", "replaying", "marking", "streaming"}, sub.attached,
                      NEW t \in Threads, row[t].at > sub.cut, row[t].at > shell.seq
               PROVE  OnItsWay(row[t].at)' \/ row[t].at \in missed
    BY <1>2 DEF Coming, OnItsWay
  <2>1. row[t].at \in Nat /\ row[t].at <= Len(log)
    BY Ranges DEF CurrentInv, RowsFollowLog
  <2>2. OnItsWay(row[t].at) \/ row[t].at \in missed
    BY DEF CurrentInv, Coming
  <2>3. CASE row[t].at > published
    <3>1. row[t].at = head
      BY <1>1, <2>1, <2>3
    <3> QED
      BY <1>2, <1>4, <3>1 DEF OnItsWay
  <2>4. CASE row[t].at \in missed
    BY <2>4
  <2>5. CASE row[t].at \in Members(feed) \/ \E i \in DOMAIN live : live[i] # Synchronized /\ live[i].seq = row[t].at
    BY <1>2, <1>4, <2>5 DEF OnItsWay
  <2> QED
    BY <2>2, <2>3, <2>4, <2>5 DEF OnItsWay
<1> QED
  BY <1>0, <1>5, <1>6, <1>7, <1>8 DEF CurrentInv

LEMMA AttachStaysCurrent ==
  ASSUME CurrentInv, Attach
  PROVE  CurrentInv'
<1> USE DEF server, stream, client, counts
<1>0. ShellInv'
  BY AttachKeeps DEF CurrentInv
<1>1. UNCHANGED <<log, row, published, feed, live, shell, status, awaiting, step>>
  BY DEF Attach
<1>2. /\ sub'.pc = sub.pc /\ sub'.after = sub.after /\ sub'.cut = sub.cut /\ sub'.page = sub.page
      /\ missed' = missed \cup AttachMisses /\ sub.pc # "none"
  BY Ranges DEF CurrentInv, Attach, Subs
<1>3. RowsFollowLog' /\ InOrder' /\ Quiet' /\ Cursors' /\ Marks'
  <2>1. sub'.attached
    BY Ranges DEF CurrentInv, Attach, Subs
  <2>2. Quiet'
    BY <1>2, <2>1 DEF CurrentInv, Quiet
  <2> QED
    BY <1>1, <1>2, <2>2 DEF CurrentInv, RowsFollowLog, InOrder, ItemAt, Cursors, Marks
<1>4. Passed' /\ Paged' /\ Unbroken'
  BY <1>1, <1>2 DEF CurrentInv, Passed, ShownAsIs, Paged, Unbroken
<1>5. Coming'
  <2> SUFFICES ASSUME sub.pc \in {"replay", "replaying", "marking", "streaming"},
                      NEW t \in Threads, row[t].at > sub.cut
               PROVE  row[t].at > published \/ row[t].at \in missed'
    BY <1>1, <1>2 DEF Coming, OnItsWay
  <2>1. row[t].at \in Nat /\ sub.cut \in Nat /\ published \in Nat
    BY Ranges DEF CurrentInv
  <2> QED
    BY <1>2, <2>1 DEF AttachMisses
<1> QED
  BY <1>0, <1>3, <1>4, <1>5 DEF CurrentInv

\* The events left are after the one that is taken from the feed.
LEMMA FeedHead ==
  ASSUME CurrentInv, feed # <<>>
  PROVE  /\ Head(feed) \in 1..published
         /\ \A i \in DOMAIN Tail(feed) : Tail(feed)[i] \in Nat /\ Head(feed) < Tail(feed)[i]
         /\ \A i, j \in DOMAIN Tail(feed) : i < j => Tail(feed)[i] < Tail(feed)[j]
         /\ \A i \in DOMAIN Tail(feed) : \E j \in DOMAIN feed : Tail(feed)[i] = feed[j]
         /\ \A i \in DOMAIN live : ItemAt(i) => live[i].seq < Head(feed)
         /\ Members(feed) \subseteq {Head(feed)} \cup Members(Tail(feed))
<1>1. /\ feed \in Seq(Nat) /\ \A i \in DOMAIN feed : feed[i] \in 1..published
      /\ \A i, j \in DOMAIN feed : i < j => feed[i] < feed[j]
      /\ \A i \in DOMAIN live, j \in DOMAIN feed : ItemAt(i) => live[i].seq < feed[j]
  BY Ranges DEF CurrentInv, InOrder
<1>2. /\ DOMAIN feed = 1..Len(feed) /\ Len(feed) \in Nat /\ Len(feed) >= 1
      /\ Head(feed) = feed[1]
      /\ DOMAIN Tail(feed) = 1..(Len(feed) - 1)
      /\ \A i \in 1..(Len(feed) - 1) : Tail(feed)[i] = feed[i + 1]
  <2>1. feed \in Seq(Nat) /\ feed # <<>>
    BY <1>1
  <2> QED
    BY <2>1, EmptySeq, HeadTailProperties
<1>3. 1 \in DOMAIN feed /\ \A i \in DOMAIN Tail(feed) : i + 1 \in DOMAIN feed /\ 1 < i + 1
  BY <1>2
<1>4. \A i \in DOMAIN Tail(feed) : Tail(feed)[i] \in Nat /\ Head(feed) < Tail(feed)[i]
  BY <1>1, <1>2, <1>3
<1>5. \A i, j \in DOMAIN Tail(feed) : i < j => Tail(feed)[i] < Tail(feed)[j]
  BY <1>1, <1>2, <1>3
<1>6. Members(feed) \subseteq {Head(feed)} \cup Members(Tail(feed))
  <2> SUFFICES ASSUME NEW i \in DOMAIN feed, i # 1
               PROVE  feed[i] \in Members(Tail(feed))
    BY <1>2 DEF Members
  <2>1. i - 1 \in DOMAIN Tail(feed) /\ Tail(feed)[i - 1] = feed[i]
    BY <1>2
  <2> QED
    BY <2>1 DEF Members
<1> QED
  BY <1>1, <1>2, <1>3, <1>4, <1>5, <1>6

\* What is left to show for a step that takes an event from the feed.
LEMMA FeedStaysCurrent ==
  ASSUME CurrentInv, ShellInv', feed # <<>>, feed' = Tail(feed),
         UNCHANGED <<log, row, published, sub, shell, status, awaiting, step>>,
         missed \subseteq missed',
         \/ live' = live
         \/ HasItem(Head(feed)) /\ live' = Append(live, Item(Head(feed))),
         \/ Head(feed) \in missed'
         \/ HasItem(Head(feed)) => live' = Append(live, Item(Head(feed)))
  PROVE  CurrentInv'
<1> DEFINE e == Head(feed)
<1>1. /\ feed' = Tail(feed) /\ e \in 1..published /\ published \in 0..Len(log) /\ Len(log) \in Nat
      /\ live \in Seq(Items \cup {Synchronized})
      /\ \A i \in DOMAIN live : ItemAt(i) => live[i].seq \in Nat
      /\ Item(e) \in Items /\ Item(e).seq = e /\ Item(e).thread = log[e].thread
  <2>1. e \in 1..Len(log) /\ Item(e).seq = e /\ Item(e).thread = log[e].thread
    BY FeedHead, Ranges DEF CurrentInv, Item
  <2> QED
    BY <2>1, FeedHead, Ranges, ItemTyped, TypeParts DEF CurrentInv, ShellInv
<1>2. /\ \A i \in DOMAIN feed' : feed'[i] \in Nat /\ e < feed'[i]
      /\ \A i, j \in DOMAIN feed' : i < j => feed'[i] < feed'[j]
      /\ \A i \in DOMAIN feed' : \E j \in DOMAIN feed : feed'[i] = feed[j]
      /\ \A i \in DOMAIN live : ItemAt(i) => live[i].seq < e
      /\ Members(feed) \subseteq {e} \cup Members(feed')
  BY <1>1, FeedHead
<1>3. /\ DOMAIN live \subseteq DOMAIN live'
      /\ \A i \in DOMAIN live : live'[i] = live[i]
      /\ \A i \in DOMAIN live' : i \in DOMAIN live \/ (live'[i] = Item(e) /\ HasItem(e))
      /\ \A i, j \in DOMAIN live' : i < j => i \in DOMAIN live
      /\ (HasItem(e) => live' = Append(live, Item(e))) =>
            (HasItem(e) => \E i \in DOMAIN live' : live'[i] = Item(e))
  <2>1. CASE live' = live /\ ~(live' = Append(live, Item(e)))
    BY <2>1
  <2>2. CASE HasItem(e) /\ live' = Append(live, Item(e))
    <3>1. /\ DOMAIN live = 1..Len(live) /\ Len(live) \in Nat
          /\ DOMAIN live' = 1..(Len(live) + 1)
          /\ \A i \in 1..Len(live) : live'[i] = live[i]
          /\ live'[Len(live) + 1] = Item(e)
      <4>1. live' = Append(live, Item(e)) /\ Item(e) \in Items \cup {Synchronized}
        BY <1>1, <2>2
      <4> QED
        BY <1>1, <4>1, AppendProperties
    <3>2. /\ DOMAIN live \subseteq DOMAIN live'
          /\ \A i \in DOMAIN live : live'[i] = live[i]
      BY <3>1
    <3>3. ASSUME NEW i \in DOMAIN live', i \notin DOMAIN live
          PROVE  i = Len(live) + 1
      BY <3>1, <3>3
    <3>4. \A i, j \in DOMAIN live' : i < j => i \in DOMAIN live
      BY <3>1
    <3>5. \E i \in DOMAIN live' : live'[i] = Item(e)
      BY <3>1
    <3>6. \A i \in DOMAIN live' : i \in DOMAIN live \/ (live'[i] = Item(e) /\ HasItem(e))
      BY <2>2, <3>1, <3>3
    <3> HIDE DEF e
    <3> QED
      BY <3>2, <3>4, <3>5, <3>6
  <2>3. CASE live' = live /\ live' = Append(live, Item(e))
    <3>1. Len(Append(live, Item(e))) = Len(live) + 1 /\ Len(live) \in Nat
      BY <1>1, AppendProperties
    <3> QED
      BY <2>3, <3>1
  <2> QED
    BY <2>1, <2>2, <2>3
<1> HIDE DEF e
<1>4. RowsFollowLog' /\ Quiet' /\ Cursors' /\ Marks'
  BY DEF CurrentInv, RowsFollowLog, Quiet, Cursors, Marks
<1>5. InOrder'
  <2>1. sub'.pc = "none" => sub' = NoSubscription /\ feed' = <<>> /\ live' = <<>>
    BY DEF CurrentInv, InOrder
  <2>2. ASSUME NEW i \in DOMAIN live', NEW j \in DOMAIN live', i < j, ItemAt(i)', ItemAt(j)'
        PROVE  live'[i].seq < live'[j].seq
    <3>1. i \in DOMAIN live /\ ItemAt(i) /\ live'[i] = live[i]
      BY <1>3, <2>2 DEF ItemAt
    <3>2. CASE j \in DOMAIN live
      BY <1>3, <2>2, <3>1, <3>2 DEF CurrentInv, InOrder, ItemAt
    <3>3. CASE live'[j] = Item(e)
      BY <1>1, <1>2, <3>1, <3>3
    <3> QED
      BY <1>3, <3>2, <3>3
  <2>3. ASSUME NEW i \in DOMAIN live', NEW j \in DOMAIN feed', ItemAt(i)'
        PROVE  live'[i].seq < feed'[j]
    <3>1. CASE i \in DOMAIN live
      <4>1. PICK k \in DOMAIN feed : feed'[j] = feed[k]
        BY <1>2
      <4> QED
        BY <1>3, <2>3, <3>1, <4>1 DEF CurrentInv, InOrder, ItemAt
    <3>2. CASE live'[i] = Item(e)
      BY <1>1, <1>2, <3>2
    <3> QED
      BY <1>3, <3>1, <3>2
  <2>4. ASSUME NEW i \in DOMAIN live', ItemAt(i)'
        PROVE  /\ live'[i].seq <= published'
               /\ live'[i].thread = log'[live'[i].seq].thread
               /\ row'[live'[i].thread].at = live'[i].seq =>
                    Visible(live'[i].row) = Visible(row'[live'[i].thread])
    <3>1. CASE i \in DOMAIN live
      BY <1>3, <2>4, <3>1 DEF CurrentInv, InOrder, ItemAt
    <3>2. CASE live'[i] = Item(e)
      <4>1. live'[i].seq <= published' /\ live'[i].thread = log'[live'[i].seq].thread
        BY <1>1, <3>2
      <4>2. ASSUME row[log[e].thread].at = e
            PROVE  Visible(Item(e).row) = Visible(row[log[e].thread])
        <5>1. log[e].thread \in Threads /\ row[log[e].thread].at > 0
          BY <1>1, <4>2, Ranges DEF CurrentInv
        <5>2. Visible(Item(row[log[e].thread].at).row) = Visible(row[log[e].thread])
          BY <5>1, LastItem
        <5> QED
          BY <4>2, <5>2
      <4> QED
        BY <1>1, <3>2, <4>1, <4>2
    <3> QED
      BY <1>3, <3>1, <3>2
  <2> QED
    BY <1>2, <2>1, <2>2, <2>3, <2>4 DEF InOrder
<1>6. Passed' /\ Paged' /\ Unbroken'
  BY DEF CurrentInv, Passed, ShownAsIs, Paged, Unbroken
<1>7. Coming'
  <2> SUFFICES ASSUME sub.pc \in {"replay", "replaying", "marking", "streaming"}, sub.attached,
                      NEW t \in Threads, row[t].at > sub.cut, row[t].at > shell.seq
               PROVE  OnItsWay(row[t].at)' \/ row[t].at \in missed'
    BY DEF Coming, OnItsWay
  <2>1. OnItsWay(row[t].at) \/ row[t].at \in missed
    BY DEF CurrentInv, Coming
  <2>2. CASE row[t].at = e
    <3>1. row[t].at > 0
      BY <1>1, <2>2
    <3>2. HasItem(e)
      BY <2>2, <3>1, LastItem
    <3>3. CASE e \in missed'
      BY <2>2, <3>3
    <3>4. CASE HasItem(e) => live' = Append(live, Item(e))
      <4>1. PICK i \in DOMAIN live' : live'[i] = Item(e)
        BY <1>3, <3>2, <3>4
      <4>2. live'[i].seq = e
        BY <1>1, <4>1
      <4>3. CASE live'[i] # Synchronized
        BY <2>2, <4>1, <4>2, <4>3 DEF OnItsWay
      <4>4. CASE live'[i] = Synchronized
        BY <4>4, MarkerIsNoItem, <1>1, <4>1
      <4> QED
        BY <4>3, <4>4
    <3> QED
      BY <3>3, <3>4 DEF e
  <2>3. CASE row[t].at \in Members(feed) /\ row[t].at # e
    BY <1>2, <2>3 DEF OnItsWay
  <2>4. CASE row[t].at > published \/ row[t].at \in missed
    BY <2>4 DEF OnItsWay
  <2>5. CASE \E i \in DOMAIN live : live[i] # Synchronized /\ live[i].seq = row[t].at
    <3>1. PICK i \in DOMAIN live : live[i] # Synchronized /\ live[i].seq = row[t].at
      BY <2>5
    <3>2. i \in DOMAIN live' /\ live'[i] = live[i]
      BY <1>3
    <3> QED
      BY <3>1, <3>2 DEF OnItsWay
  <2> QED
    BY <2>1, <2>2, <2>3, <2>4, <2>5 DEF OnItsWay
<1> QED
  BY <1>4, <1>5, <1>6, <1>7 DEF CurrentInv

LEMMA MapStaysCurrent ==
  ASSUME CurrentInv, Map \/ MapFails
  PROVE  CurrentInv'
<1> USE DEF server, stream, client, counts
<1>1. ShellInv'
  BY MapKeeps DEF CurrentInv
<1>2. /\ feed # <<>> /\ feed' = Tail(feed) /\ missed \subseteq missed'
      /\ UNCHANGED <<log, row, published, sub, shell, status, awaiting, step>>
  BY DEF Map, MapFails
<1>3. /\ live' = live \/ (HasItem(Head(feed)) /\ live' = Append(live, Item(Head(feed))))
      /\ Head(feed) \in missed' \/ (HasItem(Head(feed)) => live' = Append(live, Item(Head(feed))))
  BY DEF Map, MapFails
<1> QED
  BY <1>1, <1>2, <1>3, FeedStaysCurrent

LEMMA ChooseStaysCurrent ==
  ASSUME CurrentInv, Choose
  PROVE  CurrentInv'
<1> USE DEF server, stream, client, counts
<1>0. ShellInv'
  BY ChooseKeeps DEF CurrentInv
<1>1. UNCHANGED <<log, row, published, feed, live, shell, status, awaiting, step, missed>>
  BY DEF Choose
<1>2. /\ sub.pc = "started" /\ sub'.after = sub.after /\ sub'.page = sub.page
      /\ sub'.attached = sub.attached
      /\ \/ sub'.pc = "replay" /\ sub'.cut = head
         \/ sub'.pc = "snapshot" /\ sub'.cut = sub.cut
  BY Ranges DEF CurrentInv, Choose, Subs
<1>3. head \in 0..Len(log) /\ published \in 0..head /\ Len(log) \in Nat
  BY Ranges DEF CurrentInv
<1>4. RowsFollowLog' /\ InOrder' /\ Quiet' /\ Marks'
  BY <1>1, <1>2 DEF CurrentInv, RowsFollowLog, InOrder, ItemAt, Quiet, Marks
<1>5. Cursors'
  BY <1>1, <1>2, <1>3 DEF CurrentInv, Cursors
<1>6. Passed' /\ Paged' /\ Unbroken'
  BY <1>1, <1>2 DEF CurrentInv, Passed, ShownAsIs, Paged, Unbroken
<1>7. Coming'
  <2> SUFFICES ASSUME sub'.pc = "replay", NEW t \in Threads, row[t].at > head
               PROVE  row[t].at > published
    BY <1>1, <1>2 DEF Coming, OnItsWay
  <2>1. row[t].at \in Nat
    BY Ranges DEF CurrentInv
  <2> QED
    BY <1>3, <2>1
<1> QED
  BY <1>0, <1>4, <1>5, <1>6, <1>7 DEF CurrentInv

\* Of the events that are left after the cursor, as many are not after s as
\* there are numbers in between.
LEMMA PageHolds ==
  ASSUME NEW after \in Nat, NEW events, events \subseteq {n \in Nat : n > after}, NEW s \in Nat, s >= after
  PROVE  /\ IsFiniteSet({r \in events : r <= s})
         /\ Cardinality({r \in events : r <= s}) <= s - after
<1>0. ASSUME NEW r \in events, r <= s PROVE r \in (after + 1)..s
  <2>1. r \in Nat /\ r > after
    OBVIOUS
  <2> QED
    BY <1>0, <2>1
<1>1. {r \in events : r <= s} \in SUBSET ((after + 1)..s)
  BY <1>0
<1>2. after + 1 \in Int /\ s \in Int
  OBVIOUS
<1>3. IsFiniteSet((after + 1)..s)
  BY <1>2, FS_Interval
<1>4. Cardinality((after + 1)..s) = IF after + 1 > s THEN 0 ELSE s - (after + 1) + 1
  BY <1>2, FS_Interval
<1>5. Cardinality((after + 1)..s) = s - after
  BY <1>4
<1>6. /\ IsFiniteSet({r \in events : r <= s})
      /\ Cardinality({r \in events : r <= s}) <= Cardinality((after + 1)..s)
  BY <1>1, <1>3, FS_Subset
<1> QED
  BY <1>5, <1>6

LEMMA ReadPageStaysCurrent ==
  ASSUME CurrentInv, ReadPage
  PROVE  CurrentInv'
<1> USE DEF server, stream, client, counts
<1> DEFINE events == {s \in (sub.after + 1)..Len(log) : ~Purged(s)}
           limit == sub.cut - sub.after
<1>0. ShellInv'
  BY ReadPageKeeps DEF CurrentInv
<1>1. UNCHANGED <<log, row, published, feed, live, shell, status, awaiting, step>>
  BY DEF ReadPage
<1>2. /\ sub.pc = "replay" /\ sub'.pc = "replaying" /\ sub'.after = sub.after /\ sub'.cut = sub.cut
      /\ sub'.page = Page /\ sub'.attached = sub.attached
  BY Ranges DEF CurrentInv, ReadPage, Subs
<1>3. /\ Len(log) \in Nat /\ sub.cut \in Nat /\ sub.cut <= Len(log)
      /\ sub.after \in Nat /\ shell.seq = sub.after
      /\ \A t \in Threads : row[t].at \in Nat /\ row[t].at <= Len(log)
  <2>1. sub.after # NoCursor /\ sub.after \in 0..MaxEvents \cup {NoCursor}
    BY <1>2, Ranges DEF CurrentInv, ShellInv, SessionInv, Subs
  <2> QED
    BY <1>2, <2>1, Bounds, Ranges DEF CurrentInv, Cursors, RowsFollowLog
<1>4. /\ missed \subseteq missed'
      /\ \A s \in (sub.after + 1)..sub.cut : log[s].kind = "deleted" => s \in missed'
  BY DEF ReadPage
<1>5. ASSUME NEW t \in Threads, row[t].at > sub.after, log[row[t].at].kind # "deleted"
      PROVE  row[t].at \in events
  <2>1. row[t].at \in (sub.after + 1)..Len(log) /\ row[t].at > 0
    BY <1>3, <1>5
  <2>2. log[row[t].at].thread = t /\ row[t].state # "absent"
    BY <1>5, <2>1 DEF CurrentInv, RowsFollowLog
  <2> QED
    BY <2>1, <2>2 DEF Purged
<1>6. /\ Page = {s \in events : Cardinality({r \in events : r <= s}) <= limit}
      /\ events \subseteq {n \in Nat : n > sub.after}
      /\ limit \in Int
  BY <1>3 DEF Page
<1> HIDE DEF events, limit
<1>l. limit = sub.cut - sub.after
  BY DEF limit
<1>7. RowsFollowLog' /\ InOrder' /\ Quiet' /\ Marks'
  BY <1>1, <1>2 DEF CurrentInv, RowsFollowLog, InOrder, ItemAt, Quiet, Marks
<1>8. Cursors'
  <2>1. \A s \in sub'.page : shell'.seq < s
    BY <1>1, <1>2, <1>3, <1>6
  <2> QED
    BY <1>1, <1>2, <2>1 DEF CurrentInv, Cursors
<1>9. Passed' /\ Coming'
  BY <1>1, <1>2, <1>4 DEF CurrentInv, Passed, ShownAsIs, Coming, OnItsWay
<1>10. Paged'
  <2> SUFFICES ASSUME NEW t \in Threads, row[t].at <= sub.cut, row[t].at > shell.seq
               PROVE  row[t].at \in sub'.page \cup missed'
    BY <1>1, <1>2 DEF Paged
  <2>1. CASE log[row[t].at].kind = "deleted"
    <3>1. row[t].at \in (sub.after + 1)..sub.cut
      BY <1>3
    <3> QED
      BY <1>4, <2>1, <3>1
  <2>2. CASE log[row[t].at].kind # "deleted"
    <3>1. row[t].at \in Nat /\ row[t].at >= sub.after /\ row[t].at \in events
      BY <1>3, <1>5, <2>2
    <3>2. Cardinality({r \in events : r <= row[t].at}) <= row[t].at - sub.after
      BY <1>3, <1>6, <3>1, PageHolds
    <3>3. {r \in events : r <= row[t].at} \subseteq events /\ IsFiniteSet({r \in events : r <= row[t].at})
      BY <1>3, <1>6, <3>1, PageHolds
    <3>4. Cardinality({r \in events : r <= row[t].at}) \in Nat
      BY <3>3, FS_CardinalityType
    <3>5. Cardinality({r \in events : r <= row[t].at}) <= limit
      BY <1>3, <1>l, <3>1, <3>2, <3>4
    <3> QED
      BY <1>2, <1>6, <3>1, <3>5
  <2> QED
    BY <2>1, <2>2
<1>11. Unbroken'
  <2> SUFFICES ASSUME NEW s \in Page, NEW t \in Threads, shell.seq < row[t].at, row[t].at < s
               PROVE  \/ row[t].at \in Page \cup missed'
                      \/ row[t].at > sub.cut /\ log[row[t].at].kind = "deleted"
    BY <1>1, <1>2 DEF Unbroken
  <2>1. CASE log[row[t].at].kind = "deleted"
    <3>1. row[t].at > sub.cut \/ row[t].at \in (sub.after + 1)..sub.cut
      BY <1>3
    <3> QED
      BY <1>4, <2>1, <3>1
  <2>2. CASE log[row[t].at].kind # "deleted"
    <3> DEFINE small == {r \in events : r <= row[t].at}
               large == {r \in events : r <= s}
    <3>1. row[t].at \in Nat /\ row[t].at \in events /\ s \in Nat /\ s >= sub.after
      BY <1>3, <1>5, <1>6, <2>2
    <3>2. small \in SUBSET large
      <4>1. \A r \in events : r \in Nat
        BY <1>6
      <4>2. \A r \in events : r <= row[t].at => r <= s
        BY <3>1, <4>1
      <4> QED
        BY <4>2
    <3>3. IsFiniteSet(large) /\ Cardinality(large) <= limit
      BY <1>3, <1>6, <3>1, PageHolds
    <3>4. IsFiniteSet(small) /\ Cardinality(small) <= Cardinality(large)
      BY <3>2, <3>3, FS_Subset
    <3>5. Cardinality(small) \in Nat /\ Cardinality(large) \in Nat
      BY <3>3, <3>4, FS_CardinalityType
    <3>6. Cardinality(small) <= limit
      BY <1>6, <3>3, <3>4, <3>5
    <3> QED
      BY <1>6, <3>1, <3>6
  <2> QED
    BY <2>1, <2>2
<1> QED
  BY <1>0, <1>7, <1>8, <1>9, <1>10, <1>11 DEF CurrentInv

LEMMA TakenParts ==
  ASSUME ShellInv, NEW item \in Items
  PROVE  /\ item.seq > shell.seq =>
              /\ Taken(item).seq = item.seq
              /\ \A t \in Threads :
                   Taken(item).rows[t] = IF t = item.thread THEN item.row ELSE shell.rows[t]
         /\ ~(item.seq > shell.seq) => Taken(item) = shell
<1>1. shell \in Shells /\ item.thread \in Threads
  BY Ranges DEF Items
<1>2. CASE item.seq > shell.seq
  <2> DEFINE rows == [shell.rows EXCEPT ![item.thread] = item.row]
  <2>1. \A t \in Threads : rows[t] = IF t = item.thread THEN item.row ELSE shell.rows[t]
    BY <1>1 DEF Shells
  <2>2. Taken(item) = [known |-> shell.known, seq |-> item.seq, rows |-> rows]
    BY <1>1, <1>2 DEF Taken, Shells
  <2> HIDE DEF rows
  <2> QED
    BY <1>2, <2>1, <2>2
<1>3. CASE ~(item.seq > shell.seq)
  BY <1>3 DEF Taken
<1> QED
  BY <1>2, <1>3

\* An item moves the client on: what it passes, it shows or misses, as long as
\* it misses all that is in between.
LEMMA TakenPasses ==
  ASSUME CurrentInv, NEW item \in Items, shell' = Taken(item), UNCHANGED <<log, row>>,
         item.seq \in 1..Len(log), item.thread = log[item.seq].thread,
         row[item.thread].at = item.seq => Visible(item.row) = Visible(row[item.thread]),
         missed \subseteq missed',
         \A t \in Threads :
           shell.seq < row[t].at /\ row[t].at < item.seq => row[t].at \in missed'
  PROVE  /\ Passed' /\ shell'.seq \in Nat /\ shell'.seq <= Len(log)
         /\ shell'.seq >= shell.seq /\ shell'.seq >= item.seq
         /\ shell'.seq \in {shell.seq, item.seq}
<1>1. /\ shell.seq \in Nat /\ shell.seq <= Len(log) /\ Len(log) \in Nat
      /\ item.seq \in Nat /\ item.thread \in Threads
      /\ \A t \in Threads : row[t].at \in Nat
  BY Ranges DEF CurrentInv, Cursors
<1>2. CASE item.seq > shell.seq
  <2>1. /\ shell'.seq = item.seq
        /\ \A t \in Threads :
             shell'.rows[t] = IF t = item.thread THEN item.row ELSE shell.rows[t]
    BY <1>2, TakenParts DEF CurrentInv
  <2>2. Passed'
    <3> SUFFICES ASSUME NEW t \in Threads, row[t].at <= item.seq
                 PROVE  Visible(shell'.rows[t]) = Visible(row[t]) \/ row[t].at \in missed'
      BY <2>1 DEF Passed, ShownAsIs
    <3>1. CASE t = item.thread
      <4>1. row[t].at >= item.seq
        BY <3>1 DEF CurrentInv, RowsFollowLog
      <4>2. row[t].at = item.seq
        BY <1>1, <4>1
      <4>3. shell'.rows[t] = item.row
        BY <2>1, <3>1
      <4> QED
        BY <3>1, <4>2, <4>3
    <3>2. CASE t # item.thread /\ row[t].at <= shell.seq
      <4>1. shell'.rows[t] = shell.rows[t]
        BY <2>1, <3>2
      <4> QED
        BY <3>2, <4>1 DEF CurrentInv, Passed, ShownAsIs
    <3>3. CASE t # item.thread /\ shell.seq < row[t].at
      <4>1. row[t].at # item.seq
        <5>1. row[t].at > 0
          BY <1>1, <3>3
        <5>2. log[row[t].at].thread = t
          BY <5>1, LastItem
        <5> QED
          BY <3>3, <5>2
      <4>2. row[t].at < item.seq
        BY <1>1, <4>1
      <4> QED
        BY <3>3, <4>2
    <3> QED
      BY <1>1, <3>1, <3>2, <3>3
  <2> QED
    BY <1>1, <1>2, <2>1, <2>2
<1>3. CASE ~(item.seq > shell.seq)
  <2>1. shell' = shell
    BY <1>3, TakenParts DEF CurrentInv
  <2>2. Passed'
    BY <2>1 DEF CurrentInv, Passed, ShownAsIs
  <2> QED
    BY <1>1, <1>3, <2>1, <2>2
<1> QED
  BY <1>2, <1>3

LEMMA ReplayStaysCurrent ==
  ASSUME CurrentInv, NEW s \in sub.page, Replay(s) \/ ReplayFails(s)
  PROVE  CurrentInv'
<1> USE DEF server, stream, client, counts
<1>0. ShellInv'
  BY ReplayKeeps DEF CurrentInv
<1>1. /\ UNCHANGED <<log, row, published, feed, live, step, awaiting>> /\ missed \subseteq missed'
      /\ sub.pc = "replaying" /\ sub'.pc = "replaying" /\ sub'.cut = sub.cut
      /\ sub'.page = sub.page \ {s} /\ sub'.attached = sub.attached /\ sub'.after = sub.after
      /\ \A r \in sub.page : s <= r
  BY Ranges DEF CurrentInv, Replay, ReplayFails, Receive, Leads, Subs
<1>2. /\ s \in 1..Len(log) /\ sub.page \subseteq 1..Len(log) /\ Len(log) \in Nat
      /\ shell.seq \in Nat /\ sub.cut \in Nat /\ shell.seq < s
      /\ \A t \in Threads : row[t].at \in Nat /\ row[t].at <= Len(log)
  BY <1>1, Ranges DEF CurrentInv, Cursors, RowsFollowLog
<1>3. /\ Passed' /\ shell'.seq \in Nat /\ shell'.seq <= Len(log) /\ shell'.seq >= shell.seq
      /\ shell'.seq \in {shell.seq, s}
      /\ \A t \in Threads : row[t].at = s => shell'.seq >= s \/ s \in missed'
      /\ status' \in {status, Waiting}
  <2>1. ASSUME HasItem(s), Receive(Item(s)), missed' = missed \cup Overtakes(s)
        PROVE  /\ Passed' /\ shell'.seq \in Nat /\ shell'.seq <= Len(log) /\ shell'.seq >= shell.seq
               /\ shell'.seq \in {shell.seq, s} /\ shell'.seq >= s /\ status' = Waiting
    <3>1. /\ Item(s) \in Items /\ Item(s).seq = s /\ Item(s).thread = log[s].thread
          /\ log[s].thread \in Threads
      BY <1>2, ItemTyped, TypeParts, Ranges DEF CurrentInv, ShellInv, Item
    <3>2. row[log[s].thread].at = s => Visible(Item(s).row) = Visible(row[log[s].thread])
      <4>1. SUFFICES ASSUME row[log[s].thread].at = s
                     PROVE  Visible(Item(s).row) = Visible(row[log[s].thread])
        OBVIOUS
      <4>2. row[log[s].thread].at > 0
        BY <1>2, <4>1
      <4> QED
        BY <3>1, <4>1, <4>2, LastItem
    <3>3. ASSUME NEW t \in Threads, shell.seq < row[t].at, row[t].at < s
          PROVE  row[t].at \in missed'
      <4>1. \/ row[t].at \in sub.page \cup missed
            \/ row[t].at > sub.cut /\ log[row[t].at].kind = "deleted"
        BY <1>1, <3>3 DEF CurrentInv, Unbroken
      <4>2. row[t].at \notin sub.page
        BY <1>1, <1>2, <3>3
      <4>3. ASSUME row[t].at > sub.cut, log[row[t].at].kind = "deleted"
            PROVE  row[t].at \in Overtakes(s)
        <5>1. row[t].at \in (sub.cut + 1)..(s - 1)
          BY <1>2, <3>3, <4>3
        <5> QED
          BY <4>3, <5>1 DEF Overtakes
      <4> QED
        BY <2>1, <4>1, <4>2, <4>3
    <3>4. shell' = Taken(Item(s)) /\ status' = Waiting
      BY <2>1 DEF Receive
    <3> QED
      BY <1>1, <1>2, <3>1, <3>2, <3>3, <3>4, TakenPasses
  <2>2. ASSUME UNCHANGED <<shell, status>>
        PROVE  /\ Passed' /\ shell'.seq \in Nat /\ shell'.seq <= Len(log) /\ shell'.seq >= shell.seq
               /\ shell'.seq \in {shell.seq, s} /\ status' = status
    BY <1>1, <1>2, <2>2, Ranges DEF CurrentInv, Cursors, Passed, ShownAsIs
  <2>3. ASSUME ~HasItem(s), NEW t \in Threads PROVE row[t].at # s
    BY <1>2, <2>3, LastItem
  <2>4. CASE Replay(s) /\ HasItem(s)
    BY <2>1, <2>4 DEF Replay
  <2>5. CASE Replay(s) /\ ~HasItem(s)
    BY <2>2, <2>3, <2>5 DEF Replay
  <2>6. CASE ReplayFails(s)
    BY <2>2, <2>6 DEF ReplayFails
  <2> QED
    BY <2>4, <2>5, <2>6
<1>4. RowsFollowLog' /\ InOrder' /\ Quiet'
  BY <1>1 DEF CurrentInv, RowsFollowLog, InOrder, ItemAt, Quiet
<1>5. Cursors'
  <2>1. \A r \in sub'.page : shell'.seq < r
    BY <1>1, <1>2, <1>3 DEF CurrentInv, Cursors
  <2> QED
    BY <1>1, <1>3, <2>1 DEF CurrentInv, Cursors
<1>6. Marks'
  BY <1>1, <1>3 DEF CurrentInv, Marks, Waiting
<1>7. Coming'
  BY <1>1, <1>2, <1>3 DEF CurrentInv, Coming, OnItsWay
<1>8. Paged'
  <2> SUFFICES ASSUME NEW t \in Threads, row[t].at <= sub.cut, row[t].at > shell'.seq
               PROVE  row[t].at \in sub'.page \cup missed'
    BY <1>1 DEF Paged
  <2>1. row[t].at > shell.seq
    BY <1>2, <1>3
  <2>2. row[t].at \in sub.page \cup missed
    BY <1>1, <2>1 DEF CurrentInv, Paged
  <2>3. row[t].at = s => s \in missed'
    BY <1>2, <1>3
  <2> QED
    BY <1>1, <2>2, <2>3
<1>9. Unbroken'
  <2> SUFFICES ASSUME NEW r \in sub.page, r # s, NEW t \in Threads,
                      shell'.seq < row[t].at, row[t].at < r
               PROVE  \/ row[t].at \in sub'.page \cup missed'
                      \/ row[t].at > sub.cut /\ log[row[t].at].kind = "deleted"
    BY <1>1 DEF Unbroken
  <2>1. row[t].at > shell.seq
    BY <1>2, <1>3
  <2>2. \/ row[t].at \in sub.page \cup missed
        \/ row[t].at > sub.cut /\ log[row[t].at].kind = "deleted"
    BY <1>1, <2>1 DEF CurrentInv, Unbroken
  <2>3. row[t].at = s => s \in missed'
    BY <1>2, <1>3
  <2> QED
    BY <1>1, <2>2, <2>3
<1> QED
  BY <1>0, <1>3, <1>4, <1>5, <1>6, <1>7, <1>8, <1>9 DEF CurrentInv

LEMMA MarkReplayedStaysCurrent ==
  ASSUME CurrentInv, MarkReplayed
  PROVE  CurrentInv'
<1> USE DEF server, stream, client, counts
<1>0. ShellInv'
  BY MarkReplayedKeeps DEF CurrentInv
<1>1. /\ UNCHANGED <<log, row, published, feed, live, shell, step, missed>>
      /\ ~awaiting' /\ status' = "live" /\ sub.page = {} /\ sub.pc = "replaying"
      /\ sub'.pc = "streaming" /\ sub'.cut = sub.cut /\ sub'.page = sub.page
      /\ sub'.attached = sub.attached /\ sub'.after = sub.after
  BY Ranges DEF CurrentInv, MarkReplayed, ReceiveMarker, Replayed, Subs
<1>2. step = "subscribed"
  BY <1>1 DEF CurrentInv, ShellInv, SessionInv, NoSubscription
<1>3. RowsFollowLog' /\ InOrder' /\ Quiet' /\ Cursors' /\ Marks'
  BY <1>1, <1>2 DEF CurrentInv, RowsFollowLog, InOrder, ItemAt, Quiet, Cursors, Marks
<1>4. Passed' /\ Coming' /\ Paged' /\ Unbroken'
  BY <1>1 DEF CurrentInv, Passed, ShownAsIs, Coming, OnItsWay, Paged, Unbroken
<1> QED
  BY <1>0, <1>3, <1>4 DEF CurrentInv

\* The marker at the end of the buffer hides no item.
LEMMA MarkSnapshotStaysCurrent ==
  ASSUME CurrentInv, MarkSnapshot
  PROVE  CurrentInv'
<1> USE DEF server, stream, client, counts
<1>0. ShellInv'
  BY MarkSnapshotKeeps DEF CurrentInv
<1>1. /\ UNCHANGED <<log, row, published, feed, shell, status, awaiting, step, missed>>
      /\ sub.pc = "marking" /\ sub'.pc = "streaming" /\ sub'.cut = sub.cut /\ sub'.page = sub.page
      /\ sub'.attached = sub.attached /\ sub'.after = sub.after
      /\ live' = Append(live, Synchronized) /\ live \in Seq(Items \cup {Synchronized})
  BY Ranges DEF CurrentInv, MarkSnapshot, Subs
<1>2. /\ DOMAIN live \subseteq DOMAIN live'
      /\ \A i \in DOMAIN live : live'[i] = live[i]
      /\ \A i \in DOMAIN live' : i \in DOMAIN live \/ live'[i] = Synchronized
  <2>1. /\ DOMAIN live = 1..Len(live) /\ Len(live) \in Nat
        /\ DOMAIN live' = 1..(Len(live) + 1)
        /\ \A i \in 1..Len(live) : live'[i] = live[i]
        /\ live'[Len(live) + 1] = Synchronized
    BY <1>1, AppendProperties
  <2> QED
    BY <2>1
<1>3. \A i : ItemAt(i)' => ItemAt(i) /\ live'[i] = live[i]
  BY <1>2 DEF ItemAt
<1>4. RowsFollowLog' /\ Quiet' /\ Cursors' /\ Marks'
  <2>1. Quiet'
    BY <1>1, <1>2 DEF CurrentInv, Quiet
  <2> QED
    BY <1>1, <2>1 DEF CurrentInv, RowsFollowLog, Cursors, Marks
<1>5. InOrder'
  <2>1. \A i \in DOMAIN live', j \in DOMAIN live' :
          i < j /\ ItemAt(i)' /\ ItemAt(j)' => live'[i].seq < live'[j].seq
    BY <1>3 DEF CurrentInv, InOrder, ItemAt
  <2>2. \A i \in DOMAIN live', j \in DOMAIN feed : ItemAt(i)' => live'[i].seq < feed[j]
    BY <1>3 DEF CurrentInv, InOrder, ItemAt
  <2>3. \A i \in DOMAIN live' : ItemAt(i)' =>
          /\ live'[i].seq <= published
          /\ live'[i].thread = log[live'[i].seq].thread
          /\ row[live'[i].thread].at = live'[i].seq =>
               Visible(live'[i].row) = Visible(row[live'[i].thread])
    BY <1>3 DEF CurrentInv, InOrder, ItemAt
  <2> QED
    BY <1>1, <2>1, <2>2, <2>3 DEF CurrentInv, InOrder
<1>6. Passed' /\ Paged' /\ Unbroken'
  BY <1>1 DEF CurrentInv, Passed, ShownAsIs, Paged, Unbroken
<1>7. Coming'
  <2>1. \A t \in Threads : OnItsWay(row[t].at) => OnItsWay(row[t].at)'
    BY <1>1, <1>2 DEF OnItsWay
  <2> QED
    BY <1>1, <2>1 DEF CurrentInv, Coming
<1> QED
  BY <1>0, <1>4, <1>5, <1>6, <1>7 DEF CurrentInv

LEMMA SendSnapshotStaysCurrent ==
  ASSUME CurrentInv, SendSnapshot
  PROVE  CurrentInv'
<1> USE DEF server, stream, client, counts
<1>0. ShellInv'
  BY SendSnapshotKeeps DEF CurrentInv
<1>1. /\ UNCHANGED <<log, row, published, feed, live, awaiting, step>>
      /\ sub.pc = "snapshot" /\ sub'.pc = "marking" /\ sub'.cut = Len(log)
      /\ sub'.page = sub.page /\ sub'.attached = sub.attached /\ status' = Waiting /\ shell' = Snapshot
  BY Ranges DEF CurrentInv, SendSnapshot, Subs
<1>2. shell'.seq = Len(log) /\ shell'.rows = row
  BY <1>1 DEF Snapshot
<1>3. Len(log) \in Nat /\ \A t \in Threads : row[t].at \in Nat /\ row[t].at <= Len(log)
  BY Ranges DEF CurrentInv, RowsFollowLog
<1>4. RowsFollowLog' /\ InOrder' /\ Quiet' /\ Cursors' /\ Marks'
  BY <1>1, <1>2, <1>3 DEF CurrentInv, RowsFollowLog, InOrder, ItemAt, Quiet, Cursors, Marks, Waiting
<1>5. Passed' /\ Coming' /\ Paged' /\ Unbroken'
  BY <1>1, <1>2, <1>3 DEF Passed, ShownAsIs, Coming, Paged, Unbroken
<1> QED
  BY <1>0, <1>4, <1>5 DEF CurrentInv

\* The items left are after the one that is taken from the buffer.
LEMMA LiveHead ==
  ASSUME CurrentInv, live # <<>>, live' = Tail(live)
  PROVE  /\ \A i : ItemAt(i)' => ItemAt(i + 1) /\ live'[i] = live[i + 1] /\ i \in Nat
         /\ 1 \in DOMAIN live /\ Head(live) = live[1]
         /\ \A i \in DOMAIN live : i = 1 \/ (i - 1 \in DOMAIN live' /\ live'[i - 1] = live[i])
<1>1. live \in Seq(Items \cup {Synchronized})
  BY Ranges DEF CurrentInv
<1>2. /\ DOMAIN live = 1..Len(live) /\ Len(live) \in Nat /\ Len(live) >= 1
      /\ Head(live) = live[1]
      /\ DOMAIN live' = 1..(Len(live) - 1)
      /\ \A i \in 1..(Len(live) - 1) : live'[i] = live[i + 1]
  BY <1>1, EmptySeq, HeadTailProperties
<1>3. \A i \in DOMAIN live' : i \in Nat /\ i + 1 \in DOMAIN live /\ live'[i] = live[i + 1]
  BY <1>2
<1>4. \A i \in DOMAIN live : i = 1 \/ (i - 1 \in DOMAIN live' /\ live'[i - 1] = live[i])
  BY <1>2
<1> QED
  BY <1>2, <1>3, <1>4 DEF ItemAt

LEMMA DeliverStaysCurrent ==
  ASSUME CurrentInv, Deliver
  PROVE  CurrentInv'
<1> USE DEF server, stream, client, counts
<1> DEFINE item == Head(live)
<1>0. ShellInv'
  BY DeliverKeeps DEF CurrentInv
<1>1. /\ UNCHANGED <<log, row, published, sub, feed, missed>>
      /\ sub.pc = "streaming" /\ live # <<>> /\ live' = Tail(live)
  BY DEF Deliver
<1>2. step' = step /\ step = "subscribed"
  <2>1. step = "subscribed"
    BY <1>1 DEF CurrentInv, ShellInv, SessionInv, NoSubscription
  <2>2. Receive(Head(live)) \/ ReceiveMarker \/ UNCHANGED client
    BY DEF Deliver
  <2> QED
    BY <2>1, <2>2 DEF Receive, ReceiveMarker
<1>3. /\ \A i : ItemAt(i)' => ItemAt(i + 1) /\ live'[i] = live[i + 1] /\ i \in Nat
      /\ 1 \in DOMAIN live /\ item = live[1]
      /\ \A i \in DOMAIN live : i = 1 \/ (i - 1 \in DOMAIN live' /\ live'[i - 1] = live[i])
  BY <1>1, LiveHead
<1> HIDE DEF item
<1>4. /\ Len(log) \in Nat /\ published \in 0..Len(log) /\ shell.seq \in Nat /\ sub.cut \in Nat
      /\ shell.seq <= Len(log) /\ \A t \in Threads : row[t].at \in Nat
  BY Ranges DEF CurrentInv, Cursors
<1>5. item # Synchronized =>
        /\ item \in Items /\ item.seq \in 1..Len(log) /\ item.seq <= published
        /\ item.thread = log[item.seq].thread
        /\ row[item.thread].at = item.seq => Visible(item.row) = Visible(row[item.thread])
        /\ \A i \in DOMAIN live : ItemAt(i) /\ i # 1 => item.seq < live[i].seq
        /\ \A j \in DOMAIN feed : item.seq < feed[j]
  <2> SUFFICES ASSUME item # Synchronized
               PROVE  /\ item \in Items /\ item.seq \in 1..Len(log) /\ item.seq <= published
                      /\ item.thread = log[item.seq].thread
                      /\ row[item.thread].at = item.seq => Visible(item.row) = Visible(row[item.thread])
                      /\ \A i \in DOMAIN live : ItemAt(i) /\ i # 1 => item.seq < live[i].seq
                      /\ \A j \in DOMAIN feed : item.seq < feed[j]
    OBVIOUS
  <2>1. ItemAt(1) /\ item = live[1] /\ 1 \in DOMAIN live
    BY <1>3 DEF ItemAt
  <2>2. item \in Items /\ item.seq \in Nat /\ item.seq >= 1 /\ item.seq <= published
    BY <2>1, Ranges DEF CurrentInv, InOrder
  <2>3. /\ item.thread = log[item.seq].thread
        /\ row[item.thread].at = item.seq => Visible(item.row) = Visible(row[item.thread])
        /\ \A j \in DOMAIN feed : item.seq < feed[j]
    BY <2>1 DEF CurrentInv, InOrder
  <2>4. ASSUME NEW i \in DOMAIN live, ItemAt(i), i # 1
        PROVE  item.seq < live[i].seq
    <3>1. 1 < i
      <4>1. live \in Seq(Items \cup {Synchronized})
        BY Ranges DEF CurrentInv
      <4>2. DOMAIN live = 1..Len(live) /\ Len(live) \in Nat
        BY <4>1
      <4> QED
        BY <2>4, <4>2
    <3> QED
      BY <2>1, <2>4, <3>1 DEF CurrentInv, InOrder
  <2> QED
    BY <1>4, <2>2, <2>3, <2>4
\* An event that is on its way is so still, unless the client has passed it.
<1>6. ASSUME NEW t \in Threads, OnItsWay(row[t].at)
      PROVE  OnItsWay(row[t].at)' \/ (item # Synchronized /\ item.seq = row[t].at)
  <2>1. CASE row[t].at > published \/ row[t].at \in Members(feed)
    BY <1>1, <2>1 DEF OnItsWay
  <2>2. CASE \E i \in DOMAIN live : live[i] # Synchronized /\ live[i].seq = row[t].at
    <3>1. PICK i \in DOMAIN live : live[i] # Synchronized /\ live[i].seq = row[t].at
      BY <2>2
    <3>2. CASE i = 1
      BY <1>3, <3>1, <3>2
    <3>3. CASE i - 1 \in DOMAIN live' /\ live'[i - 1] = live[i]
      <4>1. live'[i - 1] # Synchronized /\ live'[i - 1].seq = row[t].at /\ row' = row
        BY <1>1, <3>1, <3>3
      <4> QED
        BY <3>3, <4>1 DEF OnItsWay
    <3> QED
      BY <1>3, <3>2, <3>3
  <2> QED
    BY <1>6, <2>1, <2>2 DEF OnItsWay
\* What the item passes is missed.
<1>7. ASSUME item # Synchronized, AfterCut(item),
             NEW t \in Threads, shell.seq < row[t].at, row[t].at < item.seq
      PROVE  row[t].at \in missed
  <2>1. CASE row[t].at <= sub.cut
    <3>1. row[t].at \in sub.page \cup missed
      BY <1>1, <1>7, <2>1 DEF CurrentInv, Paged
    <3>2. sub.page = {}
      BY <1>1 DEF CurrentInv, Quiet
    <3> QED
      BY <3>1, <3>2
  <2>2. CASE row[t].at > sub.cut
    <3>1. CASE sub.attached
      <4>1. OnItsWay(row[t].at) \/ row[t].at \in missed
        BY <1>1, <1>7, <2>2, <3>1 DEF CurrentInv, Coming
      <4>2. ~(row[t].at > published)
        BY <1>4, <1>5, <1>7
      <4>3. row[t].at \notin Members(feed)
        <5>1. \A j \in DOMAIN feed : feed[j] \in Nat
          BY Ranges DEF CurrentInv
        <5> QED
          BY <1>4, <1>5, <1>7, <5>1 DEF Members
      <4>4. ~ \E i \in DOMAIN live : live[i] # Synchronized /\ live[i].seq = row[t].at
        <5> SUFFICES ASSUME NEW i \in DOMAIN live, live[i] # Synchronized, live[i].seq = row[t].at
                     PROVE  FALSE
          OBVIOUS
        <5>1. ItemAt(i) /\ (i # 1 => item.seq < live[i].seq)
          BY <1>5, <1>7 DEF ItemAt
        <5> QED
          BY <1>3, <1>4, <1>5, <1>7, <5>1
      <4> QED
        BY <4>1, <4>2, <4>3, <4>4 DEF OnItsWay
    <3>2. CASE ~sub.attached
      BY <1>1, <1>3, <1>7, <3>2 DEF CurrentInv, Quiet, ItemAt
    <3> QED
      BY <3>1, <3>2
  <2> QED
    BY <1>4, <2>1, <2>2
<1>8. /\ Passed' /\ shell'.seq \in Nat /\ shell'.seq <= Len(log) /\ shell'.seq >= shell.seq
      /\ item # Synchronized /\ item.seq > sub.cut => shell'.seq >= item.seq
      /\ status' = "live" => status = "live" \/ ~awaiting'
      /\ awaiting' => awaiting
  <2>1. CASE item # Synchronized /\ AfterCut(item)
    <3>1. Receive(item) /\ shell' = Taken(item)
      BY <2>1 DEF Deliver, Receive, item
    <3>2. /\ Passed' /\ shell'.seq \in Nat /\ shell'.seq <= Len(log) /\ shell'.seq >= shell.seq
          /\ shell'.seq >= item.seq
      BY <1>1, <1>5, <1>7, <2>1, <3>1, TakenPasses
    <3> QED
      BY <3>1, <3>2 DEF Receive, Waiting
  <2>2. CASE ~(item # Synchronized /\ AfterCut(item))
    <3>1. shell' = shell /\ (UNCHANGED client \/ ReceiveMarker)
      BY <2>2 DEF Deliver, ReceiveMarker, item
    <3>2. Passed'
      BY <1>1, <3>1 DEF CurrentInv, Passed, ShownAsIs
    <3> QED
      BY <1>4, <2>2, <3>1, <3>2 DEF ReceiveMarker, AfterCut
  <2> QED
    BY <2>1, <2>2
<1>9. RowsFollowLog' /\ Cursors' /\ Marks'
  BY <1>1, <1>2, <1>8 DEF CurrentInv, RowsFollowLog, Cursors, Marks
<1>10. InOrder' /\ Quiet'
  <2>1. \A i, j \in DOMAIN live' : i < j /\ ItemAt(i)' /\ ItemAt(j)' => live'[i].seq < live'[j].seq
    <3> SUFFICES ASSUME NEW i \in DOMAIN live', NEW j \in DOMAIN live', i < j, ItemAt(i)', ItemAt(j)'
                 PROVE  live'[i].seq < live'[j].seq
      OBVIOUS
    <3>1. /\ ItemAt(i + 1) /\ ItemAt(j + 1) /\ i + 1 < j + 1
          /\ live'[i] = live[i + 1] /\ live'[j] = live[j + 1]
      BY <1>3
    <3> QED
      BY <3>1 DEF CurrentInv, InOrder, ItemAt
  <2>2. \A i \in DOMAIN live', j \in DOMAIN feed : ItemAt(i)' => live'[i].seq < feed[j]
    BY <1>3 DEF CurrentInv, InOrder, ItemAt
  <2>3. \A i \in DOMAIN live' : ItemAt(i)' =>
          /\ live'[i].seq <= published
          /\ live'[i].thread = log[live'[i].seq].thread
          /\ row[live'[i].thread].at = live'[i].seq =>
               Visible(live'[i].row) = Visible(row[live'[i].thread])
    BY <1>3 DEF CurrentInv, InOrder, ItemAt
  <2>4. Quiet'
    <3>1. ~sub.attached => \A i \in DOMAIN live' : live'[i] = Synchronized
      BY <1>3 DEF CurrentInv, Quiet, ItemAt
    <3> QED
      BY <1>1, <3>1 DEF CurrentInv, Quiet
  <2> QED
    BY <1>1, <2>1, <2>2, <2>3, <2>4 DEF CurrentInv, InOrder
<1>11. Coming'
  <2> SUFFICES ASSUME sub.attached, NEW t \in Threads, row[t].at > sub.cut, row[t].at > shell'.seq
               PROVE  OnItsWay(row[t].at)' \/ row[t].at \in missed
    BY <1>1 DEF Coming, OnItsWay
  <2>1. row[t].at > shell.seq
    BY <1>4, <1>8
  <2>2. OnItsWay(row[t].at) \/ row[t].at \in missed
    BY <1>1, <2>1 DEF CurrentInv, Coming
  <2>3. ~(item # Synchronized /\ item.seq = row[t].at)
    BY <1>4, <1>8
  <2> QED
    BY <1>6, <2>2, <2>3
<1>12. Paged' /\ Unbroken'
  <2> SUFFICES ASSUME NEW t \in Threads, row[t].at <= sub.cut, row[t].at > shell'.seq
               PROVE  row[t].at \in sub.page \cup missed
    BY <1>1 DEF Paged, Unbroken
  <2>1. row[t].at > shell.seq
    BY <1>4, <1>8
  <2> QED
    BY <1>1, <2>1 DEF CurrentInv, Paged
<1> QED
  BY <1>0, <1>8, <1>9, <1>10, <1>11, <1>12 DEF CurrentInv

-----------------------------------------------------------------------------
(* The client's steps.                                                      *)

LEMMA ConnectStaysCurrent ==
  ASSUME CurrentInv, Connect \/ Retry \/ UNCHANGED vars
  PROVE  CurrentInv'
<1> USE DEF server, stream, client, counts
<1>0. ShellInv'
  BY ConnectKeeps, RetryKeeps DEF CurrentInv
<1>1. /\ UNCHANGED <<log, row, published, sub, feed, live, shell, missed>>
      /\ \/ UNCHANGED <<status, awaiting, step>>
         \/ status' = "synchronizing" /\ awaiting'
  BY DEF Connect, Retry, Begin, vars
<1>2. RowsFollowLog' /\ InOrder' /\ Quiet' /\ Cursors'
  BY <1>1 DEF CurrentInv, RowsFollowLog, InOrder, ItemAt, Quiet, Cursors
<1>3. Marks'
  BY <1>1 DEF CurrentInv, Marks
<1>4. Passed' /\ Coming' /\ Paged' /\ Unbroken'
  BY <1>1 DEF CurrentInv, Passed, ShownAsIs, Coming, OnItsWay, Members, Paged, Unbroken
<1> QED
  BY <1>0, <1>2, <1>3, <1>4 DEF CurrentInv

LEMMA SubscribeStaysCurrent ==
  ASSUME CurrentInv, SubscribeAgain \/ LoadSnapshot \/ LoadFails
  PROVE  CurrentInv'
<1> USE DEF server, stream, client, counts
<1>0. ShellInv'
  BY SubscribeKeeps DEF CurrentInv
<1>1. /\ UNCHANGED <<log, row, published, feed, live, status, awaiting>>
      /\ step = "input" /\ step' = "subscribed"
      /\ \/ shell' = Snapshot
         \/ UNCHANGED <<shell, missed>>
  BY DEF SubscribeAgain, LoadSnapshot, LoadFails, Subscribe
<1>2. PICK cursor : /\ sub' = [NoSubscription EXCEPT !.pc = "started", !.after = cursor]
                    /\ cursor # NoCursor => cursor = shell'.seq
  <2>1. CASE SubscribeAgain
    BY <2>1 DEF SubscribeAgain, Subscribe
  <2>2. CASE LoadSnapshot
    <3>1. Subscribe(Len(log)) /\ shell'.seq = Len(log)
      BY <2>2 DEF LoadSnapshot, Snapshot
    <3> QED
      BY <3>1 DEF Subscribe
  <2>3. CASE LoadFails
    BY <2>3 DEF LoadFails, Subscribe
  <2> QED
    BY <2>1, <2>2, <2>3
<1>3. /\ sub'.pc = "started" /\ sub'.after = cursor /\ sub'.cut = 0 /\ sub'.page = {}
      /\ ~sub'.attached
  <2>1. sub' = [pc |-> "started", attached |-> FALSE, after |-> cursor, cut |-> 0, page |-> {}]
    BY <1>2 DEF NoSubscription
  <2> QED
    BY <2>1
<1>4. awaiting /\ sub.pc = "none" /\ feed = <<>> /\ live = <<>> /\ status # "live"
  BY <1>1 DEF CurrentInv, Marks, ShellInv, SessionInv, InOrder, NoSubscription
<1>5. shell'.seq \in Nat /\ shell'.seq <= Len(log) /\ Len(log) \in Nat
  <2>1. CASE shell' = Snapshot
    BY <2>1, Ranges DEF CurrentInv, Snapshot
  <2>2. CASE shell' = shell
    BY <2>2, Ranges DEF CurrentInv, Cursors
  <2> QED
    BY <1>1, <2>1, <2>2
<1>6. RowsFollowLog' /\ Marks'
  BY <1>1, <1>3, <1>4 DEF CurrentInv, RowsFollowLog, Marks
<1>7. InOrder' /\ Quiet'
  BY <1>1, <1>3, <1>4 DEF CurrentInv, InOrder, Quiet, ItemAt
<1>8. Cursors'
  BY <1>1, <1>2, <1>3, <1>5 DEF Cursors
<1>9. Passed'
  <2>1. CASE shell' = Snapshot
    BY <1>1, <2>1 DEF Snapshot, Passed, ShownAsIs
  <2>2. CASE UNCHANGED <<shell, missed>>
    BY <1>1, <2>2 DEF CurrentInv, Passed, ShownAsIs
  <2> QED
    BY <1>1, <2>1, <2>2
<1>10. Coming' /\ Paged' /\ Unbroken'
  BY <1>3 DEF Coming, Paged, Unbroken
<1> QED
  BY <1>0, <1>6, <1>7, <1>8, <1>9, <1>10 DEF CurrentInv

LEMMA EndStaysCurrent ==
  ASSUME CurrentInv, Wake \/ ReadFails \/ Disconnect \/ Restart
  PROVE  CurrentInv'
<1> USE DEF server, stream, client, counts
<1>0. ShellInv'
  BY EndKeeps DEF CurrentInv
<1>1. /\ UNCHANGED <<log, row, shell, missed>>
      /\ sub' = NoSubscription /\ feed' = <<>> /\ live' = <<>>
      /\ status' # "live" /\ (step' = "input" => awaiting')
      /\ published' = published \/ published' = Len(log)
  BY DEF Wake, ReadFails, Disconnect, Restart, GoesOffline, NothingStreams, Begin, ShownOffline
<1>2. sub'.pc = "none" /\ sub'.cut = 0 /\ sub'.page = {} /\ ~sub'.attached
  BY <1>1 DEF NoSubscription
<1>3. Len(log) \in Nat
  BY Ranges DEF CurrentInv
<1>4. RowsFollowLog'
  BY <1>1, <1>3 DEF CurrentInv, RowsFollowLog
<1>5. InOrder' /\ Quiet'
  BY <1>1, <1>2 DEF InOrder, Quiet, ItemAt
<1>6. Cursors' /\ Marks'
  BY <1>1, <1>2, <1>3 DEF CurrentInv, Cursors, Marks
<1>7. Passed' /\ Coming' /\ Paged' /\ Unbroken'
  BY <1>1, <1>2 DEF CurrentInv, Passed, ShownAsIs, Coming, Paged, Unbroken
<1> QED
  BY <1>0, <1>4, <1>5, <1>6, <1>7 DEF CurrentInv

LEMMA InitIsCurrent == Init => CurrentInv
<1> SUFFICES ASSUME Init PROVE CurrentInv
  OBVIOUS
<1>1. log = <<>> /\ Len(log) = 0 /\ published = 0 /\ shell.seq = 0 /\ sub = NoSubscription
  BY EmptySeq DEF Init
<1>2. sub.pc = "none" /\ sub.cut = 0 /\ sub.page = {} /\ ~sub.attached
  BY <1>1 DEF NoSubscription
<1>3. \A t \in Threads : row[t] = NoRow /\ shell.rows[t] = NoRow
  BY DEF Init
<1>4. NoRow.at = 0 /\ NoRow.state = "absent"
  BY DEF NoRow
<1>5. RowsFollowLog /\ Passed
  BY <1>1, <1>3, <1>4 DEF RowsFollowLog, Passed, ShownAsIs
<1>6. InOrder /\ Quiet
  BY <1>1, <1>2 DEF Init, InOrder, Quiet, ItemAt
<1>7. Cursors /\ Marks /\ Coming /\ Paged /\ Unbroken
  BY <1>1, <1>2 DEF Init, Cursors, Marks, Coming, Paged, Unbroken
<1> QED
  BY <1>5, <1>6, <1>7, InitHolds DEF CurrentInv

LEMMA StepStaysCurrent == CurrentInv /\ [Next]_vars => CurrentInv'
<1> SUFFICES ASSUME CurrentInv, [Next]_vars PROVE CurrentInv'
  OBVIOUS
<1>1. CASE Commits \/ Advance \/ Publish
  BY <1>1, CommitStaysCurrent, AdvanceStaysCurrent, PublishStaysCurrent DEF Commits
<1>2. CASE Serve
  BY <1>2, AttachStaysCurrent, MapStaysCurrent, ChooseStaysCurrent, ReadPageStaysCurrent,
     ReplayStaysCurrent, MarkReplayedStaysCurrent, SendSnapshotStaysCurrent,
     MarkSnapshotStaysCurrent, DeliverStaysCurrent DEF Serve
<1>3. CASE Follow \/ UNCHANGED vars
  BY <1>3, ConnectStaysCurrent, SubscribeStaysCurrent DEF Follow
<1>4. CASE Fail
  BY <1>4, MapStaysCurrent, ReplayStaysCurrent, SubscribeStaysCurrent, EndStaysCurrent DEF Fail
<1>5. CASE Interrupt
  BY <1>5, EndStaysCurrent DEF Interrupt
<1> QED
  BY <1>1, <1>2, <1>3, <1>4, <1>5 DEF Next

\* A client that says it is live shows every thread as its last event left it,
\* unless this event is on its way, or no item came for it, or one too late
\* (state/shell.ts applyItem, ws.ts subscribeShell), for any threads and bounds.
THEOREM LiveIsCurrent == Spec => []LiveShellIsCurrent
<1>1. CurrentInv => LiveShellIsCurrent
  <2> SUFFICES ASSUME CurrentInv, status = "live", NEW t \in Threads
               PROVE  ShownAsIs(t) \/ OnItsWay(row[t].at) \/ row[t].at \in Lost
    BY DEF LiveShellIsCurrent
  <2>1. sub.pc = "streaming" /\ sub.page = {}
    BY DEF CurrentInv, Marks, Quiet
  <2>2. row[t].at \in Nat /\ shell.seq \in Nat /\ sub.cut \in Nat /\ published \in Nat
    BY Ranges DEF CurrentInv
  <2>3. CASE row[t].at <= shell.seq
    BY <2>3 DEF CurrentInv, Passed, Lost
  <2>4. CASE row[t].at > shell.seq /\ row[t].at <= sub.cut
    BY <2>1, <2>4 DEF CurrentInv, Paged, Lost
  <2>5. CASE row[t].at > shell.seq /\ row[t].at > sub.cut /\ sub.attached
    BY <2>1, <2>5 DEF CurrentInv, Coming, Lost
  <2>6. CASE row[t].at > sub.cut /\ ~sub.attached
    <3>1. row[t].at > published \/ row[t].at \in AttachMisses
      <4>1. row[t].at > published \/ row[t].at \in 1..published
        BY <2>2, <2>6
      <4> QED
        BY <2>1, <2>6, <4>1 DEF AttachMisses
    <3> QED
      BY <2>1, <2>6, <3>1 DEF OnItsWay, Lost
  <2> QED
    BY <2>2, <2>3, <2>4, <2>5, <2>6
<1> QED
  BY <1>1, InitIsCurrent, StepStaysCurrent, PTL DEF Spec
================================================================================
