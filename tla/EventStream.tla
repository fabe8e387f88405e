------------------------------ MODULE EventStream -----------------------------
(* The events of ONE connection on their way to its clients: emit_with_state   *)
(* (web/event_bridge.rs), the replay ring and the broadcast channel            *)
(* (acp/event_stream.rs), the WebSocket task with its attach protocol          *)
(* (web/ws.rs, web/ws_attach.rs), and the client's cursors                      *)
(* (lib/transport/web-event-stream.ts, contexts/acp-connections-context.tsx).  *)
(*                                                                            *)
(* An event is its sequence number.  A snapshot of the state after n events is *)
(* the sequence <<1, ..., n>>, so what a client shows is a sequence of events.  *)
EXTENDS Integers, Sequences

CONSTANTS
  Emitters,  \* tasks that emit events of the connection
  Clients,   \* browser windows, each with one WebSocket
  SubIds,    \* subscription ids (positive numbers)
  MaxSeq,    \* bound on the events emitted
  MaxRing,   \* RECENT_BUFFER_MAX_COUNT
  MaxReplay, \* REPLAY_BATCH_THRESHOLD
  BusCap,    \* BROADCAST_CAPACITY
  OutCap,    \* OUTBOUND_CAPACITY
  MaxMoves   \* bound on lost sockets, closed and migrated views

SubIdsAssumption == SubIds \subseteq Nat \ {0}
CapsAssumption ==
  /\ MaxSeq \in Nat /\ MaxRing \in Nat \ {0} /\ MaxReplay \in Nat
  /\ BusCap \in Nat \ {0} /\ OutCap \in Nat \ {0} /\ MaxMoves \in Nat

VARIABLES
  seq,      \* SessionState.event_seq
  ring,     \* SessionState.recent_events
  pending,  \* pending[e]: event numbered by task e and not yet broadcast, or 0
  bus,      \* everything ever sent on the broadcast channel
  alive,    \* the connection is registered with the manager
  socket,   \* socket[c]: the WebSocket of client c is open
  loop,     \* loop[c]: the WebSocket task is in select!, or awaits a send
  fwd,      \* fwd[c]: the forwarder task
  out,      \* out[c]: the outbound channel of the WebSocket
  req,      \* req[c]: client messages on their way
  sub,      \* sub[c]: the subscription the client knows, 0 when it has no view
  subCur,   \* subCur[c]: WebEventStream's cursor of that subscription
  cur,      \* cur[c]: lastAppliedSeq in the store
  log,      \* log[c]: what the client shows
  moves     \* disturbances so far

sourceVars == <<seq, ring, pending, bus, alive>>
serverVars == <<loop, fwd, out>>
clientVars == <<sub, subCur, cur, log>>
vars == <<sourceVars, serverVars, socket, req, clientVars, moves>>

Cold == -1   \* since_seq: None
Seqs == 0..MaxSeq
Frame(type, s, events, high) ==
  [type |-> type, sub |-> s, events |-> events, high |-> high]
NoFrame   == Frame("none", 0, <<>>, 0)
Select    == [frame |-> NoFrame, pos |-> 0]
NoForwarder == [sub |-> 0, pos |-> 0]
Prefix(n) == [i \in 1..n |-> i]

FrameTypes == {"none", "snapshot", "replay", "event", "lagged", "gone"}
Frames == [type: FrameTypes, sub: SubIds \cup {0}, events: Seq(1..MaxSeq), high: Seqs]
Requests == [action: {"attach", "detach"}, sub: SubIds, since: Seqs \cup {Cold}]

TypeOK ==
  /\ seq \in Seqs /\ moves \in 0..MaxMoves /\ alive \in BOOLEAN
  /\ ring \in Seq(1..MaxSeq) /\ Len(ring) <= MaxRing
  /\ bus \in Seq(1..MaxSeq) /\ Len(bus) <= MaxSeq
  /\ pending \in [Emitters -> Seqs]
  /\ socket \in [Clients -> BOOLEAN]
  /\ loop \in [Clients -> [frame: Frames, pos: Seqs]]
  /\ fwd \in [Clients -> [sub: SubIds \cup {0}, pos: Seqs]]
  /\ out \in [Clients -> Seq(Frames)]
  /\ \A c \in Clients : Len(out[c]) <= OutCap
  /\ req \in [Clients -> Seq(Requests)]
  /\ sub \in [Clients -> SubIds \cup {0}]
  /\ subCur \in [Clients -> Seqs \cup {Cold}]
  /\ cur \in [Clients -> Seqs]
  /\ log \in [Clients -> Seq(1..MaxSeq)]

Init ==
  /\ seq = 0 /\ ring = <<>> /\ bus = <<>> /\ alive = TRUE
  /\ pending = [e \in Emitters |-> 0]
  /\ socket = [c \in Clients |-> FALSE]
  /\ loop = [c \in Clients |-> Select]
  /\ fwd = [c \in Clients |-> NoForwarder]
  /\ out = [c \in Clients |-> <<>>]
  /\ req = [c \in Clients |-> <<>>]
  /\ sub = [c \in Clients |-> 0]
  /\ subCur = [c \in Clients |-> Cold]
  /\ cur = [c \in Clients |-> 0]
  /\ log = [c \in Clients |-> <<>>]
  /\ moves = 0

-------------------------------------------------------------------------------
(* Emitting.                                                                   *)

\* Faulty variants: an oversized event is skipped, and what is before it stays;
\* nothing is evicted.
PushSkips(n, oversized) ==
  IF oversized THEN ring' = ring
  ELSE \E k \in 1..(Len(ring) + 1) :
         /\ Len(ring) + 2 - k <= MaxRing
         /\ ring' = SubSeq(Append(ring, n), k, Len(ring) + 1)

PushKeeps(n, oversized) == ring' = IF oversized THEN <<>> ELSE Append(ring, n)

\* RecentEventsBuffer::push.  An event too large to keep empties the ring; any
\* other is appended, and the oldest go until count and bytes are within bounds
\* (how many the bytes take is left open, but the new event always fits).
Push(n, oversized) ==
  IF oversized THEN ring' = <<>>
  ELSE \E k \in 1..(Len(ring) + 1) :
         /\ Len(ring) + 2 - k <= MaxRing
         /\ ring' = SubSeq(Append(ring, n), k, Len(ring) + 1)

\* emit_with_state_gated up to the release of the write lock.
Emit(e) ==
  /\ alive /\ pending[e] = 0 /\ seq < MaxSeq
  /\ seq' = seq + 1
  /\ \E oversized \in BOOLEAN : Push(seq + 1, oversized)
  /\ pending' = [pending EXCEPT ![e] = seq + 1]
  /\ UNCHANGED <<bus, alive, serverVars, socket, req, clientVars, moves>>

\* The broadcast that follows, with no lock held.
Broadcast(e) ==
  /\ pending[e] # 0
  /\ bus' = Append(bus, pending[e])
  /\ pending' = [pending EXCEPT ![e] = 0]
  /\ UNCHANGED <<seq, ring, alive, serverVars, socket, req, clientVars, moves>>

\* The connection is removed; its channel closes with the last task that holds it.
EndConnection ==
  /\ alive /\ alive' = FALSE
  /\ UNCHANGED <<seq, ring, pending, bus, serverVars, socket, req, clientVars, moves>>

-------------------------------------------------------------------------------
(* The client.                                                                 *)

\* randomUUID: an id that occurs nowhere.
InUse(c) ==
  {sub[c], fwd[c].sub, loop[c].frame.sub}
    \cup {out[c][i].sub : i \in DOMAIN out[c]}
    \cup {req[c][i].sub : i \in DOMAIN req[c]}
NewSub(c) == IF SubIds \subseteq InUse(c) THEN 0
             ELSE CHOOSE s \in SubIds \ InUse(c) : \A t \in SubIds \ InUse(c) : s <= t

Request(action, s, since) == [action |-> action, sub |-> s, since |-> since]
Sent(c, messages) == IF socket[c] THEN req[c] \o messages ELSE req[c]

\* WebEventStream.attach: sent now, or by the next onWsReady.
Attach(c, since, before) ==
  /\ NewSub(c) # 0
  /\ sub' = [sub EXCEPT ![c] = NewSub(c)]
  /\ subCur' = [subCur EXCEPT ![c] = since]
  /\ req' = [req EXCEPT ![c] = Sent(c, before \o <<Request("attach", NewSub(c), since)>>)]

Disturb == moves < MaxMoves /\ moves' = moves + 1

\* connectAsViewer: a new store entry and a cold attach.
OpenView(c) ==
  /\ alive /\ sub[c] = 0
  /\ Attach(c, Cold, <<>>)
  /\ UNCHANGED <<sourceVars, serverVars, socket, cur, log, moves>>

\* disconnect of a viewer: detach and forget.
CloseView(c) ==
  /\ sub[c] # 0 /\ Disturb
  /\ req' = [req EXCEPT ![c] = Sent(c, <<Request("detach", sub[c], Cold)>>)]
  /\ sub' = [sub EXCEPT ![c] = 0]
  /\ subCur' = [subCur EXCEPT ![c] = Cold]
  /\ cur' = [cur EXCEPT ![c] = 0]
  /\ log' = [log EXCEPT ![c] = <<>>]
  /\ UNCHANGED <<sourceVars, serverVars, socket>>

\* connect, orphan rescue: the entry moves to another key; its subscription is
\* detached and a new one attached at the entry's cursor.
MoveView(c) ==
  /\ sub[c] # 0 /\ Disturb
  /\ Attach(c, cur[c], <<Request("detach", sub[c], Cold)>>)
  /\ UNCHANGED <<sourceVars, serverVars, socket, cur, log>>

\* onopen of a new socket: reattachAll with each subscription's cursor.
OpenSocket(c) ==
  /\ ~socket[c]
  /\ socket' = [socket EXCEPT ![c] = TRUE]
  /\ req' = [req EXCEPT ![c] = IF sub[c] = 0 THEN <<>>
                               ELSE <<Request("attach", sub[c], subCur[c])>>]
  /\ UNCHANGED <<sourceVars, serverVars, clientVars, moves>>

\* The socket is lost: the WebSocket task aborts its forwarders and ends, and
\* what was on its way is gone.
LoseSocket(c) ==
  /\ socket[c] /\ Disturb
  /\ socket' = [socket EXCEPT ![c] = FALSE]
  /\ loop' = [loop EXCEPT ![c] = Select]
  /\ fwd' = [fwd EXCEPT ![c] = NoForwarder]
  /\ out' = [out EXCEPT ![c] = <<>>]
  /\ req' = [req EXCEPT ![c] = <<>>]
  /\ UNCHANGED <<sourceVars, clientVars>>

-------------------------------------------------------------------------------
(* The WebSocket task.                                                         *)

Selecting(c) == socket[c] /\ loop[c] = Select
NextRequest(c, action) ==
  /\ Selecting(c) /\ req[c] # <<>> /\ Head(req[c]).action = action
  /\ req' = [req EXCEPT ![c] = Tail(@)]

\* recent_events_after, for a ring that covers the cursor.
Newer(since) == SelectSeq(ring, LAMBDA n : n > since)

Covers(since) ==
  /\ ring # <<>> /\ ring[1] <= since + 1
  /\ Newer(since) # <<>> /\ Len(Newer(since)) <= MaxReplay

\* The answer handle_attach decides on under the read lock.
AttachAnswer(s, since) ==
  IF since # Cold /\ since < seq /\ Covers(since)
  THEN Frame("replay", s, Newer(since), Newer(since)[Len(Newer(since))])
  ELSE Frame("snapshot", s, <<>>, seq)

\* handle_client_msg, Attach: the old forwarder of the id is aborted, the answer
\* decided and the receiver registered; then the task waits to send the answer.
ServeAttach(c) ==
  /\ NextRequest(c, "attach")
  /\ LET r == Head(req[c]) IN
       /\ fwd' = IF fwd[c].sub = r.sub THEN [fwd EXCEPT ![c] = NoForwarder] ELSE fwd
       /\ loop' = [loop EXCEPT ![c] =
            [frame |-> IF alive THEN AttachAnswer(r.sub, r.since)
                                ELSE Frame("gone", r.sub, <<>>, 0),
             pos |-> Len(bus)]]
  /\ UNCHANGED <<sourceVars, out, socket, clientVars, moves>>

\* handle_client_msg, Detach.
ServeDetach(c) ==
  /\ NextRequest(c, "detach")
  /\ fwd' = IF fwd[c].sub = Head(req[c]).sub THEN [fwd EXCEPT ![c] = NoForwarder] ELSE fwd
  /\ UNCHANGED <<sourceVars, loop, out, socket, clientVars, moves>>

Room(c)       == Len(out[c]) < OutCap
Enqueue(c, f) == Room(c) /\ out' = [out EXCEPT ![c] = Append(@, f)]

\* The answer is sent, then the forwarder spawned.
SendAnswer(c) ==
  /\ loop[c] # Select
  /\ Enqueue(c, loop[c].frame)
  /\ fwd' = IF loop[c].frame.type = "gone" THEN fwd
            ELSE [fwd EXCEPT ![c] = [sub |-> loop[c].frame.sub, pos |-> loop[c].pos]]
  /\ loop' = [loop EXCEPT ![c] = Select]
  /\ UNCHANGED <<sourceVars, socket, req, clientVars, moves>>

-------------------------------------------------------------------------------
(* The forwarder.                                                              *)

Behind(c) == Len(bus) - fwd[c].pos
Lagged(c) == Behind(c) > BusCap

Forward(c) ==
  /\ fwd[c].sub # 0 /\ Behind(c) > 0 /\ ~Lagged(c)
  /\ LET n == bus[fwd[c].pos + 1] IN Enqueue(c, Frame("event", fwd[c].sub, <<n>>, n))
  /\ fwd' = [fwd EXCEPT ![c].pos = @ + 1]
  /\ UNCHANGED <<sourceVars, loop, socket, req, clientVars, moves>>

\* Faulty variant: the forwarder exits without a word.
ExitSilently(c, type) ==
  /\ fwd' = [fwd EXCEPT ![c] = NoForwarder]
  /\ UNCHANGED <<sourceVars, out, loop, socket, req, clientVars, moves>>

\* RecvError::Lagged and RecvError::Closed: say so and exit.
Exit(c, type) ==
  /\ Enqueue(c, Frame(type, fwd[c].sub, <<>>, 0))
  /\ fwd' = [fwd EXCEPT ![c] = NoForwarder]
  /\ UNCHANGED <<sourceVars, loop, socket, req, clientVars, moves>>
LagOut(c) == fwd[c].sub # 0 /\ Lagged(c) /\ Exit(c, "lagged")
Closed(c) ==
  /\ fwd[c].sub # 0 /\ Behind(c) = 0
  /\ ~alive /\ \A e \in Emitters : pending[e] = 0
  /\ Exit(c, "gone")

-------------------------------------------------------------------------------
(* Frames reach the client.                                                    *)

\* Faulty variant: only what was just applied is dropped.
ApplyNotLast(c, events) == log[c] \o SelectSeq(events, LAMBDA n : n # cur[c])

\* applyMappedEnvelope, for each event.
Applied(c, events) == log[c] \o SelectSeq(events, LAMBDA n : n > cur[c])

\* Faulty variant: the cursor follows the last event, whatever its number.
Latest(a, b) == b

\* EVENT_APPLIED: the cursor only advances.
Advanced(a, b) == IF a > b THEN a ELSE b

\* HYDRATE_FROM_SNAPSHOT: a snapshot older than the store changes no event state.
Hydrate(c, high) ==
  IF high <= cur[c] THEN UNCHANGED <<log, cur>>
  ELSE /\ log' = [log EXCEPT ![c] = Prefix(high)]
       /\ cur' = [cur EXCEPT ![c] = high]

\* One frame for the subscription the client knows; any other is a stray.
OnFrame(c, f) ==
  CASE f.type = "snapshot" ->
         /\ subCur' = [subCur EXCEPT ![c] = f.high]
         /\ Hydrate(c, f.high)
         /\ UNCHANGED <<sub, req>>
    [] f.type \in {"replay", "event"} ->
         /\ subCur' = [subCur EXCEPT ![c] = f.high]
         /\ log' = [log EXCEPT ![c] = Applied(c, f.events)]
         /\ cur' = [cur EXCEPT ![c] = Advanced(@, f.high)]
         /\ UNCHANGED <<sub, req>>
    [] f.type = "lagged" ->
         /\ Attach(c, cur[c], <<>>)
         /\ UNCHANGED <<cur, log>>
    [] f.type = "gone" ->
         /\ sub' = [sub EXCEPT ![c] = 0]
         /\ subCur' = [subCur EXCEPT ![c] = Cold]
         /\ cur' = [cur EXCEPT ![c] = 0]
         /\ log' = [log EXCEPT ![c] = <<>>]
         /\ UNCHANGED req

\* The task writes a frame to the socket and the client handles it.
Write(c) ==
  /\ Selecting(c) /\ out[c] # <<>>
  /\ out' = [out EXCEPT ![c] = Tail(@)]
  /\ IF Head(out[c]).sub = sub[c] THEN OnFrame(c, Head(out[c]))
                                  ELSE UNCHANGED <<clientVars, req>>
  /\ UNCHANGED <<sourceVars, loop, fwd, socket, moves>>

-------------------------------------------------------------------------------
ServerStep(c) ==
  \/ ServeAttach(c) \/ ServeDetach(c) \/ SendAnswer(c) \/ Write(c)
ForwarderStep(c) == Forward(c) \/ LagOut(c) \/ Closed(c)
ClientStep(c) ==
  OpenView(c) \/ CloseView(c) \/ MoveView(c) \/ OpenSocket(c) \/ LoseSocket(c)

Next ==
  \/ \E e \in Emitters : Emit(e) \/ Broadcast(e)
  \/ EndConnection
  \/ \E c \in Clients : ClientStep(c) \/ ServerStep(c) \/ ForwarderStep(c)

Spec == Init /\ [][Next]_vars

\* Tasks run: a broadcast follows its emission, the WebSocket task and the
\* forwarders are polled, and a client reconnects after a backoff.
Fairness ==
  /\ \A e \in Emitters : WF_vars(Broadcast(e))
  /\ \A c \in Clients :
       WF_vars(ServerStep(c)) /\ WF_vars(ForwarderStep(c)) /\ WF_vars(OpenSocket(c))
FairSpec == Spec /\ Fairness

-------------------------------------------------------------------------------
(* What a client sees.                                                         *)

\* No event is shown twice and none after a later one: broadcasts that race an
\* attach, replays that overlap a snapshot, reconnections and tasks that emit at
\* once do not make a client apply an event over a state that holds it.
NeverTwice ==
  \A c \in Clients : \A i, j \in DOMAIN log[c] : i < j => log[c][i] < log[c][j]

\* The cursor a client resumes from is not ahead of what it shows, nor behind.
CursorHonest ==
  \A c \in Clients : cur[c] = IF log[c] = <<>> THEN 0 ELSE log[c][Len(log[c])]

\* With one emitting task a client always shows a prefix of the events, which
\* only grows: snapshots, replays from a ring that evicts and is emptied, lag,
\* lost sockets and moved views leave no gap.
ShownOf(c) == IF sub[c] = 0 THEN -1
              ELSE IF log[c] = Prefix(cur[c]) THEN cur[c] ELSE seq + 1
View == INSTANCE StreamView WITH shown <- [c \in Clients |-> ShownOf(c)]
ShowsPrefix == View!ViewNext \/ UNCHANGED View!viewVars

\* Two tasks number their events in one order and broadcast them in another.
Overtaken(n) == \E i, j \in DOMAIN bus : i < j /\ bus[j] = n /\ bus[i] > n

\* A client with a view shows every event that the connection has emitted, but for those
\* that the broadcast of a later one overtook: all of them when one task emits.
Shows(c, n) == \E i \in DOMAIN log[c] : log[c][i] = n
CaughtUp ==
  \A c \in Clients : sub[c] # 0 =>
    cur[c] = seq /\ \A n \in 1..seq : Shows(c, n) \/ Overtaken(n)

\* The client takes an event frame of its subscription from the socket.
TakesEvent(c) ==
  /\ out[c] # <<>> /\ out'[c] = Tail(out[c]) /\ socket'[c]
  /\ Head(out[c]).type = "event" /\ Head(out[c]).sub = sub[c]

\* web/ws_attach.rs, ServerMsg::Snapshot: after a snapshot, event frames carry
\* larger sequence numbers.
FollowsSnapshot ==
  \A c \in Clients : TakesEvent(c) => Head(out[c]).high > subCur[c]

\* acp-connections-context.tsx: an event rejected by the cursor is a duplicate,
\* that is, the client shows it already.
RejectsDuplicatesOnly ==
  \A c \in Clients :
    TakesEvent(c) /\ log'[c] = log[c]
      => \E i \in DOMAIN log[c] : log[c][i] = Head(out[c]).high
===============================================================================
