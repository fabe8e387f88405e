-------------------------- MODULE SessionIdentity ---------------------------
(* Which native session a conversation row names, and which connections run   *)
(* it: connects that reuse or start a connection, the handshake that resumes  *)
(* the session or falls back to a new one, prompts that link the row, forks   *)
(* that move a connection to a new row, and the lifecycle worker that         *)
(* persists session ids (acp/manager.rs, acp/connection.rs, acp/lifecycle.rs).*)
EXTENDS Integers, Sequences

CONSTANTS
  None,         \* no session, row, connection or operation
  Conns,        \* connections; also the ids of the sessions they start anew
  Clients,      \* clients that open the conversation
  Old, Forked,  \* the session the row may start with; the one a fork makes
  History,      \* the conversation has a session; otherwise it is a draft
  Forgetful,    \* the agent may have forgotten the session: a new one is started
  Timeouts,     \* a handshake may outlast the wait for it
  Overtaking,   \* a fork may start while session ids wait for the worker
  MaxConnects,  \* bound on connects
  MaxForks,     \* bound on forks: 0 or 1
  MaxCloses,    \* bound on closed connections
  MaxFaults     \* bound on failed writes of a session id and on lost events

FlagsAssumption  == {History, Forgetful, Timeouts, Overtaking} \subseteq BOOLEAN
BoundsAssumption == {MaxConnects, MaxForks, MaxCloses, MaxFaults} \subseteq Nat /\ MaxForks <= 1
NamesAssumption  ==
  /\ None # Old /\ None # Forked /\ Old # Forked
  /\ Conns \cap {None, Old, Forked} = {}
  /\ None \notin Clients \cup {"C1", "C2", "ext", "fork", "persist", "rebind", "started"}
  /\ None \notin [row : {"C1", "C2"}, id : Conns \cup {Old, Forked}]

VARIABLES
  ext,     \* conversation.external_id of the row C1 and of the row C2 a fork makes
  phase,   \* phase[c]: "none", "starting", "live" or "over"
  known,   \* known[c]: it is in the manager's map
  want,    \* the session it was asked to resume
  sess,    \* SessionState.external_id
  conv,    \* SessionState.conversation_id
  op,      \* op[c]: what the holder of its prompt_lock does next
  events,  \* SessionStarted events the lifecycle worker has still to handle
  write,   \* the id it is about to write, and the row
  pc,      \* pc[p]: "idle", "lock", "wait" (for the handshake) or "has"
  sid,     \* the session a client asks for
  got,     \* the connection it was given
  lock,    \* holder of the spawn lock, per session
  unsaved, \* connections of which a session id was not written
  used     \* connects, forks, closes and faults so far

conns   == <<phase, known, want, sess, conv, op, events, write>>
clients == <<pc, sid, got, lock>>
vars    == <<ext, phase, known, want, sess, conv, op, events, write, pc, sid, got, lock,
             unsaved, used>>

C1 == "C1"
C2 == "C2"
Rows == {C1, C2}
Sessions == Conns \cup {Old, Forked}

Init ==
  /\ ext = [k \in Rows |-> IF k = C1 /\ History THEN Old ELSE None]
  /\ phase = [c \in Conns |-> "none"] /\ known = [c \in Conns |-> FALSE]
  /\ want = [c \in Conns |-> None] /\ sess = [c \in Conns |-> None]
  /\ conv = [c \in Conns |-> None] /\ op = [c \in Conns |-> None]
  /\ events = [c \in Conns |-> <<>>] /\ write = [c \in Conns |-> None]
  /\ pc = [p \in Clients |-> "idle"] /\ sid = [p \in Clients |-> None]
  /\ got = [p \in Clients |-> None] /\ lock = [s \in Sessions |-> None]
  /\ unsaved = {}
  /\ used = [connects |-> 0, forks |-> 0, closes |-> 0, faults |-> 0]

Front(s) == SubSeq(s, 1, Len(s) - 1)
Set(f, c, v) == [f EXCEPT ![c] = v]
Spend(what, bound) == used[what] < bound /\ used' = [used EXCEPT ![what] = @ + 1]
Open(c) == known[c] /\ phase[c] \in {"starting", "live"}

-----------------------------------------------------------------------------
(* Connecting: spawn_agent.                                                   *)

\* A client opens the conversation with the session id its row shows.
Connect(p) ==
  /\ pc[p] = "idle" /\ Spend("connects", MaxConnects)
  /\ sid' = Set(sid, p, ext[C1]) /\ pc' = Set(pc, p, "lock") /\ got' = Set(got, p, None)
  /\ UNCHANGED <<ext, conns, lock, unsaved>>

Free(p)  == IF sid[p] = None THEN TRUE ELSE lock[sid[p]] = None
Held(p)  == IF sid[p] = None THEN lock ELSE Set(lock, sid[p], p)
Freed(p) == IF sid[p] = None THEN lock ELSE Set(lock, sid[p], None)

ReusableByRow(p) == {}
Reusable(p) == {c \in Conns : Open(c) /\ sid[p] # None /\ sess[c] = sid[p]}

Reuse(p) ==
  /\ pc[p] = "lock" /\ Free(p)
  /\ \E c \in Reusable(p) : got' = Set(got, p, c)
  /\ pc' = Set(pc, p, "has")
  /\ UNCHANGED <<ext, conns, sid, lock, unsaved, used>>

SpawnUnlocked(p, c) == pc' = Set(pc, p, "has") /\ UNCHANGED lock
SpawnLocked(p, c)   == pc' = Set(pc, p, IF sid[p] = None THEN "has" ELSE "wait") /\ lock' = Held(p)
Spawn(p) ==
  /\ pc[p] = "lock" /\ Free(p) /\ Reusable(p) = {}
  /\ \E c \in Conns :
       /\ phase[c] = "none"
       /\ phase' = Set(phase, c, "starting") /\ known' = Set(known, c, TRUE)
       /\ want' = Set(want, c, sid[p]) /\ got' = Set(got, p, c) /\ SpawnLocked(p, c)
  /\ UNCHANGED <<ext, sess, conv, op, events, write, sid, unsaved, used>>

\* The wait ends: the session has started, the connection died, or it took too long.
ReleasedWhenStarted(p) == IF sess[got[p]] # None THEN Freed(p) ELSE lock
Released(p) == Freed(p)
Waited(p) ==
  /\ pc[p] = "wait"
  /\ sess[got[p]] # None \/ phase[got[p]] = "over" \/ Timeouts
  /\ pc' = Set(pc, p, "has") /\ lock' = Released(p)
  /\ UNCHANGED <<ext, conns, sid, got, unsaved, used>>

\* A client reloads the page, or its connection is gone.
Leave(p) ==
  /\ pc[p] = "has" /\ pc' = Set(pc, p, "idle")
  /\ UNCHANGED <<ext, conns, sid, got, lock, unsaved, used>>

-----------------------------------------------------------------------------
(* A connection.                                                              *)

Started(c, s) == sess' = Set(sess, c, s) /\ events' = [events EXCEPT ![c] = Append(@, s)]

\* resume, then load, then a new session.
Handshake(c) ==
  /\ phase[c] = "starting" /\ phase' = Set(phase, c, "live")
  /\ \/ want[c] # None /\ Started(c, want[c])
     \/ (want[c] = None \/ Forgetful) /\ Started(c, c)
  /\ UNCHANGED <<ext, known, want, conv, op, write, clients, unsaved, used>>

\* The handshake fails, or the agent dies.
Dies(c) ==
  /\ phase[c] \in {"starting", "live"} /\ Spend("closes", MaxCloses)
  /\ phase' = Set(phase, c, "over") /\ known' = Set(known, c, FALSE)
  /\ UNCHANGED <<ext, want, sess, conv, op, events, write, clients, unsaved>>

disconnect(c) ==
  /\ Open(c) /\ Spend("closes", MaxCloses) /\ known' = Set(known, c, FALSE)
  /\ UNCHANGED <<ext, phase, want, sess, conv, op, events, write, clients, unsaved>>

LoopEnds(c) ==
  /\ phase[c] \in {"starting", "live"} /\ ~known[c] /\ phase' = Set(phase, c, "over")
  /\ UNCHANGED <<ext, known, want, sess, conv, op, events, write, clients, unsaved, used>>

-----------------------------------------------------------------------------
(* The first prompt links the row, then persists a session that has started.  *)

SendLink(p) ==
  LET c == got[p] IN
  /\ pc[p] = "has" /\ Open(c) /\ op[c] = None /\ conv[c] = None
  /\ conv' = Set(conv, c, C1) /\ op' = Set(op, c, "ext")
  /\ UNCHANGED <<ext, phase, known, want, sess, events, write, clients, unsaved, used>>

LinkedSkips(c) == ext
LinkedWrites(c) == IF sess[c] = None THEN ext ELSE Set(ext, conv[c], sess[c])
SendExt(c) ==
  /\ op[c] = "ext" /\ op' = Set(op, c, None) /\ ext' = LinkedWrites(c)
  /\ UNCHANGED <<phase, known, want, sess, conv, events, write, clients, unsaved, used>>

-----------------------------------------------------------------------------
(* A fork: session/fork, the new row, then the connection moves to it. A      *)
(* caller that opened the conversation from its history passes its row; one   *)
(* with a draft cannot fork before its first prompt.                          *)

fork_session(p) ==
  LET c == got[p] IN
  /\ pc[p] = "has" /\ Open(c) /\ op[c] = None
  /\ Overtaking \/ (events[c] = <<>> /\ write[c] = None)
  /\ conv[c] # None \/ History
  /\ Spend("forks", MaxForks) /\ op' = Set(op, c, "fork")
  /\ conv' = Set(conv, c, IF conv[c] = None THEN C1 ELSE conv[c])
  /\ UNCHANGED <<ext, phase, known, want, sess, events, write, clients, unsaved>>

\* The loop asks the agent, which may refuse.
ForkReply(c) ==
  /\ op[c] = "fork" /\ op' \in {Set(op, c, "persist"), Set(op, c, None)}
  /\ phase[c] = "live" \/ (phase[c] = "over" /\ op'[c] = None)
  /\ UNCHANGED <<ext, phase, known, want, sess, conv, events, write, clients, unsaved, used>>

\* One transaction; the row must still name the session that was forked. An
\* abort ends the connection.
persist_fork_outcome(c) ==
  /\ op[c] = "persist"
  /\ IF ext[conv[c]] = sess[c]
     THEN /\ ext' = Set(ext, C2, Forked) /\ op' = Set(op, c, "rebind")
          /\ UNCHANGED <<phase, known>>
     ELSE /\ op' = Set(op, c, None) /\ UNCHANGED ext
          /\ phase' = Set(phase, c, "over") /\ known' = Set(known, c, FALSE)
  /\ UNCHANGED <<want, sess, conv, events, write, clients, unsaved, used>>

NotRebound(c) == conv
Rebound(c) == Set(conv, c, C2)
ForkRebind(c) ==
  /\ op[c] = "rebind"
  /\ IF phase[c] = "over"
     THEN op' = Set(op, c, None) /\ UNCHANGED conv
     ELSE op' = Set(op, c, "started") /\ conv' = Rebound(c)
  /\ UNCHANGED <<ext, phase, known, want, sess, events, write, clients, unsaved, used>>

OldId(c)  == sess[c]
ForkId(c) == Forked
ForkStarted(c) ==
  /\ op[c] = "started" /\ op' = Set(op, c, None)
  /\ IF phase[c] = "over" THEN UNCHANGED <<sess, events>> ELSE Started(c, ForkId(c))
  /\ UNCHANGED <<ext, phase, known, want, conv, write, clients, unsaved, used>>

-----------------------------------------------------------------------------
(* The lifecycle worker: the id of the event, the row of the moment.          *)

RowOfEvent(c) == C1
RowNow(c) == conv[c]
Aimed(c, s) == IF known[c] /\ RowNow(c) # None THEN [row |-> RowNow(c), id |-> s] ELSE None
WorkerTake(c) ==
  /\ events[c] # <<>> /\ write[c] = None
  /\ events' = Set(events, c, Tail(events[c]))
  /\ write' = Set(write, c, Aimed(c, Head(events[c])))
  /\ UNCHANGED <<ext, phase, known, want, sess, conv, op, clients, unsaved, used>>

WorkerWrite(c) ==
  /\ write[c] # None /\ write' = Set(write, c, None)
  /\ ext' = Set(ext, write[c].row, write[c].id)
  /\ UNCHANGED <<phase, known, want, sess, conv, op, events, clients, unsaved, used>>

-----------------------------------------------------------------------------
(* What is lost: an id that was not written is written by nobody later.       *)

\* The write of the id that the link finds fails, and with it the send; the link stays.
SendExtFails(c) ==
  /\ op[c] = "ext" /\ sess[c] # None /\ Spend("faults", MaxFaults)
  /\ op' = Set(op, c, None) /\ unsaved' = unsaved \cup {c}
  /\ UNCHANGED <<ext, phase, known, want, sess, conv, events, write, clients>>

\* The worker's write fails: it tries again from the start, or has tried three times.
WorkerFails(c) ==
  /\ write[c] # None /\ Spend("faults", MaxFaults)
  /\ \/ write' = Set(write, c, Aimed(c, write[c].id)) /\ UNCHANGED unsaved
     \/ write' = Set(write, c, None) /\ unsaved' = unsaved \cup {c}
  /\ UNCHANGED <<ext, phase, known, want, sess, conv, op, events, clients>>

\* The bus drops an event that the worker has not yet been given; of a connection that
\* is not linked it would write nothing.
EventLost(c) ==
  /\ events[c] # <<>> /\ Spend("faults", MaxFaults)
  /\ events' \in {Set(events, c, Tail(events[c])), Set(events, c, Front(events[c]))}
  /\ unsaved' = IF conv[c] = None THEN unsaved ELSE unsaved \cup {c}
  /\ UNCHANGED <<ext, phase, known, want, sess, conv, op, write, clients>>

-----------------------------------------------------------------------------
Ops(c)    == SendExt(c) \/ ForkReply(c) \/ persist_fork_outcome(c) \/ ForkRebind(c) \/ ForkStarted(c)
Worker(c) == WorkerTake(c) \/ WorkerWrite(c)
Faults(c) == SendExtFails(c) \/ WorkerFails(c) \/ EventLost(c)
Opens(p)  == Reuse(p) \/ Spawn(p) \/ Waited(p)
Next ==
  \/ \E p \in Clients : Connect(p) \/ Opens(p) \/ Leave(p) \/ SendLink(p) \/ fork_session(p)
  \/ \E c \in Conns : Handshake(c) \/ Dies(c) \/ disconnect(c) \/ LoopEnds(c) \/ Ops(c) \/ Worker(c)
  \/ \E c \in Conns : Faults(c)

Spec == Init /\ [][Next]_vars

\* A wait ends by its timeout at the latest; nothing is asked of the agent. The
\* lock is a fair queue.
FairSpec == Spec /\ \A p \in Clients : WF_vars(Waited(p)) /\ SF_vars(Reuse(p) \/ Spawn(p))

-----------------------------------------------------------------------------
TypeOK ==
  /\ ext \in [Rows -> Sessions \cup {None}]
  /\ phase \in [Conns -> {"none", "starting", "live", "over"}] /\ known \in [Conns -> BOOLEAN]
  /\ {want, sess} \subseteq [Conns -> Sessions \cup {None}]
  /\ conv \in [Conns -> Rows \cup {None}]
  /\ op \in [Conns -> {None, "ext", "fork", "persist", "rebind", "started"}]
  /\ events \in [Conns -> Seq(Sessions)]
  /\ write \in [Conns -> [row : Rows, id : Sessions] \cup {None}]
  /\ pc \in [Clients -> {"idle", "lock", "wait", "has"}]
  /\ sid \in [Clients -> Sessions \cup {None}] /\ got \in [Clients -> Conns \cup {None}]
  /\ lock \in [Sessions -> Clients \cup {None}]
  /\ unsaved \subseteq Conns
  /\ \A s \in Sessions : lock[s] # None => pc[lock[s]] = "wait" /\ sid[lock[s]] = s

\* Two clients that open the same session share one connection: no session has
\* two open ones (spawn_agent's lock, find_connection_for_reuse).
OneProcess ==
  \A c, d \in Conns : (Open(c) /\ Open(d) /\ c # d /\ sess[c] # None) => sess[c] # sess[d]

\* No row is linked to two open connections, whose prompts would take turns
\* nobody orders.
OneRuntime ==
  \A c, d \in Conns : (Open(c) /\ Open(d) /\ c # d /\ conv[c] # None) => conv[c] # conv[d]

\* A fork leaves the original row with its session: C1 never names the forked one.
ForkKeepsOriginal == ext[C1] # Forked

\* The row of a fork names the forked session and no other.
ForkKeepsSession == ext[C2] \in {None, Forked}

\* When nothing is on its way and no write of its was lost, the row of an open connection
\* names its session, whichever of the link and the session came first and however often
\* the worker had to try (send_prompt_linked, handle_event, handle_event_with_retry).
Persisted ==
  \A c \in Conns :
    (Open(c) /\ conv[c] # None /\ sess[c] # None /\ op[c] = None /\ events[c] = <<>> /\ write[c] = None)
      => c \in unsaved \/ ext[conv[c]] = sess[c]

\* Every open of the conversation has ended.
Connected == \A p \in Clients : pc[p] \in {"idle", "has"}
=============================================================================
