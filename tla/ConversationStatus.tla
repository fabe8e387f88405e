------------------------- MODULE ConversationStatus -------------------------
(* What the row of one conversation says about its turns. A prompt writes     *)
(* "in_progress" before it is handed to the agent (acp/manager.rs); the end   *)
(* of the turn, or of the connection, is written later by the worker that     *)
(* reads the connection's events (acp/lifecycle.rs).                          *)
EXTENDS Integers, Sequences, FiniteSets

CONSTANTS
  None,        \* no operation, no write
  Conns,       \* connections made for the conversation, one after the other
  Bound,       \* those made for an existing row by the host, linked before they are known
  Early,       \* what may still wait for the worker when a connection is closed: "link", "end"
  Overtaking,  \* a prompt may be sent while earlier events wait for the worker
  MaxPrompts,  \* bound on prompts
  MaxCancels,  \* bound on cancels
  MaxCloses,   \* bound on disconnects and deaths of an agent
  MaxDrops,    \* bound on callers that go away in the middle of a prompt
  MaxFails,    \* bound on failed writes of a status
  MaxLost      \* bound on events that the bus drops

SetsAssumption   ==
  /\ Bound \subseteq Conns /\ Early \subseteq {"link", "end"} /\ Overtaking \in BOOLEAN
  /\ None \notin {"link", "status", "lookup", "reserve", "rollback", "cancel"}
  /\ None \notin {"pending_review", "in_progress", "cancelled"}
BoundsAssumption ==
  {MaxPrompts, MaxCancels, MaxCloses, MaxDrops, MaxFails, MaxLost} \subseteq Nat

VARIABLES
  row,     \* conversation.status
  phase,   \* phase[c]: "none", "building", "live" (its loop runs) or "over"
  known,   \* known[c]: it is in the manager's map
  linked,  \* SessionState.conversation_id is set
  flight,  \* SessionState.turn_in_flight
  turn,    \* its loop runs a turn
  cmds,    \* its command channel
  op,      \* op[c]: what the holder of its prompt_lock does next
  events,  \* events[c]: for the lifecycle worker
  worker,  \* worker[c]: the cached link, the status being written, retries so far
  last,    \* how the last prompt came to its end
  used,    \* prompts, cancels, closes, drops, fails and losses so far
  missing  \* what nobody makes up for: the "end" of the last prompt, a "link" of the worker

conns == <<phase, known, linked, flight, turn>>
vars  == <<row, phase, known, linked, flight, turn, cmds, op, events, worker, last, used, missing>>

Init ==
  /\ row = "pending_review" /\ last = "end_turn" /\ missing = {}
  /\ phase = [c \in Conns |-> "none"]
  /\ known = [c \in Conns |-> FALSE] /\ linked = [c \in Conns |-> FALSE]
  /\ flight = [c \in Conns |-> FALSE] /\ turn = [c \in Conns |-> FALSE]
  /\ cmds = [c \in Conns |-> <<>>] /\ op = [c \in Conns |-> None]
  /\ events = [c \in Conns |-> <<>>]
  /\ worker = [c \in Conns |-> [cached |-> FALSE, write |-> None, tries |-> 0]]
  /\ used = [prompts |-> 0, cancels |-> 0, closes |-> 0, drops |-> 0, fails |-> 0,
              lost |-> 0]

Elems(s) == {s[n] : n \in DOMAIN s}
Set(f, c, v)  == [f EXCEPT ![c] = v]
Push(f, c, e) == [f EXCEPT ![c] = Append(@, e)]
Spend(what, bound) == used[what] < bound /\ used' = [used EXCEPT ![what] = @ + 1]
Running(c) == phase[c] = "live" /\ flight[c]
Handled(c) == events[c] = <<>> /\ worker[c].write = None

-----------------------------------------------------------------------------
(* Connections.                                                               *)

\* A live connection is reused: another is made when none is known.
Spawn(c) ==
  /\ phase[c] = "none" /\ \A d \in Conns : ~known[d] /\ phase[d] # "building"
  /\ phase' = Set(phase, c, "building")
  /\ IF c \in Bound
     THEN linked' = Set(linked, c, TRUE) /\ events' = Push(events, c, "linked")
     ELSE UNCHANGED <<linked, events>>
  /\ UNCHANGED <<row, known, flight, turn, cmds, op, worker, last, used, missing>>

Insert(c) ==
  /\ phase[c] = "building"
  /\ phase' = Set(phase, c, "live") /\ known' = Set(known, c, TRUE)
  /\ UNCHANGED <<row, linked, flight, turn, cmds, op, events, worker, last, used, missing>>

MayClose(c) ==
  /\ "link" \in Early \/ "linked" \notin Elems(events[c])
  /\ "end" \in Early \/ (Elems(events[c]) \subseteq {"linked"} /\ worker[c].write = None)
  /\ Spend("closes", MaxCloses)

\* Out of the map first, then the command, which a loop that is over does not get.
disconnect(c) ==
  /\ known[c] /\ MayClose(c) /\ known' = Set(known, c, FALSE)
  /\ cmds' = IF phase[c] = "over" THEN cmds ELSE Push(cmds, c, "disconnect")
  /\ UNCHANGED <<row, phase, linked, flight, turn, op, events, worker, last, missing>>

\* The terminal event; the loop reads no command any more.
EndsInTurn(c) ==
  /\ phase' = Set(phase, c, "over") /\ cmds' = Set(cmds, c, <<>>)
  /\ events' = Push(events, c, "terminal")
  /\ UNCHANGED <<turn, last>>
Ends(c) ==
  /\ phase' = Set(phase, c, "over") /\ turn' = Set(turn, c, FALSE)
  /\ cmds' = Set(cmds, c, <<>>)
  /\ events' = Push(events, c, "terminal")
  /\ last' = IF flight[c] THEN "cut" ELSE last

AgentDies(c) ==
  /\ phase[c] = "live" /\ MayClose(c) /\ Ends(c)
  /\ UNCHANGED <<row, known, linked, flight, op, worker, missing>>

Cleanup(c) ==
  /\ phase[c] = "over" /\ known[c] /\ known' = Set(known, c, FALSE)
  /\ UNCHANGED <<row, phase, linked, flight, turn, cmds, op, events, worker, last, used, missing>>

LoopDisconnect(c) ==
  /\ phase[c] = "live" /\ cmds[c] # <<>> /\ Head(cmds[c]) = "disconnect" /\ Ends(c)
  /\ UNCHANGED <<row, known, linked, flight, op, worker, used, missing>>

LoopPrompt(c) ==
  /\ phase[c] = "live" /\ ~turn[c] /\ cmds[c] # <<>> /\ Head(cmds[c]) = "prompt"
  /\ turn' = Set(turn, c, TRUE) /\ cmds' = Set(cmds, c, Tail(cmds[c]))
  /\ UNCHANGED <<row, phase, known, linked, flight, op, events, worker, last, used, missing>>

\* TurnComplete is applied to the session state, then queued for the worker. A
\* turn that outlives its place in the map counts as cut off.
Completes(c, reason) ==
  /\ turn' = Set(turn, c, FALSE) /\ flight' = Set(flight, c, FALSE)
  /\ events' = Push(events, c, reason) /\ last' = IF known[c] THEN reason ELSE "cut"
  /\ UNCHANGED <<row, phase, known, linked, op, worker, used, missing>>

TurnEnds(c) ==
  /\ turn[c] /\ \E reason \in {"end_turn", "refusal"} : Completes(c, reason)
  /\ UNCHANGED cmds

LoopCancel(c) ==
  /\ phase[c] = "live" /\ cmds[c] # <<>> /\ Head(cmds[c]) = "cancel"
  /\ cmds' = Set(cmds, c, Tail(cmds[c]))
  /\ IF turn[c] THEN Completes(c, "cancelled")
     ELSE UNCHANGED <<row, conns, op, events, worker, last, used, missing>>

-----------------------------------------------------------------------------
(* A prompt: send_prompt_linked under the prompt_lock of the connection.      *)

SendStart(c) ==
  /\ known[c] /\ op[c] = None /\ ~flight[c]
  /\ \/ Overtaking
     \/ \A d \in Conns : Handled(d) /\ op[d] = None /\ (d # c => phase[d] \in {"none", "over"})
  /\ Spend("prompts", MaxPrompts) /\ op' = Set(op, c, "link")
  /\ UNCHANGED <<row, conns, cmds, events, worker, last, missing>>

SendLink(c) ==
  /\ op[c] = "link" /\ op' = Set(op, c, "status")
  /\ IF linked[c] THEN UNCHANGED <<linked, events>>
     ELSE linked' = Set(linked, c, TRUE) /\ events' = Push(events, c, "linked")
  /\ UNCHANGED <<row, phase, known, flight, turn, cmds, worker, last, used, missing>>

\* send_is_admitted may refuse, or the write of the row fail; a row that is written waits
\* for the end of this prompt and no other.
AdmitFirst(c) ==
  /\ op[c] = "status" /\ op' = Set(op, c, "lookup") /\ missing' = missing \ {"end"}
  /\ row' = IF row = "cancelled" THEN row ELSE "in_progress"
Admit(c) ==
  /\ op[c] = "status"
  /\ \/ op' = Set(op, c, None) /\ UNCHANGED <<row, missing>>
     \/ op' = Set(op, c, "lookup") /\ row' = "in_progress" /\ missing' = missing \ {"end"}
SendStatus(c) ==
  /\ Admit(c)
  /\ UNCHANGED <<conns, cmds, events, worker, last, used>>

SendLookup(c) ==
  /\ op[c] = "lookup"
  /\ op' = Set(op, c, IF known[c] THEN "reserve" ELSE "rollback")
  /\ UNCHANGED <<row, conns, cmds, events, worker, last, used, missing>>

SendEnqueue(c) ==
  /\ op[c] = "reserve"
  /\ IF phase[c] = "over"
     THEN op' = Set(op, c, "rollback") /\ UNCHANGED <<flight, cmds>>
     ELSE /\ op' = Set(op, c, None)
          /\ flight' = Set(flight, c, TRUE) /\ cmds' = Push(cmds, c, "prompt")
  /\ UNCHANGED <<row, phase, known, linked, turn, events, worker, last, used, missing>>

\* A failed write is logged, and not tried again.
SendRollback(c) ==
  /\ op[c] = "rollback" /\ op' = Set(op, c, None)
  /\ row' = "cancelled" /\ last' = "unsent"
  /\ UNCHANGED <<conns, cmds, events, worker, used, missing>>
RollbackFails(c) ==
  /\ op[c] = "rollback" /\ op' = Set(op, c, None) /\ last' = "unsent"
  /\ Spend("fails", MaxFails) /\ missing' = missing \cup {"end"}
  /\ UNCHANGED <<row, conns, cmds, events, worker>>

\* The request is dropped at one of its awaits, with everything it would do.
SendDropped(c) ==
  /\ op[c] \in {"link", "status", "lookup", "reserve", "rollback"}
  /\ Spend("drops", MaxDrops) /\ op' = Set(op, c, None)
  /\ missing' = missing \cup (IF op[c] \in {"link", "status"} THEN {} ELSE {"end"})
  /\ UNCHANGED <<row, conns, cmds, events, worker, last>>

CancelStart(c) ==
  /\ known[c] /\ op[c] = None /\ phase[c] = "live" /\ Spend("cancels", MaxCancels)
  /\ cmds' = Push(cmds, c, "cancel") /\ op' = Set(op, c, "cancel")
  /\ UNCHANGED <<row, conns, events, worker, last, missing>>

CancelledKept == row
CancelledRow == IF row = "in_progress" THEN "cancelled" ELSE row
CancelRow(c) ==
  /\ op[c] = "cancel" /\ op' = Set(op, c, None)
  /\ row' = IF linked[c] THEN CancelledRow ELSE row
  /\ UNCHANGED <<conns, cmds, events, worker, last, used, missing>>

\* Logged, and not tried again.
CancelRowFails(c) ==
  /\ op[c] = "cancel" /\ linked[c] /\ op' = Set(op, c, None)
  /\ Spend("fails", MaxFails) /\ missing' = missing \cup {"end"}
  /\ UNCHANGED <<row, conns, cmds, events, worker, last>>

-----------------------------------------------------------------------------
(* The lifecycle worker of a connection.                                      *)

TargetSwapped(reason) ==
  IF reason = "cancelled" THEN None ELSE "pending_review"
Target(reason) ==
  CASE reason = "end_turn" -> "pending_review"
    [] reason = "refusal"  -> "cancelled"
    [] OTHER               -> None

\* What handle_event is about to write; the manager must still know the connection.
HandledAs(c, reason) == IF known[c] /\ linked[c] THEN Target(reason) ELSE None

WorkerLinked(c) ==
  /\ events[c] # <<>> /\ Head(events[c]) = "linked" /\ worker[c].write = None
  /\ events' = Set(events, c, Tail(events[c]))
  /\ worker' = [worker EXCEPT ![c].cached = @ \/ known[c]]
  /\ UNCHANGED <<row, conns, cmds, op, last, used, missing>>

WorkerComplete(c) ==
  /\ events[c] # <<>> /\ Head(events[c]) \notin {"linked", "terminal"} /\ worker[c].write = None
  /\ events' = Set(events, c, Tail(events[c]))
  /\ worker' = [worker EXCEPT ![c].write = HandledAs(c, Head(events[c])), ![c].tries = 0]
  /\ UNCHANGED <<row, conns, cmds, op, last, used, missing>>

WorkerWrite(c) ==
  /\ worker[c].write # None
  /\ row' = worker[c].write /\ worker' = [worker EXCEPT ![c].write = None]
  /\ UNCHANGED <<conns, cmds, op, events, last, used, missing>>

\* Two retries, each of which looks the connection up again; after the third failure the
\* event is given up.
NoRetry(c) == None
Retried(c) == IF worker[c].tries < 2 /\ known[c] THEN worker[c].write ELSE None
WorkerFails(c) ==
  /\ worker[c].write # None /\ Spend("fails", MaxFails)
  /\ worker' = [worker EXCEPT ![c].write = Retried(c), ![c].tries = @ + 1]
  /\ missing' = missing \cup (IF worker[c].tries = 2 THEN {"end"} ELSE {})
  /\ UNCHANGED <<row, conns, cmds, op, events, last>>

WorkerTerminal(c) ==
  /\ events[c] # <<>> /\ Head(events[c]) = "terminal" /\ worker[c].write = None
  /\ events' = Set(events, c, Tail(events[c]))
  /\ worker' = [worker EXCEPT ![c].cached = FALSE]
  /\ row' = IF worker[c].cached /\ row = "in_progress" THEN "cancelled" ELSE row
  /\ UNCHANGED <<conns, cmds, op, last, used, missing>>

\* The cached link is gone before the write fails, and terminal_dispatched is set.
TerminalFails(c) ==
  /\ events[c] # <<>> /\ Head(events[c]) = "terminal" /\ worker[c].write = None
  /\ worker[c].cached /\ worker' = [worker EXCEPT ![c].cached = FALSE]
  /\ events' = Set(events, c, Tail(events[c]))
  /\ Spend("fails", MaxFails) /\ missing' = missing \cup {"end"}
  /\ UNCHANGED <<row, conns, cmds, op, last>>

\* RecvError::Lagged: the dispatcher reads the bus too late and never sees the event,
\* which here is the one that the worker would take next.
TakenBy(event) ==
  CASE event = "linked"    -> {"link"}
    [] event = "cancelled" -> {}
    [] OTHER               -> {"end"}
EventLost(c) ==
  /\ events[c] # <<>> /\ worker[c].write = None
  /\ events' = Set(events, c, Tail(events[c]))
  /\ Spend("lost", MaxLost) /\ missing' = missing \cup TakenBy(Head(events[c]))
  /\ UNCHANGED <<row, conns, cmds, op, worker, last>>

-----------------------------------------------------------------------------
Loop(c)    == LoopDisconnect(c) \/ LoopPrompt(c) \/ LoopCancel(c)
Sender(c)  == SendLink(c) \/ SendStatus(c) \/ SendLookup(c) \/ SendEnqueue(c)
                \/ SendRollback(c) \/ CancelRow(c)
Worker(c)  == WorkerLinked(c) \/ WorkerComplete(c) \/ WorkerWrite(c) \/ WorkerTerminal(c)
SenderFails(c)  == RollbackFails(c) \/ CancelRowFails(c)
WorkerMisses(c) == WorkerFails(c) \/ TerminalFails(c) \/ EventLost(c)
Next == \E c \in Conns :
  \/ Spawn(c) \/ Insert(c) \/ disconnect(c) \/ AgentDies(c) \/ Cleanup(c)
  \/ Loop(c) \/ TurnEnds(c)
  \/ SendStart(c) \/ Sender(c) \/ SenderFails(c) \/ SendDropped(c) \/ CancelStart(c)
  \/ Worker(c) \/ WorkerMisses(c)

Spec == Init /\ [][Next]_vars

\* The loop, the holders of locks and the workers go on; turns end.
FairSpec ==
  Spec /\ \A c \in Conns : WF_vars(Loop(c)) /\ WF_vars(TurnEnds(c)) /\ WF_vars(Sender(c))
                           /\ WF_vars(Worker(c)) /\ WF_vars(Insert(c))

-----------------------------------------------------------------------------
Statuses == {"pending_review", "in_progress", "cancelled"}
TypeOK ==
  /\ row \in Statuses /\ last \in {"end_turn", "refusal", "cancelled", "cut", "unsent"}
  /\ phase \in [Conns -> {"none", "building", "live", "over"}]
  /\ {known, linked, flight, turn} \subseteq [Conns -> BOOLEAN]
  /\ cmds \in [Conns -> Seq({"prompt", "cancel", "disconnect"})]
  /\ op \in [Conns -> {None, "link", "status", "lookup", "reserve", "rollback", "cancel"}]
  /\ events \in [Conns -> Seq({"linked", "terminal", "end_turn", "refusal", "cancelled"})]
  /\ worker \in [Conns -> [cached : BOOLEAN, write : Statuses \cup {None}, tries : 0 .. 3]]
  /\ missing \subseteq {"end", "link"}
  /\ \A c \in Conns : turn[c] => Running(c)

Idle(c) == Handled(c) /\ op[c] = None /\ ~Running(c) /\ cmds[c] = <<>>

\* When no turn runs, no prompt is on its way and every event has been handled,
\* the row does not say that a turn is in progress, unless a fault took the only
\* write that was left: the rollback or the cancel of the row, the third attempt at
\* the end of the turn, the one at the terminal event, an event that the bus dropped
\* (send_prompt_linked's rollback, cancel, handle_event_with_retry,
\* handle_terminal_event).
NeverStranded == missing = {} /\ (\A c \in Conns : Idle(c)) => row # "in_progress"

\* While a turn runs that nobody has cancelled and nothing else is on its way,
\* the row says so: an older turn, prompt or connection has not overwritten it
\* (send_prompt_linked's InProgress).
TurnShown ==
  \A c \in Conns :
    (Running(c) /\ "cancel" \notin Elems(cmds[c]) /\ \A d \in Conns : Handled(d) /\ op[d] = None)
      => row = "in_progress"

\* When nothing is on its way and no fault took a write, the row tells how the last
\* prompt ended: a normal end asks for a review, everything else reads as cancelled
\* (handle_event).
OutcomeShown ==
  missing = {} /\ (\A c \in Conns : Idle(c))
    => row = IF last = "end_turn" THEN "pending_review" ELSE "cancelled"

\* No turn is shown as in progress, unless a fault took the write of its end.
Settled == row # "in_progress" \/ missing # {}
=============================================================================
