--------------------------- MODULE PendingRequest ---------------------------
(* The registries of questions and plan approvals of one agent connection     *)
(* (acp/manager.rs): an ask is registered, announced, answered by a client or *)
(* withdrawn by whoever gives it up, while the turn ends, is cancelled or the *)
(* connection is torn down (acp/connection.rs).                               *)
EXTENDS Integers, Sequences, FiniteSets

CONSTANTS
  None,        \* no card
  Asks,        \* asks of the agent; their ids are fresh uuids
  Plans,       \* asks for the approval of a plan, the others are questions
  Mcp,         \* questions that come from the MCP companion through its socket
  Timed,       \* questions of an agent that gives up after a time (Codex)
  MaxPrompts,  \* bound on turns
  MaxCancels   \* bound on cancels

AsksAssumption   == /\ None \notin Asks /\ Plans \cup Mcp \cup Timed \subseteq Asks
                           /\ Plans \cap Mcp = {} /\ (Plans \cup Mcp) \cap Timed = {}
BoundsAssumption == {MaxPrompts, MaxCancels} \subseteq Nat

VARIABLES
  reg,       \* pending_questions and pending_plan_approvals
  card,      \* card[k]: SessionState.pending_question, pending_plan_approval
  ask,       \* ask[a]: the task that serves an ask
  shot,      \* shot[a]: what its one-shot holds
  seen,      \* asks a client has seen the card of
  clearing,  \* asks whose resolved event somebody is about to emit
  abandoned, \* asks the agent no longer waits for
  of,        \* of[a]: the turn an ask was made in
  left,      \* asks whose answering client went away before its resolved event
  loop,      \* the conversation loop, then the cleanup of the connection
  turn,      \* turns so far
  cancels,   \* cancels so far
  token,     \* the companion's token is valid
  inMap      \* the connection is in the manager's map

asks == <<reg, card, ask, shot, seen, clearing, abandoned, of, left>>
conn == <<loop, turn, cancels, token, inMap>>
vars == <<reg, card, ask, shot, seen, clearing, abandoned, of, left, loop, turn, cancels, token, inMap>>

Kinds     == {"question", "plan"}
Kind(a)   == IF a \in Plans THEN "plan" ELSE "question"
Finished  == {"answered", "declined", "refused", "dropped"}
Leaving   == loop \in {"revoke", "sweep questions", "sweep plans", "gone"}
At(a, pc) == ask' = [ask EXCEPT ![a] = pc]

Init ==
  /\ reg = {} /\ card = [k \in Kinds |-> None] /\ ask = [a \in Asks |-> "new"]
  /\ shot = [a \in Asks |-> "open"] /\ seen = {} /\ clearing = {} /\ abandoned = {}
  /\ of = [a \in Asks |-> 0] /\ left = {}
  /\ loop = "idle" /\ turn = 0 /\ cancels = 0 /\ token = TRUE /\ inMap = TRUE

-----------------------------------------------------------------------------
(* Events on the session state. A resolved event clears its own card only.    *)

ShowCard(a) == card' = [card EXCEPT ![Kind(a)] = a]
ClearAny(a) == [card EXCEPT ![Kind(a)] = None]
Cleared(a)  == [card EXCEPT ![Kind(a)] = IF @ = a THEN None ELSE @]
TurnClears  == card' = [k \in Kinds |-> None]

\* The last step of every answer, cancel and sweep. It finds no state once the
\* connection has left the map.
EmitResolved(a) ==
  /\ a \in clearing /\ clearing' = clearing \ {a}
  /\ card' = IF inMap THEN Cleared(a) ELSE card
  /\ UNCHANGED <<reg, ask, shot, seen, abandoned, of, left, conn>>

-----------------------------------------------------------------------------
(* The task of an ask: the listener's for the companion, a handler of the     *)
(* dispatch task, then a task of its own, for requests of the agent.          *)

\* The companion's token is looked up first; an ext request has none.
AgentAsks(a) ==
  /\ ask[a] = "new" /\ loop = "turn" /\ At(a, "sent") /\ of' = [of EXCEPT ![a] = turn]
  /\ UNCHANGED <<reg, card, shot, seen, clearing, abandoned, left, conn>>

NeverBusy(a) == FALSE
Busy(a)      == \E b \in reg : Kind(b) = Kind(a)

RegisterInsert(a) ==
  /\ ask[a] = "sent"
  /\ IF ~inMap \/ Busy(a) THEN At(a, "refused") /\ reg' = reg
                          ELSE At(a, "announce") /\ reg' = reg \cup {a}
  /\ UNCHANGED <<card, shot, seen, clearing, abandoned, of, left, conn>>

RegisterAnnounce(a) ==
  /\ ask[a] = "announce" /\ ShowCard(a) /\ seen' = seen \cup {a} /\ At(a, "confirm")
  /\ UNCHANGED <<reg, shot, clearing, abandoned, of, left, conn>>

\* A sweep that came between took the entry: its event may have come too early.
Uncompensated(a) == clearing' = clearing
Compensate(a)    == clearing' = clearing \cup {a}

RegisterConfirm(a) ==
  /\ ask[a] = "confirm"
  /\ IF a \in reg THEN At(a, IF a \in Mcp THEN "recheck" ELSE "wait") /\ clearing' = clearing
                  ELSE At(a, "declined") /\ Compensate(a)
  /\ UNCHANGED <<reg, card, shot, seen, abandoned, of, left, conn>>

\* cancel_question: no-op unless the ask is still pending.
cancel_question(a) ==
  IF a \in reg
  THEN /\ reg' = reg \ {a} /\ shot' = [shot EXCEPT ![a] = "dropped"]
       /\ clearing' = clearing \cup {a}
  ELSE UNCHANGED <<reg, shot, clearing>>

NoRecheck == TRUE
TokenLives == token

\* A registration that lands after the sweep of a teardown is caught here.
Recheck(a) ==
  /\ ask[a] = "recheck"
  /\ IF TokenLives THEN At(a, "wait") /\ UNCHANGED <<reg, shot, clearing>>
                   ELSE At(a, "declined") /\ cancel_question(a)
  /\ UNCHANGED <<card, seen, abandoned, of, left, conn>>

AnswerArrives(a) ==
  /\ ask[a] = "wait" /\ shot[a] # "open"
  /\ At(a, IF shot[a] = "sent" THEN "answered" ELSE "declined")
  /\ UNCHANGED <<reg, card, shot, seen, clearing, abandoned, of, left, conn>>

\* The companion closed its socket.
PeerCloses(a) ==
  /\ ask[a] = "wait" /\ a \in Mcp \cap abandoned /\ shot[a] = "open"
  /\ cancel_question(a) /\ At(a, "declined")
  /\ UNCHANGED <<card, seen, abandoned, of, left, conn>>

\* The reaper of an ask with a time limit, two seconds after the agent gave up.
NoReaper(a) == UNCHANGED <<reg, shot, clearing>>
Reap(a)     == cancel_question(a)

Reaper(a) ==
  /\ ask[a] = "wait" /\ a \in Timed \cap abandoned /\ Reap(a)
  /\ UNCHANGED <<card, ask, seen, abandoned, of, left, conn>>

\* The agent gives an ask up: at its time limit, or because its turn is over.
AgentAbandons(a) ==
  /\ ask[a] \in {"sent", "announce", "confirm", "recheck", "wait"} /\ a \notin abandoned
  /\ (a \in Timed /\ ask[a] = "wait") \/ of[a] < turn \/ loop # "turn"
  /\ abandoned' = abandoned \cup {a}
  /\ UNCHANGED <<reg, card, ask, shot, seen, clearing, of, left, conn>>

-----------------------------------------------------------------------------
(* Clients answer a card they saw; the first answer takes the one-shot.  The  *)
(* handler of a client that disconnects is dropped before it emits the event. *)

answer(a) ==
  /\ a \in seen \cap reg
  /\ reg' = reg \ {a} /\ shot' = [shot EXCEPT ![a] = "sent"]
  /\ \/ clearing' = clearing \cup {a} /\ UNCHANGED left
     \/ left' = left \cup {a} /\ UNCHANGED clearing
  /\ UNCHANGED <<card, ask, seen, abandoned, of, conn>>

-----------------------------------------------------------------------------
(* Turns and teardown.                                                        *)

Of(k) == {a \in reg : Kind(a) = k}

SweepNothing(k) == UNCHANGED <<reg, shot, clearing>>
cancel_by_parent(k) ==
  /\ reg' = reg \ Of(k)
  /\ shot' = [a \in Asks |-> IF a \in Of(k) THEN "dropped" ELSE shot[a]]
  /\ clearing' = clearing \cup Of(k)

\* UserMessage starts a turn and takes down what it calls stale cards.
Prompt ==
  /\ loop = "idle" /\ inMap /\ turn < MaxPrompts /\ turn' = turn + 1 /\ loop' = "turn"
  /\ TurnClears
  /\ UNCHANGED <<reg, ask, shot, seen, clearing, abandoned, of, left, cancels, token, inMap>>

\* An agent blocked on an ask does not end its turn.
TurnEnds ==
  /\ loop = "turn" /\ loop' = "idle" /\ TurnClears
  /\ \A a \in Asks : ask[a] \in {"new"} \cup Finished \/ a \in abandoned
  /\ UNCHANGED <<reg, ask, shot, seen, clearing, abandoned, of, left, turn, cancels, token, inMap>>

CancelTurn ==
  /\ loop = "turn" /\ cancels < MaxCancels /\ cancels' = cancels + 1
  /\ loop' = "cancel questions" /\ TurnClears
  /\ UNCHANGED <<reg, ask, shot, seen, clearing, abandoned, of, left, turn, token, inMap>>

CancelSweeps ==
  /\ \/ loop = "cancel questions" /\ cancel_by_parent("question") /\ loop' = "cancel plans"
     \/ loop = "cancel plans" /\ cancel_by_parent("plan") /\ loop' = "idle"
  /\ UNCHANGED <<card, ask, seen, abandoned, of, left, turn, cancels, token, inMap>>

disconnect ==
  /\ inMap /\ ~Leaving /\ inMap' = FALSE
  /\ UNCHANGED <<asks, loop, turn, cancels, token>>

\* The loop ends, by a disconnect or with the agent; the handlers of the
\* dispatch task are dropped with it, the tasks they spawned are not.
LoopEnds ==
  /\ loop \in {"idle", "turn"} /\ loop' = "revoke"
  /\ ask' = [a \in Asks |-> IF a \notin Mcp /\ ask[a] \in {"sent", "announce", "confirm"}
                            THEN "dropped" ELSE ask[a]]
  /\ UNCHANGED <<reg, card, shot, seen, clearing, abandoned, of, left, turn, cancels, token, inMap>>

Cleanup ==
  \/ /\ loop = "revoke" /\ token' = FALSE /\ loop' = "sweep questions"
     /\ UNCHANGED <<asks, turn, cancels, inMap>>
  \/ /\ loop = "sweep questions" /\ cancel_by_parent("question") /\ loop' = "sweep plans"
     /\ UNCHANGED <<card, ask, seen, abandoned, of, left, turn, cancels, token, inMap>>
  \/ /\ loop = "sweep plans" /\ cancel_by_parent("plan") /\ loop' = "gone" /\ inMap' = FALSE
     /\ UNCHANGED <<card, ask, seen, abandoned, of, left, turn, cancels, token>>

Serve(a) ==
  \/ RegisterInsert(a) \/ RegisterAnnounce(a) \/ RegisterConfirm(a) \/ Recheck(a)
  \/ AnswerArrives(a) \/ PeerCloses(a) \/ Reaper(a)

Next ==
  \/ \E a \in Asks : Serve(a) \/ EmitResolved(a) \/ AgentAsks(a) \/ AgentAbandons(a) \/ answer(a)
  \/ Prompt \/ TurnEnds \/ CancelTurn \/ CancelSweeps \/ disconnect \/ LoopEnds \/ Cleanup

Spec == Init /\ [][Next]_vars

\* A client answers the card it is shown.
answers_shown(a) == inMap /\ card[Kind(a)] = a /\ answer(a)

(* Tasks of the runtime are scheduled, the loop leaves once the connection is *)
(* out of the map, and clients answer the cards they are shown.               *)
FairSpec ==
  /\ Spec /\ WF_vars(CancelSweeps) /\ WF_vars(Cleanup) /\ WF_vars(~inMap /\ LoopEnds)
  /\ \A a \in Asks : WF_vars(Serve(a)) /\ WF_vars(EmitResolved(a)) /\ WF_vars(answers_shown(a))

-----------------------------------------------------------------------------
(* Types; and the agent is blocked in one call of a kind at a time.           *)
TypeOK ==
  /\ reg \cup seen \cup clearing \cup abandoned \cup left \subseteq Asks
  /\ card \in [Kinds -> Asks \cup {None}]
  /\ ask \in [Asks -> Finished \cup {"new", "sent", "announce", "confirm", "recheck", "wait"}]
  /\ shot \in [Asks -> {"open", "sent", "dropped"}] /\ of \in [Asks -> Nat]
  /\ loop \in {"idle", "turn", "cancel questions", "cancel plans",
               "revoke", "sweep questions", "sweep plans", "gone"}
  /\ {turn, cancels} \subseteq Nat /\ {token, inMap} \subseteq BOOLEAN
  /\ \A a, b \in reg : Kind(a) = Kind(b) => a = b

(* While the loop runs, a card nobody waits behind is about to go: by the     *)
(* resolved event of whoever took the entry, or of the registration that      *)
(* announced it after a sweep had taken it.  Only that of an answer whose     *)
(* client has gone stays, until the turn clears it.                           *)
NoDeadCard ==
  (inMap /\ ~Leaving) => \A k \in Kinds :
    card[k] \notin reg \cup {None} => card[k] \in clearing \cup left \/ ask[card[k]] = "confirm"

Announced == \E a \in Asks : ask[a] = "announce" /\ ask'[a] = "confirm"

(* The card of a pending ask is not taken down by the resolved event of       *)
(* another, however late: only the start or end of a turn, or the next        *)
(* announcement, does.                                                        *)
CardKept ==
  \A k \in Kinds : (card[k] \in reg \cap reg' /\ loop' = loop /\ ~Announced) => card'[k] = card[k]

(* While an ask is pending and its turn goes on, its card stays up: "a late   *)
(* event for an already-replaced question can't wipe a live card from under   *)
(* the user" (acp/session_state.rs).                                          *)
CardStays ==
  \A k \in Kinds : (card[k] \in reg \cap reg' /\ loop' = loop) => card'[k] = card[k]

(* Nobody is blocked on a connection that is gone.                            *)
AllReturned == loop = "gone" => reg = {} /\ \A a \in Asks : ask[a] \in {"new"} \cup Finished

(* Every ask has ended, or its agent has given it up.                         *)
AsksEnded == \A a \in Asks : ask[a] \in {"new"} \cup Finished \/ a \in abandoned

(* The zombie of an ask its agent gave up at its time limit is reaped.        *)
ZombiesReaped == abandoned \cap Timed \cap reg = {}

(* An ask of the running turn is refused only behind one that a client can    *)
(* answer: what the comment on the sweep of a cancel says it is for.          *)
RefusedBehindShown ==
  \A a \in Asks :
    (ask[a] = "sent" /\ ask'[a] = "refused" /\ inMap /\ loop = "turn" /\ of[a] = turn) =>
    \E b \in reg : Kind(b) = Kind(a) /\ (card[Kind(a)] = b \/ ask[b] = "announce")
=============================================================================
