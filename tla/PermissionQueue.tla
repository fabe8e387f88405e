-------------------------- MODULE PermissionQueue --------------------------
(* The permission cards of one agent connection (acp/connection.rs): the      *)
(* requests its agent is blocked on, the one card its clients see, the        *)
(* command loop that answers and cancels them and runs the turns, and the     *)
(* idle sweep that closes the connection (acp/manager.rs).                    *)
EXTENDS Integers, Sequences, FiniteSets

CONSTANTS
  None,         \* no card
  Requests,     \* permission requests of the agent; their ids are fresh uuids
  Clients,      \* clients attached to the connection
  MaxPrompts,   \* bound on prompts
  MaxCancels,   \* bound on cancels
  MaxControls,  \* bound on commands that wait for a reply of the agent
  MaxSweeps,    \* bound on idle sweeps
  MaxDeaths     \* bound on deaths of the agent: 0 or 1

NoneAssumption   == None \notin Requests
BoundsAssumption == {MaxPrompts, MaxCancels, MaxControls, MaxSweeps, MaxDeaths} \subseteq Nat

VARIABLES
  perms,    \* PermissionQueue: blocked responders, card shown, cards waiting
  todo,     \* events the holder of its lock has still to emit; <<>> when the lock is free
  reply,    \* reply[i]: what the agent was told
  arrived,  \* requests in the order they were admitted
  card,     \* SessionState.pending_permission: the card every client renders
  depth,    \* how many more the card says are waiting
  tracked,  \* what a work task counts as outstanding from the events
  clicked,  \* <<client, request>>: cards a client answered
  loop,     \* the conversation loop
  cmds,     \* its command channel
  flight,   \* SessionState.turn_in_flight
  status,   \* SessionState.status
  open,     \* the connection is in the manager's map
  victim,   \* an idle sweep picked the connection and is about to disconnect it
  used      \* prompts, cancels, controls, sweeps and deaths so far

cards == <<perms, todo, reply, arrived, card, depth, tracked>>
turns == <<loop, flight, status>>
vars  == <<perms, todo, reply, arrived, card, depth, tracked, clicked, loop, cmds,
           flight, status, open, victim, used>>

Empty == [responders |-> {}, showing |-> None, waiting |-> <<>>]

Init ==
  /\ perms = Empty /\ todo = <<>> /\ reply = [i \in Requests |-> "none"] /\ arrived = <<>>
  /\ card = None /\ depth = 0 /\ tracked = {} /\ clicked = {}
  /\ loop = "idle" /\ cmds = <<>> /\ flight = FALSE /\ status = "connected"
  /\ open = TRUE /\ victim = FALSE
  /\ used = [prompts |-> 0, cancels |-> 0, controls |-> 0, sweeps |-> 0, deaths |-> 0]

Elems(s) == {s[n] : n \in DOMAIN s}
Event(type, i, n) == [type |-> type, id |-> i, n |-> n]
LockFree == todo = <<>>
Alive    == loop # "gone"
InTurn   == loop \in {"turn", "turn control"}
Spend(what, bound) == used[what] < bound /\ used' = [used EXCEPT ![what] = @ + 1]

-----------------------------------------------------------------------------
(* The queue. Every function below runs under its lock, and the caller emits  *)
(* the events it returns before it lets the lock go.                          *)

AdmitOverwrites(i) == [perms EXCEPT !.responders = @ \cup {i}, !.showing = i]
admit(i) ==
  IF perms.showing = None
  THEN [perms EXCEPT !.responders = @ \cup {i}, !.showing = i]
  ELSE [perms EXCEPT !.responders = @ \cup {i}, !.waiting = Append(@, i)]

ResolveNoPromote(i) ==
  [responders |-> perms.responders \ {i}, waiting |-> SelectSeq(perms.waiting, LAMBDA x : x # i),
   showing |-> IF perms.showing = i THEN None ELSE perms.showing]
ResolveLast(i) ==
  LET n == Len(perms.waiting) IN
  [responders |-> perms.responders \ {i}, waiting |-> SubSeq(perms.waiting, 1, n - 1),
   showing |-> IF n = 0 THEN None ELSE perms.waiting[n]]
resolve(i) ==
  IF perms.showing = i
  THEN [responders |-> perms.responders \ {i},
        showing    |-> IF perms.waiting = <<>> THEN None ELSE Head(perms.waiting),
        waiting    |-> IF perms.waiting = <<>> THEN <<>> ELSE Tail(perms.waiting)]
  ELSE [perms EXCEPT !.responders = @ \ {i},
                     !.waiting = SelectSeq(@, LAMBDA x : x # i)]

DrainKeepsShowing == [Empty EXCEPT !.showing = perms.showing]
drain == Empty

\* The clearing event a drain owes: cards that waited were never published.
NoCompensation == <<>>
Compensation ==
  IF perms.showing = None THEN <<>> ELSE <<Event("resolved", perms.showing, 0)>>

Tell(is, what) == reply' = [i \in Requests |-> IF i \in is THEN what ELSE reply[i]]

QueuedZero == 0
Queued == Len(perms'.waiting)

\* A request of the agent reaches the dispatch task.
admit_permission(i) ==
  /\ Alive /\ LockFree /\ i \notin Elems(arrived)
  /\ perms' = admit(i) /\ arrived' = Append(arrived, i)
  /\ todo' = <<IF perms'.showing = i THEN Event("request", i, 0)
                                     ELSE Event("depth", None, Queued)>>
  /\ UNCHANGED <<reply, card, depth, tracked, clicked, turns, cmds, open, victim, used>>

\* The promoted card goes out before the answered one is cleared.
Promoted == IF perms'.showing \notin {None, perms.showing}
            THEN <<Event("request", perms'.showing, Queued)>> ELSE <<>>
PublishedClearFirst(i) == <<Event("resolved", i, 0)>> \o Promoted
Published(i) == Promoted \o <<Event("resolved", i, 0)>>

resolve_permission(i) ==
  IF i \notin perms.responders
  THEN UNCHANGED cards
  ELSE /\ perms' = resolve(i) /\ Tell({i}, "selected")
       /\ todo' = Published(i)
       /\ UNCHANGED <<arrived, card, depth, tracked>>

Drained(follow_up) ==
  /\ perms' = drain /\ Tell(perms.responders, "cancelled")
  /\ todo' = Compensation \o follow_up
  /\ UNCHANGED <<arrived, card, depth, tracked>>

drain_permissions == Drained(<<>>)
drain_permissions_then_emit == Drained(<<Event("complete", None, 0)>>)

-----------------------------------------------------------------------------
(* Events: applied to the session state under its lock, then broadcast.       *)

apply_event(e) ==
  /\ card' = CASE e.type = "request"                  -> e.id
               [] e.type = "resolved" /\ card = e.id  -> None
               [] e.type = "complete"                 -> None
               [] OTHER                               -> card
  /\ depth' = IF e.type = "request" \/ (e.type = "depth" /\ card # None) THEN e.n ELSE depth
  /\ flight' = IF e.type = "complete" THEN FALSE ELSE flight
  /\ status' = IF e.type = "complete" THEN "connected" ELSE status

TrackAny(e) ==
  tracked' = IF e.type = "resolved" THEN tracked \ {e.id} ELSE tracked \cup {e.id}
track_request(e) ==
  tracked' = CASE e.type = "request"  -> tracked \cup {e.id}
               [] e.type = "resolved" -> tracked \ {e.id}
               [] OTHER               -> tracked

Emit ==
  /\ todo # <<>>
  /\ apply_event(Head(todo)) /\ track_request(Head(todo)) /\ todo' = Tail(todo)
  /\ UNCHANGED <<perms, reply, arrived, clicked, loop, cmds, open, victim, used>>

-----------------------------------------------------------------------------
(* Clients.                                                                   *)

Command(c, i) == cmds' = Append(cmds, [c |-> c, id |-> i])

GateOpen == status = "connected"
Gate     == ~flight

\* The gate and the enqueue have no await between them.
send_prompt_inner ==
  /\ open /\ Gate /\ flight' = TRUE /\ Command("prompt", None)
  /\ Spend("prompts", MaxPrompts)
  /\ UNCHANGED <<cards, clicked, loop, status, open, victim>>

\* A client answers the card it sees; another may have done so already.
respond_permission(cl) ==
  /\ open /\ card # None /\ <<cl, card>> \notin clicked
  /\ clicked' = clicked \cup {<<cl, card>>} /\ Command("respond", card)
  /\ UNCHANGED <<cards, turns, open, victim, used>>

cancel ==
  /\ open /\ Command("cancel", None) /\ Spend("cancels", MaxCancels)
  /\ UNCHANGED <<cards, clicked, turns, open, victim>>

\* SetMode, SetConfigOption, GoalControl, Steer: the loop awaits the agent's reply.
control ==
  /\ open /\ Command("control", None) /\ Spend("controls", MaxControls)
  /\ UNCHANGED <<cards, clicked, turns, open, victim>>

sweep_idle ==
  /\ open /\ ~victim /\ status = "connected" /\ card = None
  /\ victim' = TRUE /\ Spend("sweeps", MaxSweeps)
  /\ UNCHANGED <<cards, clicked, turns, cmds, open>>

disconnect ==
  /\ victim /\ victim' = FALSE
  /\ IF open THEN open' = FALSE /\ Command("disconnect", None) ELSE UNCHANGED <<open, cmds>>
  /\ UNCHANGED <<cards, clicked, turns, used>>

-----------------------------------------------------------------------------
(* run_conversation_loop.                                                     *)

Received(c) == cmds # <<>> /\ Head(cmds).c = c /\ cmds' = Tail(cmds)
Outside  == UNCHANGED <<clicked, open, victim, used>>

\* In a turn the prompt is dropped: the tripwire of the in-turn handler.
LoopPrompt ==
  /\ loop \in {"idle", "turn"} /\ Received("prompt") /\ loop' = "turn" /\ status' = "prompting"
  /\ UNCHANGED <<cards, flight>> /\ Outside

LoopRespond ==
  /\ loop \in {"idle", "turn"} /\ LockFree /\ Received("respond")
  /\ resolve_permission(Head(cmds).id) /\ UNCHANGED turns /\ Outside

LoopControl ==
  /\ loop \in {"idle", "turn"} /\ Received("control")
  /\ loop' = IF loop = "turn" THEN "turn control" ELSE "idle control"
  /\ UNCHANGED <<cards, flight, status>> /\ Outside

AgentReplies ==
  /\ loop \in {"turn control", "idle control"}
  /\ loop' = IF loop = "turn control" THEN "turn" ELSE "idle"
  /\ UNCHANGED <<cards, flight, status, cmds>> /\ Outside

LoopCancelTurn ==
  /\ loop = "turn" /\ LockFree /\ Received("cancel")
  /\ drain_permissions_then_emit /\ loop' = "ending" /\ UNCHANGED <<flight, status>> /\ Outside

LoopCancelIdle ==
  /\ loop = "idle" /\ LockFree /\ Received("cancel")
  /\ drain_permissions /\ UNCHANGED turns /\ Outside

\* The agent reports a stop reason, or answers the prompt request.
TurnEnds ==
  /\ loop = "turn" /\ LockFree
  /\ drain_permissions_then_emit /\ loop' = "ending" /\ UNCHANGED <<flight, status, cmds>> /\ Outside

TurnOver ==
  /\ loop = "ending" /\ LockFree /\ loop' = "idle" /\ status' = "connected"
  /\ UNCHANGED <<cards, flight, cmds>> /\ Outside

LoopDisconnect ==
  /\ loop \in {"idle", "turn"} /\ LockFree /\ Received("disconnect")
  /\ IF loop = "turn" THEN drain_permissions ELSE UNCHANGED cards
  /\ loop' = "leaving" /\ UNCHANGED <<flight, status>> /\ Outside

AgentDies ==
  /\ loop \notin {"leaving", "gone"} /\ Spend("deaths", MaxDeaths) /\ loop' = "leaving"
  /\ UNCHANGED <<cards, flight, status, cmds, clicked, open, victim>>

\* The connection's future is dropped, its responders with it.
Leave ==
  /\ loop = "leaving" /\ LockFree
  /\ loop' = "gone" /\ open' = FALSE /\ status' = "disconnected" /\ cmds' = <<>>
  /\ perms' = Empty /\ Tell(perms.responders, "dropped")
  /\ UNCHANGED <<todo, arrived, card, depth, tracked, clicked, flight, victim, used>>

Loop ==
  \/ LoopPrompt \/ LoopRespond \/ LoopControl
  \/ LoopCancelTurn \/ LoopCancelIdle \/ TurnOver \/ LoopDisconnect \/ Leave

Next ==
  \/ \E i \in Requests : admit_permission(i)
  \/ Emit \/ send_prompt_inner \/ cancel \/ control \/ sweep_idle \/ disconnect
  \/ \E cl \in Clients : respond_permission(cl)
  \/ Loop \/ AgentReplies \/ TurnEnds \/ AgentDies

Spec == Init /\ [][Next]_vars

(* Tasks of the runtime are scheduled, the agent answers a control request    *)
(* even while it is blocked on a permission, and some client answers each     *)
(* card it is shown. No turn need end.                                        *)
FairSpec ==
  /\ Spec /\ WF_vars(Emit) /\ WF_vars(Loop) /\ WF_vars(AgentReplies) /\ WF_vars(disconnect)
  /\ \A cl \in Clients : WF_vars(respond_permission(cl))

-----------------------------------------------------------------------------
TypeOK ==
  /\ perms.responders \subseteq Requests /\ perms.showing \in Requests \cup {None}
  /\ perms.waiting \in Seq(Requests) /\ arrived \in Seq(Requests)
  /\ card \in Requests \cup {None} /\ depth \in Nat /\ tracked \subseteq Requests
  /\ reply \in [Requests -> {"none", "selected", "cancelled", "dropped"}]
  /\ todo \in Seq([type : {"request", "depth", "resolved", "complete"},
                   id : Requests \cup {None}, n : Nat])
  /\ clicked \subseteq Clients \X Requests
  /\ cmds \in Seq([c : {"prompt", "cancel", "respond", "control", "disconnect"},
                   id : Requests \cup {None}])
  /\ loop \in {"idle", "turn", "idle control", "turn control", "ending", "leaving", "gone"}
  /\ status \in {"connected", "prompting", "disconnected"}
  /\ {flight, open, victim} \subseteq BOOLEAN
  /\ used \in [{"prompts", "cancels", "controls", "sweeps", "deaths"} -> Nat]

(* The invariant the doc comment of PermissionQueue states: what is shown or  *)
(* waits has a blocked responder, every responder is shown or waits, once,    *)
(* and nothing waits behind an empty screen.                                  *)
QueueSound ==
  /\ perms.responders = ({perms.showing} \ {None}) \cup Elems(perms.waiting)
  /\ perms.showing \notin Elems(perms.waiting)
  /\ \A m, n \in DOMAIN perms.waiting : perms.waiting[m] = perms.waiting[n] => m = n
  /\ perms.showing = None => perms.waiting = <<>>

(* Whenever the lock is free the card all clients see is the one the queue    *)
(* shows: no responder is blocked behind a card nobody can answer, and no     *)
(* card is up without a responder. Ends of turns clear the card blindly.      *)
CardIsShowing == LockFree /\ Alive => card = perms.showing

(* The card says how many wait behind it.                                     *)
DepthIsTrue == LockFree /\ card # None /\ Alive => depth = Len(perms.waiting)

(* Cards are shown in the order their requests came.                          *)
OldestFirst ==
  \A m, n \in DOMAIN arrived :
    (m < n /\ {arrived[m], arrived[n]} \subseteq perms.responders) => perms.showing # arrived[n]

(* A work task counts nothing as outstanding only when no request is blocked: *)
(* it does not leave awaiting_input between one card and the next.            *)
NoFlap == tracked # {} /\ tracked' = {} => perms.responders = {}

(* The gate lets no prompt reach a loop that is in a turn: none is dropped.   *)
NoPromptDropped == InTurn => \A n \in DOMAIN cmds : cmds[n].c # "prompt"

(* Every request the agent was blocked on has been answered or cancelled.     *)
AllAnswered == perms.responders = {} /\ \A n \in DOMAIN arrived : reply[arrived[n]] # "none"

(* "Prompting connections are always preserved (a turn is in flight)": the    *)
(* doc comment of sweep_idle.                                                 *)
SweepSparesTurns == open /\ ~open' /\ victim => ~flight
=============================================================================
