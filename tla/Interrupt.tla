------------------------------- MODULE Interrupt ------------------------------
(* "Stop and send": a collaboration message moves to the head of the queue of *)
(* its target Session and the running turn is cancelled, so that the message   *)
(* runs next.  The command (commands/collaboration.rs) and the operation it    *)
(* leaves in the tables (collaboration_interrupt_service.rs) are added to the  *)
(* workers, runtimes and clients of PromptQueue, which know nothing of it but  *)
(* the states of the operation and the pause it owns.                          *)
EXTENDS PromptQueue

VARIABLES
  cmd,     \* cmd[e]: where the command for message e stands
  proc,    \* proc[e]: the process that runs it
  link,    \* link[e]: the connection it started from is still there
  ended,   \* ended[w]: a TurnComplete waits on the event bus of process w
  turnOf   \* turnOf[w]: the queued prompt whose turn runs in w, if any (history)

interruptVars == <<cmd, proc, link, ended, turnOf>>
allVars == <<vars, interruptVars>>

Commands == {"none", "idle", "busy", "check", "observe", "cancel", "enqueued",
             "failing", "done"}

InterruptTypeOK ==
  /\ TypeOK
  /\ cmd \in [Events -> Commands]
  /\ proc \in [Events -> Workers \cup {None}]
  /\ link \in [Events -> BOOLEAN]
  /\ ended \in [Workers -> BOOLEAN]
  /\ turnOf \in [Workers -> Ids \cup {None}]

InterruptInit ==
  /\ Init
  /\ cmd = [e \in Events |-> "none"]
  /\ proc = [e \in Events |-> None]
  /\ link = [e \in Events |-> FALSE]
  /\ ended = [w \in Workers |-> FALSE]
  /\ turnOf = [w \in Workers |-> None]

Continue(e, from, to) == cmd[e] = from /\ cmd' = [cmd EXCEPT ![e] = to]
StillRunning(e)       == link[e] /\ TurnInFlight(proc[e])
InterruptUnchanged    == UNCHANGED <<proc, link, ended, turnOf, workerVars, runtimeVars>>

-------------------------------------------------------------------------------
(* The command for message e.                                                  *)

\* The policy and the runtime are read: the status must be Connected, and the
\* flag turn_in_flight decides what will be prepared.
StartInterrupt(e, w) ==
  /\ dlv[e] # "none" /\ policy /\ StatusConnected(w)
  /\ Continue(e, "none", IF TurnInFlight(w) THEN "busy" ELSE "idle")
  /\ proc' = [proc EXCEPT ![e] = w]
  /\ link' = [link EXCEPT ![e] = TRUE]
  /\ UNCHANGED <<ended, turnOf, vars>>

\* Faulty variant: MAX + 1.
IsBackPos(p) == IsNextPos(p)

\* SELECT COALESCE(MIN(position), 0) - 1 of a queue that holds the row.
IsFrontPos(p) == /\ \E i \in Live : p = item[i].pos - 1
                 /\ \A i \in Live : p < item[i].pos

\* prepare: an unmarked message goes to the front; if a turn was running the
\* queue is paused on behalf of the operation.
Preparable(i) == item[i].st = "queued" /\ pause = NotPaused /\ ActiveOps = {}
PrepareQueued(e) ==
  \E i \in Ids, p \in Positions :
    /\ op[e] = "none" /\ i[1] = e /\ Preparable(i) /\ IsFrontPos(p)
    /\ item' = [item EXCEPT ![i].pos = p]
    /\ \/ /\ Continue(e, "busy", "check")
          /\ op' = [op EXCEPT ![e] = "cancelling"]
          /\ pause' = Pause("interrupt", e)
       \/ /\ Continue(e, "idle", "done")
          /\ op' = [op EXCEPT ![e] = "ready"]
          /\ UNCHANGED pause
    /\ Bump
    /\ UNCHANGED <<draft, gen, fate, dlv, policy>>

\* A message that is being dispatched, or was, needs nothing but a record.
PrepareLate(e) ==
  /\ op[e] = "none"
  /\ \/ dlv[e] = "embedded" /\ op' = [op EXCEPT ![e] = "completed"]
     \/ dlv[e] = "embedding" /\ ActiveOps = {} /\ op' = [op EXCEPT ![e] = "dispatching"]
  /\ UNCHANGED <<item, pause, fresh, draft, gen, fate, dlv, policy>>

\* The operation exists already, the row is held or paused, the queue is paused
\* or another operation is active: an error, and nothing is written.
PrepareRefused(e) ==
  /\ \/ op[e] # "none" \/ dlv[e] = "failed"
     \/ dlv[e] = "queued" /\ ~\E i \in Ids : i[1] = e /\ Preparable(i)
     \/ dlv[e] = "embedding" /\ ActiveOps # {}
  /\ UNCHANGED storeVars

Prepare(e) ==
  /\ \/ PrepareQueued(e)
     \/ /\ PrepareLate(e) \/ PrepareRefused(e)
        /\ cmd[e] \in {"idle", "busy"} /\ cmd' = [cmd EXCEPT ![e] = "done"]
  /\ InterruptUnchanged

\* Is the turn still running?  If not, no Cancel must be sent.
CheckTurn(e) ==
  /\ Continue(e, "check", IF StillRunning(e) THEN "cancel" ELSE "observe")
  /\ InterruptUnchanged /\ UNCHANGED storeVars

ObserveNow(e) ==
  /\ Continue(e, "observe", "enqueued")
  /\ \/ ObserveTerminal
     \/ /\ \A x \in Events : op[x] \notin {"cancelling", "waiting"}
        /\ UNCHANGED storeVars
  /\ InterruptUnchanged

\* manager.cancel waits for prompt_lock and puts Cancel on the command channel.
\* The loop reads it after the prompts before it and ends the turn it finds
\* (TurnEnds); an idle loop ignores it.
CancelRunningTurn(e) ==
  /\ Continue(e, "cancel", IF link[e] THEN "enqueued" ELSE "failing")
  /\ link[e] => PromptLockFree(proc[e])
  /\ InterruptUnchanged /\ UNCHANGED storeVars

\* mark_cancel_enqueued.
MarkCancelEnqueued(e) ==
  /\ Continue(e, "enqueued", "done")
  /\ CASE op[e] = "cancelling" -> /\ op' = [op EXCEPT ![e] = "waiting"]
                                  /\ UNCHANGED <<pause, fresh>>
       [] op[e] = "observed"   -> /\ op' = [op EXCEPT ![e] = "ready"]
                                  /\ ClearOwnedPause(e)
       [] OTHER                -> UNCHANGED <<op, pause, fresh>>
  /\ UNCHANGED <<item, draft, gen, fate, dlv, policy>>
  /\ InterruptUnchanged

\* mark_cancel_failed.
MarkCancelFailed(e) ==
  /\ Continue(e, "failing", "done")
  /\ op' = [op EXCEPT ![e] = IF @ \in {"cancelling", "observed"} THEN "failed" ELSE @]
  /\ IF pause = Pause("interrupt", e)
     THEN pause' = Pause("interrupt_failed", e) /\ Bump
     ELSE UNCHANGED <<pause, fresh>>
  /\ UNCHANGED <<item, draft, gen, fate, dlv, policy>>
  /\ InterruptUnchanged

\* The request is dropped between two of its steps: a database error, or a
\* client that went away.
Abandon(e) ==
  /\ cmd[e] \notin {"none", "done"}
  /\ cmd' = [cmd EXCEPT ![e] = "done"]
  /\ InterruptUnchanged /\ UNCHANGED storeVars

-------------------------------------------------------------------------------
(* The event bus.                                                              *)

\* on_acp_event: a TurnComplete is handled some time after the turn has ended.
OnTurnComplete(w) ==
  /\ At(w, "idle") /\ ended[w]
  /\ ended' = [ended EXCEPT ![w] = FALSE]
  /\ \/ ObserveTerminal
     \/ /\ \A e \in Events : op[e] \notin {"cancelling", "waiting"}
        /\ UNCHANGED storeVars
  /\ UNCHANGED <<cmd, proc, link, turnOf, workerVars, runtimeVars>>

\* A receiver that lags loses the event and sweeps instead.
BusLags(w) ==
  /\ At(w, "idle") /\ ended[w]
  /\ ended' = [ended EXCEPT ![w] = FALSE]
  /\ ReadPolicy(w)
  /\ UNCHANGED <<cmd, proc, link, turnOf>>

\* What a step of the rest of the system means here: a turn that ends is put on
\* the bus, a connection that ends takes its events with it, and the commands of
\* a lost process are gone.
Follow ==
  /\ ended' = [w \in Workers |-> IF conn'[w] = "none" THEN FALSE
                                 ELSE ended[w] \/ (TurnInFlight(w) /\ ~TurnInFlight(w)')]
  /\ turnOf' = [w \in Workers |-> IF ~TurnInFlight(w)' THEN None
                                  ELSE IF TurnInFlight(w) THEN turnOf[w]
                                  ELSE IF handed' # handed THEN held[w]
                                  ELSE None]
  /\ link' = [e \in Events |-> link[e] /\ conn'[proc[e]] # "none"]
  /\ UNCHANGED proc
Lose(w) == cmd' = [e \in Events |-> IF proc[e] = w THEN "done" ELSE cmd[e]]
Base ==
  /\ \/ Next /\ UNCHANGED <<crashes, cmd>>
     \/ \E w \in Workers : Crash(w) /\ Lose(w)
  /\ Follow

InterruptStep(e) ==
  \/ \E w \in Workers : StartInterrupt(e, w)
  \/ Prepare(e) \/ CheckTurn(e) \/ ObserveNow(e) \/ CancelRunningTurn(e)
  \/ MarkCancelEnqueued(e) \/ MarkCancelFailed(e) \/ Abandon(e)

InterruptNext ==
  \/ Base
  \/ \E e \in Events : InterruptStep(e)
  \/ \E w \in Workers : OnTurnComplete(w) \/ BusLags(w)

InterruptSpec == InterruptInit /\ [][InterruptNext]_allVars

-------------------------------------------------------------------------------
(* Safety.                                                                     *)

\* A queue is paused on behalf of an operation only while that operation still
\* waits for its turn to end: recovery, failure and the end of the turn, in any
\* order, never leave behind a pause that nobody will lift.
PauseOwned ==
  pause.kind = "interrupt" => op[pause.by] \in {"cancelling", "observed", "waiting"}

\* The message of an interrupt that waits for its turn stands at the head of the
\* queue: neither a reordering, a later message, a retry nor a recovery overtakes
\* it.
SavedMessageIsNext ==
  \A i \in Live : IsOrigin(i) /\ op[i[1]] \in {"cancelling", "observed", "waiting"}
                    => Head(i)

\* An interrupt never cancels the turn that runs its own message.
CancelSparesOwnTurn ==
  [][\A e \in Events :
       cmd[e] = "cancel" /\ cmd'[e] = "enqueued"
         => ~\E n \in 0..MaxGen : turnOf[proc[e]] = <<e, n>>]_allVars

\* The operation completes with the acceptance of its message: it does not stay
\* active, where it would refuse every later interrupt of this Session.
AcceptanceCompletes == \A e \in Events : dlv[e] = "embedded" => e \notin ActiveOps

-------------------------------------------------------------------------------
(* Liveness.                                                                   *)

\* As in PromptQueue; a cancelling operation grows older than a minute.
StaleSweep(w) == SweepInterrupts(w) /\ \A e \in Events : op'[e] # "cancelling"
InterruptFairness ==
  Fairness /\ \A w \in Workers : SF_vars(StaleSweep(w))
InterruptFairSpec == InterruptSpec /\ InterruptFairness

\* No interrupt blocks the queue of a connected Session for ever, whatever
\* becomes of the command, its connection and its process.
InterruptSettles ==
  \A w \in Workers : ~<>[](conn[w] # "none" /\ pause.kind = "interrupt")
===============================================================================
