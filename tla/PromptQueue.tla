----------------------------- MODULE PromptQueue ------------------------------
(* The queue workers of prompt_queue.rs, the connections they dispatch to     *)
(* (acp/manager.rs, acp/connection.rs, acp/session_state.rs) and the clients   *)
(* of one Session, over the tables of QueueStore.  Every await of the worker   *)
(* separates two steps: what it read may be stale in the next one.             *)
EXTENDS QueueStore

CONSTANTS
  SteerEvents,   \* the events sent with delivery_hint = steer_if_supported
  Faults,        \* may a database call of a worker fail?
  MaxCrashes,    \* bound on process losses
  UserCancels,   \* may a user cancel a turn by hand?
  PolicyChanges, \* may the settings be changed?
  OutsideSends   \* may somebody send a prompt that is not in the queue?

ASSUME SteerAssumption  == SteerEvents \subseteq Events
ASSUME FaultsAssumption == Faults \in BOOLEAN /\ MaxCrashes \in Nat
ASSUME UsersAssumption  == {UserCancels, PolicyChanges, OutsideSends} \subseteq BOOLEAN

VARIABLES
  pc,       \* pc[w]: where worker w stands
  held,     \* held[w]: id of the ClaimedPromptQueueItem w carries
  text,     \* text[w]: the draft version read at the claim
  steer,    \* steer[w]: w runs process_native_steer
  bound,    \* bound[w]: the connection that w found is still there
  conn,     \* conn[w]: w's connection to the Session's Harness
  saving,   \* a settings command that has written the policy: "on"/"off"
  halt,     \* halt[w]: progress of a user's cancel through process w
  crashes,  \* number of process losses so far
  handed,   \* handed[i]: times prompt i was put on a Harness channel (history)
  onWire    \* ids the Harness transport is known to have taken (history)

workerVars == <<pc, held, text, steer, bound>>
vars == <<storeVars, workerVars, conn, saving, halt, crashes, handed, onWire>>

Steps == {"idle", "look", "seen", "freeze", "recheck", "mark", "refuse",
          "send", "admitted", "ack", "accept", "uncertain", "release", "fail",
          "reread", "reconcileOn", "reconcileOff", "sweepOps", "sweepClaims"}
\* none: no connection.  admitting: an outside send was admitted and holds
\* prompt_lock.  accepted: turn_in_flight, the connection loop has not dequeued
\* the prompt yet.  prompting: the turn runs, status is Prompting.
Runtimes == {"none", "idle", "admitting", "accepted", "prompting"}
Halts    == {"no", "pausing", "halted"}

TypeOK ==
  /\ StoreTypeOK
  /\ pc \in [Workers -> Steps]
  /\ held \in [Workers -> Ids \cup {None}]
  /\ text \in [Workers -> 0..MaxEdits]
  /\ steer \in [Workers -> BOOLEAN]
  /\ bound \in [Workers -> BOOLEAN]
  /\ conn \in [Workers -> Runtimes]
  /\ saving \in {"no", "on", "off"}
  /\ halt \in [Workers -> Halts]
  /\ crashes \in 0..MaxCrashes
  /\ handed \in [Ids -> 0..2]
  /\ onWire \subseteq Ids

Init ==
  /\ StoreInit
  /\ pc = [w \in Workers |-> "idle"]
  /\ held = [w \in Workers |-> None]
  /\ text = [w \in Workers |-> 0]
  /\ steer = [w \in Workers |-> FALSE]
  /\ bound = [w \in Workers |-> FALSE]
  /\ conn = [w \in Workers |-> "none"]
  /\ saving = "no"
  /\ halt = [w \in Workers |-> "no"]
  /\ crashes = 0
  /\ handed = [i \in Ids |-> 0]
  /\ onWire = {}

TurnInFlight(w)     == conn[w] \in {"accepted", "prompting"}
StatusConnected(w)  == conn[w] \in {"idle", "admitting", "accepted"}
NoTurn(w)           == conn[w] \in {"idle", "admitting"}
\* is_session_runtime_active: the handle of process w sees a live runtime.
SessionRuntimeActive(w) == StatusConnected(w)
\* prompt_lock of w's connection: held by the worker, or by an outside send, from
\* the admission to the end of the send.
PromptLockFree(w)   == /\ conn[w] # "admitting"
                       /\ bound[w] => pc[w] \notin {"admitted", "ack"}

Goto(w, l) == pc' = [pc EXCEPT ![w] = l]
At(w, l)   == pc[w] = l
\* The worker drops the item it carries and returns to its select! loop.
Done(w) == /\ Goto(w, "idle")
           /\ held' = [held EXCEPT ![w] = None]
           /\ text' = [text EXCEPT ![w] = 0]
           /\ steer' = [steer EXCEPT ![w] = FALSE]
           /\ bound' = [bound EXCEPT ![w] = FALSE]
Found(w) == bound' = [bound EXCEPT ![w] = TRUE]
Step(w, from, to) == /\ At(w, from) /\ Goto(w, to)
                     /\ UNCHANGED <<held, text, steer, bound>>

runtimeVars == <<conn, saving, halt, crashes, handed, onWire>>

-------------------------------------------------------------------------------
(* process(): one pass of worker w over the Session.                           *)

\* The idle snapshot: a connected runtime without a turn.
Observe(w) ==
  /\ NoTurn(w)
  /\ At(w, "idle") /\ Goto(w, "look") /\ Found(w)
  /\ UNCHANGED <<held, text, steer, storeVars, runtimeVars>>

\* reconcile_interrupt_terminal, on the strength of that snapshot.
TellInterrupt(w) ==
  /\ Step(w, "look", "seen")
  /\ \/ ObserveTerminal
     \/ /\ \A e \in Events : op[e] \notin {"cancelling", "waiting"}
        /\ UNCHANGED storeVars
  /\ UNCHANGED runtimeVars

\* A turn is in flight while status still is Connected: only a head that asks
\* for native steering is taken further.
ObserveBusy(w) ==
  /\ conn[w] = "accepted"
  /\ HeadRequestsNativeSteer(SteerEvents)
  /\ At(w, "idle") /\ Goto(w, "seen") /\ Found(w)
  /\ steer' = [steer EXCEPT ![w] = TRUE]
  /\ UNCHANGED <<held, text, storeVars, runtimeVars>>

Claim(w) ==
  /\ At(w, "seen")
  /\ \E i \in Ids :
       /\ ClaimHead(w, i)
       /\ held' = [held EXCEPT ![w] = i]
       /\ text' = [text EXCEPT ![w] = IF IsOrigin(i) THEN 0 ELSE draft[i[1]]]
       /\ Goto(w, IF steer[w] /\ i[1] \notin SteerEvents THEN "release" ELSE "freeze")
  /\ UNCHANGED <<steer, bound, runtimeVars>>

\* The claim commits and the read of the snapshot after it fails: no worker
\* carries the claimed row.
ClaimOrphaned(w) ==
  /\ Faults
  /\ At(w, "seen")
  /\ \E i \in Ids : ClaimHead(w, i)
  /\ Done(w)
  /\ UNCHANGED runtimeVars

ClaimNothing(w) ==
  /\ At(w, "seen")
  /\ pause # NotPaused \/ QueuedRows = {} \/ Faults
  /\ Done(w)
  /\ UNCHANGED <<storeVars, runtimeVars>>

\* freeze_claim_if_collaboration_disabled, before the dispatch ("freeze") and
\* after a refused mark ("refuse").
FreezeCheck(w) ==
  /\ pc[w] \in {"freeze", "refuse"}
  /\ Goto(w, IF IsOrigin(held[w]) /\ ~policy THEN "reread"
             ELSE IF At(w, "freeze") THEN "recheck" ELSE "release")
  /\ UNCHANGED <<held, text, steer, bound, storeVars, runtimeVars>>

\* An unreadable policy fails closed: the claim is left to its lease.
PolicyUnreadable(w) ==
  /\ Faults
  /\ pc[w] \in {"freeze", "refuse"} /\ IsOrigin(held[w])
  /\ Done(w)
  /\ UNCHANGED <<storeVars, runtimeVars>>

\* reconcile_collaboration_policy reads the policy (again), then converges the
\* rows to what it read.  It opens every sweep, where no item is held.
ReadPolicy(w) ==
  /\ pc[w] \in {"idle", "reread"}
  /\ Goto(w, IF policy THEN "reconcileOn" ELSE "reconcileOff")
  /\ UNCHANGED <<held, text, steer, bound, storeVars, runtimeVars>>

\* Faulty variant: a sweep freezes, and leaves thawing to the settings command.
ReconcileFreezes(w) ==
  /\ \/ At(w, "reconcileOn") /\ UNCHANGED storeVars
     \/ At(w, "reconcileOff") /\ Reconcile(FALSE)
  /\ IF held[w] = None THEN Goto(w, "sweepOps") /\ UNCHANGED <<held, text, steer, bound>>
                       ELSE Done(w)
  /\ UNCHANGED runtimeVars

ReconcilePolicy(w) ==
  /\ \/ At(w, "reconcileOn") /\ Reconcile(TRUE)
     \/ At(w, "reconcileOff") /\ Reconcile(FALSE)
  /\ IF held[w] = None THEN Goto(w, "sweepOps") /\ UNCHANGED <<held, text, steer, bound>>
                       ELSE Done(w)
  /\ UNCHANGED runtimeVars

\* The runtime, the working directory and the mode are checked after the claim:
\* the connection found before must be there, and still be without a turn (for
\* a steer: still with one).
Recheck(w) ==
  /\ At(w, "recheck")
  /\ \E to \in {"mark", "release", "fail"} :
       /\ IF bound[w] /\ (IF steer[w] THEN conn[w] = "accepted" ELSE NoTurn(w))
          THEN to = "release" => steer[w]
          ELSE to = "release"
       /\ Goto(w, to)
  /\ UNCHANGED <<held, text, steer, bound, storeVars, runtimeVars>>

\* mark_dispatch_started; its compare-and-set may fail, and so may its
\* transaction, which then leaves no trace.
Mark(w) ==
  /\ At(w, "mark")
  /\ \/ MarkDispatchStarted(w, held[w]) /\ Goto(w, "send")
     \/ /\ ~MayStart(w, held[w])
        /\ Goto(w, "refuse")
        /\ UNCHANGED storeVars
     \/ /\ \/ Faults
           \/ /\ MayStart(w, held[w]) /\ IsOrigin(held[w])
              /\ dlv[held[w][1]] # "queued"
        /\ Goto(w, "release")
        /\ UNCHANGED storeVars
  /\ UNCHANGED <<held, text, steer, bound, runtimeVars>>

\* send_prompt_linked_with_message_id up to the admission, under prompt_lock:
\* no connection, a turn in flight, a prompt that cannot be hydrated, a queue
\* that gives priority to another row.
Admit(w) ==
  /\ At(w, "send") /\ ~steer[w]
  /\ \/ ~bound[w] /\ Goto(w, "fail")
     \/ bound[w] /\ TurnInFlight(w) /\ Goto(w, "release")
     \/ bound[w] /\ conn[w] = "idle" /\ Goto(w, "fail")
     \/ /\ bound[w] /\ conn[w] = "idle"
        /\ Goto(w, IF SendIsAdmitted(held[w]) THEN "admitted" ELSE "release")
  /\ UNCHANGED <<held, text, steer, bound, storeVars, runtimeVars>>

Hand(i) == handed' = [handed EXCEPT ![i] = IF @ < 2 THEN @ + 1 ELSE @]

\* Faulty variant: a collaboration prompt does not wait for the confirmation.
HandOverBlindly(w) ==
  /\ At(w, "admitted") /\ bound[w] /\ conn[w] = "idle"
  /\ conn' = [conn EXCEPT ![w] = "accepted"]
  /\ Hand(held[w]) /\ Goto(w, "accept")
  /\ UNCHANGED <<held, text, steer, bound, storeVars, saving, halt, crashes, onWire>>

\* send_prompt_inner sets turn_in_flight and puts the prompt on the command
\* channel.  A collaboration prompt, or one that carries store-only mail, waits
\* for the loop to confirm that it was put on the transport.
HandOver(w) ==
  /\ At(w, "admitted") /\ bound[w] /\ conn[w] = "idle"
  /\ conn' = [conn EXCEPT ![w] = "accepted"]
  /\ Hand(held[w])
  /\ \E to \in {"ack", "accept"} : (IsOrigin(held[w]) => to = "ack") /\ Goto(w, to)
  /\ UNCHANGED <<held, text, steer, bound, storeVars, saving, halt, crashes, onWire>>

\* Faulty variant: the failed send counts as accepted.
SendFailsQuietly(w) ==
  /\ ~bound[w]
  /\ Step(w, "admitted", "accept")
  /\ UNCHANGED <<storeVars, runtimeVars>>

SendFails(w) ==
  /\ ~bound[w]
  /\ Step(w, "admitted", "fail")
  /\ UNCHANGED <<storeVars, runtimeVars>>

\* try_submit_native_feedback: injected into the running turn, refused while
\* still owned by the queue, or broken off with an unknown outcome.
SteerInjected(w) ==
  /\ At(w, "send") /\ steer[w] /\ bound[w] /\ conn[w] = "prompting"
  /\ Hand(held[w])
  /\ \/ Goto(w, "accept") /\ onWire' = onWire \cup {held[w]}
     \/ Goto(w, "uncertain") /\ UNCHANGED onWire
  /\ UNCHANGED <<held, text, steer, bound, storeVars, conn, saving, halt, crashes>>

SteerNotTaken(w) ==
  /\ At(w, "send") /\ steer[w]
  /\ Goto(w, "release") \/ Goto(w, "uncertain")
  /\ UNCHANGED <<held, text, steer, bound, storeVars, runtimeVars>>

\* accept_after_dispatch.  A committed acceptance whose response was lost is
\* found done by the retry; when all retries fail the outcome is unknown.
Accept(w) ==
  /\ At(w, "accept")
  /\ \/ AcceptClaim(w, held[w])
     \/ item[held[w]].st = "absent" /\ UNCHANGED storeVars
  /\ \/ Done(w)
     \/ Faults /\ Goto(w, "uncertain") /\ UNCHANGED <<held, text, steer, bound>>
  /\ UNCHANGED runtimeVars

AcceptFails(w) ==
  /\ Step(w, "accept", "uncertain")
  /\ Faults \/ (item[held[w]].st # "absent" /\ ~MayFinish(w, held[w]))
  /\ UNCHANGED <<storeVars, runtimeVars>>

PauseUnknown(w) ==
  /\ At(w, "uncertain")
  /\ \/ PauseDispatchUnknown(held[w])
     \/ ~item[held[w]].started /\ UNCHANGED storeVars
  /\ Done(w)
  /\ UNCHANGED runtimeVars

Release(w) ==
  /\ At(w, "release")
  /\ \/ ReleaseClaimBusy(w, held[w])
     \/ ~MayFinish(w, held[w]) /\ UNCHANGED storeVars
  /\ Done(w)
  /\ UNCHANGED runtimeVars

Fail(w) ==
  /\ At(w, "fail")
  /\ \/ FailClaim(w, held[w])
     \/ ~Owns(w, held[w]) /\ UNCHANGED storeVars
  /\ Done(w)
  /\ UNCHANGED runtimeVars

\* The last word on an item is only logged when the database refuses it.
GiveUp(w) ==
  /\ Faults
  /\ pc[w] \in {"uncertain", "release", "fail"}
  /\ Done(w)
  /\ UNCHANGED <<storeVars, runtimeVars>>

-------------------------------------------------------------------------------
(* recover_and_scan(): after the policy, interrupt operations, then leases.    *)
(* The passes it makes over waiting and pending Sessions start from "idle".    *)

\* Faulty variant: nothing is recovered.
SweepNothing(w) == Step(w, "sweepOps", "sweepClaims") /\ UNCHANGED <<storeVars, runtimeVars>>

SweepInterrupts(w) ==
  /\ Step(w, "sweepOps", "sweepClaims")
  /\ \E stale \in SUBSET {e \in Events : op[e] = "cancelling"} : RecoverInterrupts(stale)
  /\ UNCHANGED runtimeVars

SweepClaims(w) ==
  /\ At(w, "sweepClaims")
  /\ RecoverExpiredClaims \/ (ExpiredClaims = {} /\ UNCHANGED storeVars)
  /\ Done(w)
  /\ UNCHANGED runtimeVars

-------------------------------------------------------------------------------
(* Processes, connections and time.                                            *)

\* A backend process dies with its connections; a restart has a new worker id.
Crash(w) ==
  /\ crashes < MaxCrashes
  /\ crashes' = crashes + 1
  /\ item' = [i \in Ids |-> IF Owns(w, i) THEN [item[i] EXCEPT !.owner = Gone]
                                         ELSE item[i]]
  /\ Done(w)
  /\ conn' = [conn EXCEPT ![w] = "none"]
  /\ halt' = [halt EXCEPT ![w] = "no"]
  /\ UNCHANGED <<pause, fresh, draft, gen, fate, dlv, op, policy, saving, handed, onWire>>

\* The lease of a claim runs out, whatever its worker is doing.
Expire(i) ==
  /\ item[i].st = "claimed" /\ ~item[i].expired
  /\ item' = [item EXCEPT ![i] = [@ EXCEPT !.expired = TRUE]]
  /\ UNCHANGED <<pause, fresh, draft, gen, fate, dlv, op, policy, workerVars, runtimeVars>>

ConnStarts(w) ==
  /\ conn[w] = "none"
  /\ conn' = [conn EXCEPT ![w] = "idle"]
  /\ UNCHANGED <<storeVars, workerVars, saving, halt, crashes, handed, onWire>>

\* Faulty variant: a lost confirmation is treated as a busy Harness.
ConnDiesBusy(w) ==
  /\ conn[w] # "none"
  /\ conn' = [conn EXCEPT ![w] = "none"]
  /\ halt' = [halt EXCEPT ![w] = "no"]
  /\ bound' = [bound EXCEPT ![w] = FALSE]
  /\ pc' = [pc EXCEPT ![w] = IF @ = "ack" THEN "release" ELSE @]
  /\ UNCHANGED <<storeVars, held, text, steer, saving, crashes, handed, onWire>>

\* A connection that ends drops the channel: a confirmation will not come.
ConnDies(w) ==
  /\ conn[w] # "none"
  /\ conn' = [conn EXCEPT ![w] = "none"]
  /\ halt' = [halt EXCEPT ![w] = "no"]
  /\ bound' = [bound EXCEPT ![w] = FALSE]
  /\ pc' = [pc EXCEPT ![w] = IF @ = "ack" THEN "uncertain" ELSE @]
  /\ UNCHANGED <<storeVars, held, text, steer, saving, crashes, handed, onWire>>

\* The connection loop takes the prompt, turns status to Prompting, puts the
\* request on the transport and confirms.
LoopDequeue(w) ==
  /\ conn[w] = "accepted"
  /\ conn' = [conn EXCEPT ![w] = "prompting"]
  /\ pc' = [pc EXCEPT ![w] = IF @ = "ack" THEN "accept" ELSE @]
  /\ onWire' = IF At(w, "ack") THEN onWire \cup {held[w]} ELSE onWire
  /\ UNCHANGED <<storeVars, held, text, steer, bound, saving, halt, crashes, handed>>

\* TurnComplete clears turn_in_flight and returns status to Connected.
TurnEnds(w) ==
  /\ conn[w] = "prompting"
  /\ conn' = [conn EXCEPT ![w] = "idle"]
  /\ UNCHANGED <<storeVars, workerVars, saving, halt, crashes, handed, onWire>>

\* An ordinary send or a chat channel's: admitted under prompt_lock, then put on
\* the command channel or given up.
AdHocAdmit(w) ==
  /\ OutsideSends
  /\ conn[w] = "idle" /\ PromptLockFree(w)
  /\ SendIsAdmitted(None)
  /\ conn' = [conn EXCEPT ![w] = "admitting"]
  /\ UNCHANGED <<storeVars, workerVars, saving, halt, crashes, handed, onWire>>

AdHocSend(w) ==
  /\ conn[w] = "admitting"
  /\ \E to \in {"accepted", "idle"} : conn' = [conn EXCEPT ![w] = to]
  /\ UNCHANGED <<storeVars, workerVars, saving, halt, crashes, handed, onWire>>

-------------------------------------------------------------------------------
(* Commands of the clients.                                                    *)

ClientUnchanged == UNCHANGED <<workerVars, conn, saving, crashes, handed, onWire>>

\* persist_collaboration_message: a target without an active runtime needs a
\* confirmation.  The command runs in the process of worker w.
Send(e, w) == SendEvent(e, ~SessionRuntimeActive(w)) /\ ClientUnchanged /\ UNCHANGED halt

EditQueue ==
  /\ \/ \E m \in Msgs : Enqueue(m)
     \/ \E i \in Ids : Edit(i) \/ Delete(i)
     \/ Reorder
     \/ Refresh
  /\ ClientUnchanged /\ UNCHANGED halt

\* The user sets the queue going again.  A message that waits for confirmation
\* needs a runtime; it is read before the transaction, whose revision check
\* makes the two one step.
ResumeOrRetry ==
  /\ \/ ResumeQueue
     \/ \E i \in Ids : /\ item[i].why = "inactive"
                            => \E w \in Workers : SessionRuntimeActive(w)
                       /\ RetryItem(i)
  /\ halt' = [w \in Workers |-> "no"]
  /\ ClientUnchanged

\* acp_cancel_core pauses a queue that has rows, then cancels the turn; Cancel
\* waits for prompt_lock and is read by the loop after the prompts before it.
CancelPauses(w) ==
  /\ UserCancels
  /\ conn[w] # "none" /\ halt[w] = "no"
  /\ PauseQueueIfPending
  /\ halt' = [halt EXCEPT ![w] = "pausing"]
  /\ ClientUnchanged

CancelTurn(w) ==
  /\ halt[w] = "pausing"
  /\ PromptLockFree(w) /\ conn[w] \in {"idle", "prompting"}
  /\ conn' = [conn EXCEPT ![w] = "idle"]
  /\ halt' = [halt EXCEPT ![w] = "halted"]
  /\ UNCHANGED <<storeVars, workerVars, saving, crashes, handed, onWire>>

\* set_session_collaboration_settings_core writes the policy, then converges
\* the rows to the value it wrote.
SavePolicy(enabled) ==
  /\ PolicyChanges
  /\ saving = "no" /\ enabled # policy
  /\ UpsertPolicy(enabled)
  /\ saving' = IF enabled THEN "on" ELSE "off"
  /\ UNCHANGED <<workerVars, conn, halt, crashes, handed, onWire>>

ApplyPolicy ==
  /\ saving # "no"
  /\ Reconcile(saving = "on")
  /\ saving' = "no"
  /\ UNCHANGED <<workerVars, conn, halt, crashes, handed, onWire>>

-------------------------------------------------------------------------------
WorkerStep(w) ==
  \/ Observe(w) \/ TellInterrupt(w) \/ ObserveBusy(w)
  \/ Claim(w) \/ ClaimOrphaned(w) \/ ClaimNothing(w)
  \/ FreezeCheck(w) \/ PolicyUnreadable(w)
  \/ Recheck(w) \/ Mark(w) \/ Admit(w) \/ HandOver(w) \/ SendFails(w)
  \/ SteerInjected(w) \/ SteerNotTaken(w)
  \/ Accept(w) \/ AcceptFails(w) \/ PauseUnknown(w)
  \/ Release(w) \/ Fail(w) \/ GiveUp(w)
  \/ ReadPolicy(w) \/ ReconcilePolicy(w)
  \/ SweepInterrupts(w) \/ SweepClaims(w)

RuntimeStep(w) ==
  \/ ConnStarts(w) \/ ConnDies(w) \/ LoopDequeue(w) \/ TurnEnds(w)
  \/ AdHocAdmit(w) \/ AdHocSend(w) \/ Crash(w)

ClientStep ==
  \/ EditQueue \/ ResumeOrRetry
  \/ \E w \in Workers : CancelPauses(w) \/ CancelTurn(w)
  \/ \E e \in Events, w \in Workers : Send(e, w)
  \/ \E enabled \in BOOLEAN : SavePolicy(enabled)
  \/ ApplyPolicy

Next ==
  \/ \E w \in Workers : WorkerStep(w) \/ RuntimeStep(w)
  \/ \E i \in Ids : Expire(i)
  \/ ClientStep

Spec == Init /\ [][Next]_vars

-------------------------------------------------------------------------------
(* Safety.                                                                     *)

\* A queued prompt is put on a Harness channel at most once under one message
\* id, whatever leases expire, processes die, responses get lost, and workers
\* of other processes do: replaying a coding prompt repeats its side effects.
AtMostOnce == \A i \in Ids : handed[i] <= 1

\* The dispatch mark is the boundary of automatic replay: a prompt that was
\* handed over is out of the table, or marked and claimed, or parked with its
\* mark for a human.  Neither lease recovery, a busy release nor the policy
\* thaw ever finds it in a row they return to the queue.
HandedIsMarked ==
  \A i \in Ids : handed[i] > 0 => item[i].st = "absent" \/ item[i].started

\* A subject has at most one row: renaming by a retry, resends and recovery
\* never leave two identities of one message in the queue.
SingleRow == \A i, j \in Live : i[1] = j[1] => i = j

\* collaboration_delivery and the queue move in step although different calls
\* update them: the delivery state is determined by the row of its event.
DeliveryOf(i) ==
  CASE item[i].st = "claimed" /\ item[i].started      -> {"embedding"}
    [] item[i].st = "paused"
         /\ item[i].why \in {"unknown", "failed"}      -> {"failed"}
    [] OTHER                                           -> {"queued"}
DeliveryInStep ==
  \A e \in Events :
    LET rows == {i \in Live : i[1] = e}
    IN  /\ \A i \in rows : dlv[e] \in DeliveryOf(i)
        /\ rows = {} => dlv[e] \in {"none", "embedded"}

\* The sender of a collaboration message is told "embedded" only for a prompt
\* that is known to have reached the transport, under one of its identities.
EmbeddedWasOnWire ==
  \A e \in Events : dlv[e] = "embedded" => \E i \in onWire : i[1] = e

\* Nothing is lost without a trace: a message that was submitted and is not in
\* the queue was handed over, or deleted by its user.
NoSilentLoss ==
  \A s \in Subjects :
    fate[s] = "submitted" /\ (\A i \in Live : i[1] # s)
      => \E i \in Ids : i[1] = s /\ handed[i] > 0

\* The limit on the length of the queue holds on both ways into it.
QueueBounded == Cardinality(Live) <= MaxQueue

\* A prompt about to be dispatched carries the text its user saved last: edits
\* are refused from the claim on, and a claim that was lost, recovered and
\* edited in between is caught by the mark.
Beyond(w) == pc[w] \in {"send", "admitted"}
DispatchesSavedText ==
  \A w \in Workers, m \in Msgs :
    Beyond(w) /\ held[w][1] = m /\ Owns(w, held[w]) => text[w] = draft[m]

\* What a client sees of the queue changes only with the revision, so that no
\* command is applied to a queue its user has not seen.
Visible == <<[i \in Ids |-> <<item[i].st, item[i].pos, item[i].why>>], pause, draft>>
RevisionHonest == [][Visible' # Visible => ~fresh']_vars

\* A queue that has rows admits a worker only with the row it owns, at the head
\* of the FIFO, and while it is not paused.
AdmittedIsHead ==
  [][\A w \in Workers :
       At(w, "send") /\ pc'[w] = "admitted" /\ Live # {}
         => Owns(w, held[w]) /\ Head(held[w]) /\ pause = NotPaused]_vars

\* The queue worker is admitted by its exact claimed id.
AdmittedByClaim ==
  [][\A w \in Workers : At(w, "send") /\ pc'[w] = "admitted" => Owns(w, held[w])]_vars

\* After a user's cancel has paused the queue and stopped the turn, no prompt
\* of the queue is handed over on the connection until the user resumes or
\* retries.  Only a prompt that was deleted behind a stale worker's back may be.
Hands(w) == Beyond(w) /\ handed'[held[w]] # handed[held[w]]
CancelIsFinal ==
  [][\A w \in Workers : halt[w] = "halted" /\ halt'[w] = "halted" /\ Hands(w)
       => item[held[w]].st = "absent"]_vars

\* A busy Session is an active one: a message that arrives during a turn waits
\* in the FIFO and never needs a confirmation.
BusyIsActive ==
  [][\A e \in Events, w \in Workers :
       fate[e] = "unsent" /\ item'[<<e, 0>>].why = "inactive"
         => conn[w] # "prompting"]_vars

-------------------------------------------------------------------------------
(* Refinement: the queue implements the ledger of its message ids.             *)

Handing(i) == \E w \in Workers : Beyond(w) /\ held[w] = i

PlaceOf(i) ==
  CASE item[i].st = "paused"                          -> "held"
    [] item[i].st = "claimed" /\ item[i].started      -> "boundary"
    [] item[i].st = "claimed" /\ ~item[i].started     -> "waiting"
    [] item[i].st = "queued"                          -> "waiting"
    [] item[i].st = "absent" /\ fate[i[1]] # "unsent"
                            /\ i[2] <= gen[i[1]]      -> "gone"
    [] OTHER                                          -> "out"
OfferOf(i) == IF handed[i] > 0 THEN "used" ELSE IF Handing(i) THEN "open" ELSE "none"

Ledger == INSTANCE DispatchLedger WITH place <- [i \in Ids |-> PlaceOf(i)],
                                       offer <- [i \in Ids |-> OfferOf(i)]

\* Every step of the workers, clients and sweeps, seen through the mapping, is a
\* step the ledger allows: no id returns to the FIFO after an offer was used, or
\* while one is open, and none comes back after it was accepted or deleted.
ImplementsLedger == Ledger!Spec

-------------------------------------------------------------------------------
(* Liveness.                                                                   *)

\* The worker's loop never stops; its select! serves a tick and a wake-up that
\* stay ready; a worker is not for ever slower than its lease; the connection
\* loop runs; turns end; a settings command runs to its end; time passes.
Overtakes(i) == \E w \in Workers : /\ held[w] = i /\ Owns(w, i)
                                  /\ pc[w] \in {"freeze", "recheck", "mark"}
LeasesSuffice ==
  <>[][\A i \in Ids : item'[i].expired /\ ~item[i].expired => ~Overtakes(i)]_vars
Fairness ==
  /\ \A w \in Workers :
       /\ WF_vars(WorkerStep(w))
       /\ SF_vars(Observe(w))
       /\ SF_vars(At(w, "idle") /\ ReadPolicy(w))
       /\ SF_vars(Recheck(w) /\ pc'[w] = "mark")
       /\ WF_vars(LoopDequeue(w))
       /\ WF_vars(TurnEnds(w))
       /\ WF_vars(AdHocSend(w))
  /\ \A i \in Ids : WF_vars(Expire(i))
  /\ WF_vars(ApplyPolicy)
  /\ LeasesSuffice

FairSpec == Spec /\ Fairness

\* No row stays claimed for ever: neither a worker that dropped its item, nor a
\* refused release, nor a dead process can keep the queue occupied.
ClaimsResolve == \A i \in Ids : item[i].st = "claimed" ~> item[i].st # "claimed"

\* Messages frozen by the policy thaw once it stays on, even if a settings
\* command and a sweep applied their readings of it in the wrong order.
FrozenThaws == <>[]policy => <>[](Frozen = {})

\* The head of a running queue is not starved: while the Session is connected
\* and nothing is paused or frozen, it does not wait for ever.
Waiting(i) == item[i].st \in {"queued", "claimed"}
HeadIsServed ==
  \A w \in Workers, i \in Ids :
    ~<>[](/\ conn[w] # "none" /\ pause = NotPaused /\ policy
          /\ Head(i) /\ Waiting(i))

\* Switching collaboration off freezes only the messages of other Sessions: an
\* ordinary follow-up that shares the queue with frozen rows alone still runs.
FollowUpsRun ==
  \A w \in Workers, i \in Ids :
    ~<>[](/\ conn[w] # "none" /\ pause = NotPaused
          /\ i \in Ordinary /\ Waiting(i)
          /\ \A j \in Live \ {i} : j \in Frozen)
===============================================================================
