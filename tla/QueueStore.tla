------------------------------ MODULE QueueStore ------------------------------
(* The durable prompt queue of ONE Session: the SQLite tables behind          *)
(* prompt_queue_service.rs, and every transaction the service commits on      *)
(* them.  A transaction is one step (SQLite has a single writer).  The tables  *)
(* are shared by every backend process (Workers) and by the clients.           *)
(*                                                                            *)
(* A row is addressed by its queue item id <<s, n>>: subject s is a message    *)
(* typed by the user (Msgs) or a message sent by another Session (Events), n   *)
(* numbers the identities s is given, since a retry renames the row.           *)
EXTENDS Integers, FiniteSets, Functions

CONSTANTS
  Msgs,        \* ordinary follow-ups (rows that carry their own draft)
  Events,      \* collaboration events (rows that carry an origin_event_id)
  Workers,     \* backend processes, each with one queue worker
  None,        \* SQL NULL
  Gone,        \* claimed_by names the worker of a process that has died
  MaxQueue,    \* MAX_QUEUE_ITEMS
  MaxGen,      \* bound on the identities a subject is given
  MaxPos,      \* bound on positions
  MaxEdits,    \* bound on the edits of one draft
  LateResends  \* may a client repeat an enqueue whose row is already gone?

ASSUME SubjectsAssumption  == Msgs \cap Events = {}
ASSUME NullAssumption      == /\ None \notin Workers \cup Events
                              /\ Gone \notin Workers /\ Gone # None
ASSUME BoundsAssumption    == /\ MaxQueue \in Nat /\ MaxGen \in Nat
                              /\ MaxPos \in Nat /\ MaxEdits \in Nat
ASSUME LateResendsAssumption == LateResends \in BOOLEAN

VARIABLES
  item,    \* conversation_prompt_queue_item
  pause,   \* conversation_prompt_queue_state.paused_reason
  fresh,   \* the revision a client last read is still the current one
  draft,   \* draft[m]: version of the text saved for m
  gen,     \* gen[m]: renamings of m;  gen[e]: collaboration_delivery.attempts
  fate,    \* what the users did with a subject (history)
  dlv,     \* dlv[e]: collaboration_delivery.state
  op,      \* op[e]: collaboration_interrupt_operation.state
  policy   \* app_metadata: Session collaboration is enabled

queueVars == <<item, pause, fresh>>
storeVars == <<item, pause, fresh, draft, gen, fate, dlv, op, policy>>

Subjects  == Msgs \cup Events
Ids       == Subjects \X (0..MaxGen)
Positions == (-MaxPos)..MaxPos

Owners == Workers \cup {None, Gone}
Whys   == {"none", "policy", "inactive", "unknown", "failed"}
Rows   == [st: {"absent", "queued", "claimed", "paused"}, pos: Positions,
           owner: Owners, started: BOOLEAN, expired: BOOLEAN, why: Whys]
Kinds  == {"none", "user", "unknown", "failed", "interrupt", "interrupt_failed"}
Pauses == [kind: Kinds, by: Events \cup {None}]

Fates  == {"unsent", "submitted", "deleted"}
DeliveryStates == {"none", "queued", "embedding", "embedded", "failed"}
OpStates == {"none", "cancelling", "observed", "waiting", "ready",
             "dispatching", "completed", "failed"}

Row(st, p, why) == [st |-> st, pos |-> p, owner |-> None, started |-> FALSE,
                    expired |-> FALSE, why |-> why]
AbsentRow       == Row("absent", 0, "none")
Pause(kind, by) == [kind |-> kind, by |-> by]
NotPaused       == Pause("none", None)

StoreTypeOK ==
  /\ item \in [Ids -> Rows]
  /\ pause \in Pauses
  /\ fresh \in BOOLEAN
  /\ draft \in [Msgs -> 0..MaxEdits]
  /\ gen \in [Subjects -> 0..MaxGen]
  /\ fate \in [Subjects -> Fates]
  /\ dlv \in [Events -> DeliveryStates]
  /\ op \in [Events -> OpStates]
  /\ policy \in BOOLEAN

StoreInit ==
  /\ item = [i \in Ids |-> AbsentRow]
  /\ pause = NotPaused
  /\ fresh = TRUE
  /\ draft = [m \in Msgs |-> 0]
  /\ gen = [s \in Subjects |-> 0]
  /\ fate = [s \in Subjects |-> "unsent"]
  /\ dlv = [e \in Events |-> "none"]
  /\ op = [e \in Events |-> "none"]
  /\ policy = TRUE

-------------------------------------------------------------------------------
(* Reading the tables.                                                         *)

Live        == {i \in Ids : item[i].st # "absent"}
Ordinary    == {i \in Live : i[1] \in Msgs}
IsOrigin(i) == i[1] \in Events
Owns(w, i)  == item[i].st = "claimed" /\ item[i].owner = w

\* ORDER BY position LIMIT 1 over the rows of a set.
IsFirst(i, S)  == i \in S /\ \A j \in S : item[i].pos <= item[j].pos
QueuedRows     == {i \in Ids : item[i].st = "queued"}
NextToClaim(i) == IsFirst(i, QueuedRows)
Head(i)        == IsFirst(i, Live)

\* COALESCE(MAX(position), -1) + 1
IsNextPos(p) ==
  IF Live = {} THEN p = 0
               ELSE /\ \E i \in Live : p = item[i].pos + 1
                    /\ \A i \in Live : item[i].pos < p

\* Every committed change of the queue increments its revision: what a client
\* has read is out of date, and verify_revision will refuse its next command.
Bump == fresh' = FALSE

\* Faulty variants of the next definition: any claimed row is admitted; a paused
\* queue is not looked at; the queue's own prompt is treated as an outside send.
AdmitsAnyClaim(i)  == Live = {} \/ (pause = NotPaused /\ i \in Live /\ item[i].st = "claimed")
AdmitsWhenPaused(i) == Live = {} \/ (Head(i) /\ item[i].st = "claimed")
AdmitsOnlyEmpty(i) == Live = {}

\* send_is_admitted: the queue is empty, or the message heads it, claimed, and
\* the queue is not paused.  A send from outside the queue has id None.
SendIsAdmitted(i) ==
  \/ Live = {}
  \/ pause = NotPaused /\ Head(i) /\ item[i].st = "claimed"

\* The first queued row asks for native steering (hints: the events that do).
HeadRequestsNativeSteer(hints) ==
  /\ pause = NotPaused
  /\ \E i \in QueuedRows : NextToClaim(i) /\ i[1] \in hints

\* transition_origin: an interrupt operation follows its message.
OpFollows(S, from, to) ==
  op' = [e \in Events |-> IF e \in S /\ op[e] \in from THEN to ELSE op[e]]

DeliveryFollows(S, from, to) ==
  dlv' = [e \in Events |-> IF e \in S /\ dlv[e] \in from THEN to ELSE dlv[e]]

Origins(S) == {i[1] : i \in S} \cap Events

-------------------------------------------------------------------------------
(* Transactions of the clients.                                                *)

\* Faulty variant: the limit is compared with <=.
AppendOneTooMany(i, st, why) ==
  /\ item[i].st = "absent"
  /\ Cardinality(Live) <= MaxQueue
  /\ \E p \in Positions : IsNextPos(p) /\ item' = [item EXCEPT ![i] = Row(st, p, why)]
  /\ fate' = [fate EXCEPT ![i[1]] = "submitted"]
  /\ Bump

\* The row appended by enqueue and by enqueue_origin_in_transaction.  A row
\* that already has the dedupe id makes the call a read.
Append(i, st, why) ==
  /\ item[i].st = "absent"
  /\ Cardinality(Live) < MaxQueue
  /\ \E p \in Positions : IsNextPos(p) /\ item' = [item EXCEPT ![i] = Row(st, p, why)]
  /\ fate' = [fate EXCEPT ![i[1]] = "submitted"]
  /\ Bump

Enqueue(m) ==
  /\ fate[m] = "unsent" \/ LateResends
  /\ Append(<<m, 0>>, "queued", "none")
  /\ UNCHANGED <<pause, draft, gen, dlv, op, policy>>

\* A collaboration message for this Session: event, delivery and row commit
\* together; the row starts paused when the target was not active.
SendEvent(e, inactive) ==
  /\ fate[e] = "unsent"
  /\ IF inactive THEN Append(<<e, 0>>, "paused", "inactive")
                 ELSE Append(<<e, 0>>, "queued", "none")
  /\ dlv' = [dlv EXCEPT ![e] = "queued"]
  /\ UNCHANGED <<pause, draft, gen, op, policy>>

\* Faulty variant: a claimed row may be edited.
EditClaimed(i) ==
  /\ fresh /\ i \in Ordinary /\ draft[i[1]] < MaxEdits
  /\ draft' = [draft EXCEPT ![i[1]] = @ + 1]
  /\ Bump
  /\ UNCHANGED <<item, pause, gen, fate, dlv, op, policy>>

Edit(i) ==
  /\ fresh
  /\ i \in Ordinary /\ item[i].st # "claimed"
  /\ draft[i[1]] < MaxEdits
  /\ draft' = [draft EXCEPT ![i[1]] = @ + 1]
  /\ Bump
  /\ UNCHANGED <<item, pause, gen, fate, dlv, op, policy>>

Delete(i) ==
  /\ fresh
  /\ i \in Ordinary /\ item[i].st # "claimed"
  /\ item' = [item EXCEPT ![i] = AbsentRow]
  /\ fate' = [fate EXCEPT ![i[1]] = "deleted"]
  /\ Bump
  /\ UNCHANGED <<pause, draft, gen, dlv, op, policy>>

\* The ordinary rows are permuted over the positions they already hold.
Reorder ==
  /\ fresh
  /\ \A i \in Live : item[i].st # "claimed"
  /\ \E to \in Bijection(Ordinary, Ordinary) :
       item' = [i \in Ids |-> IF i \in Ordinary
                              THEN [item[i] EXCEPT !.pos = item[to[i]].pos]
                              ELSE item[i]]
  /\ Bump
  /\ UNCHANGED <<pause, draft, gen, fate, dlv, op, policy>>

\* Faulty variant: the pause does not increment the revision.
PauseQueueSilently ==
  /\ Live # {}
  /\ pause' = Pause("user", None)
  /\ UNCHANGED <<item, fresh, draft, gen, fate, dlv, op, policy>>

\* Part of cancelling a turn: only a queue that has rows is paused.
PauseQueueIfPending ==
  /\ Live # {}
  /\ pause' = Pause("user", None)
  /\ Bump
  /\ UNCHANGED <<item, draft, gen, fate, dlv, op, policy>>

ResumeQueue ==
  /\ fresh
  /\ pause.kind # "interrupt"
  /\ pause' = NotPaused
  /\ Bump
  /\ UNCHANGED <<item, draft, gen, fate, dlv, op, policy>>

\* A paused row returns to the queue under a new identity: a message gets a
\* new uuid, a delivery the id of its next attempt.
Retryable(i) ==
  /\ item[i].st = "paused"
  /\ IsOrigin(i) => \/ dlv[i[1]] = "failed"
                    \/ dlv[i[1]] = "queued" /\ item[i].why = "inactive"
  /\ gen[i[1]] < MaxGen

\* Faulty variant: the retry inserts a row and leaves the old one.
RetryBeside(i) ==
  LET s == i[1]
  IN  /\ fresh
      /\ Retryable(i)
      /\ item' = [item EXCEPT ![<<s, gen[s] + 1>>] = Row("queued", item[i].pos, "none")]
      /\ gen' = [gen EXCEPT ![s] = IF s \in Msgs THEN @ + 1 ELSE @]
      /\ DeliveryFollows({s}, {"failed"}, "queued")
      /\ pause' = NotPaused
      /\ Bump
      /\ UNCHANGED <<draft, fate, op, policy>>

RetryItem(i) ==
  LET s == i[1]
  IN  /\ fresh
      /\ Retryable(i)
      /\ item' = [item EXCEPT ![i] = AbsentRow,
                             ![<<s, gen[s] + 1>>] = Row("queued", item[i].pos, "none")]
      /\ gen' = [gen EXCEPT ![s] = IF s \in Msgs THEN @ + 1 ELSE @]
      /\ DeliveryFollows({s}, {"failed"}, "queued")
      /\ pause' = NotPaused
      /\ Bump
      /\ UNCHANGED <<draft, fate, op, policy>>

Refresh ==
  /\ ~fresh
  /\ fresh' = TRUE
  /\ UNCHANGED <<item, pause, draft, gen, fate, dlv, op, policy>>

UpsertPolicy(enabled) ==
  /\ policy' = enabled
  /\ UNCHANGED <<item, pause, fresh, draft, gen, fate, dlv, op>>

-------------------------------------------------------------------------------
(* Transactions of the queue workers, on behalf of worker w and row i.         *)

ClaimHead(w, i) ==
  /\ pause = NotPaused
  /\ NextToClaim(i)
  /\ item' = [item EXCEPT ![i] = [@ EXCEPT !.st = "claimed", !.owner = w,
                                           !.started = FALSE, !.expired = FALSE]]
  /\ Bump
  /\ UNCHANGED <<pause, draft, gen, fate, dlv, op, policy>>

\* The compare-and-set of mark_dispatch_started.
MayStart(w, i) ==
  /\ Owns(w, i) /\ ~item[i].expired
  /\ pause = NotPaused
  /\ IsOrigin(i) => policy

MarkDispatchStarted(w, i) ==
  /\ MayStart(w, i)
  /\ IsOrigin(i) => dlv[i[1]] = "queued"
  /\ item' = [item EXCEPT ![i] = [@ EXCEPT !.started = TRUE]]
  /\ gen' = [gen EXCEPT ![i[1]] = IF IsOrigin(i) /\ @ < MaxGen THEN @ + 1 ELSE @]
  /\ DeliveryFollows(Origins({i}), {"queued"}, "embedding")
  /\ OpFollows(Origins({i}), {"ready"}, "dispatching")
  /\ Bump
  /\ UNCHANGED <<pause, draft, fate, policy>>

\* accept_claim and release_claim_busy roll back when the row is not w's or its
\* delivery is not being embedded.
MayFinish(w, i) == Owns(w, i) /\ (IsOrigin(i) => dlv[i[1]] = "embedding")

AcceptClaim(w, i) ==
  /\ MayFinish(w, i)
  /\ item' = [item EXCEPT ![i] = AbsentRow]
  /\ DeliveryFollows(Origins({i}), {"embedding"}, "embedded")
  /\ OpFollows(Origins({i}), {"dispatching", "ready"}, "completed")
  /\ Bump
  /\ UNCHANGED <<pause, draft, gen, fate, policy>>

ReleaseClaimBusy(w, i) ==
  /\ MayFinish(w, i)
  /\ item' = [item EXCEPT ![i] = Row("queued", item[i].pos, item[i].why)]
  /\ DeliveryFollows(Origins({i}), {"embedding"}, "queued")
  /\ OpFollows(Origins({i}), {"dispatching"}, "ready")
  /\ Bump
  /\ UNCHANGED <<pause, draft, gen, fate, policy>>

\* Faulty variant: the row loses its mark.
ParkedUnmarked(r, why) == [r EXCEPT !.st = "paused", !.owner = None,
                                    !.expired = FALSE, !.started = FALSE, !.why = why]

\* Row i stays in the table, paused, with its dispatch mark.
Parked(r, why) == [r EXCEPT !.st = "paused", !.owner = None, !.expired = FALSE,
                            !.why = why]
\* Faulty variants: a delivery that is being embedded is forgotten; the delivery
\* gets a state its table does not know.
QueuedDeliveriesFail(S) ==
  /\ DeliveryFollows(S, {"queued"}, "failed")
  /\ OpFollows(S, {"ready", "dispatching"}, "failed")
DeliveriesPause(S) ==
  /\ DeliveryFollows(S, {"queued", "embedding"}, "paused")
  /\ OpFollows(S, {"ready", "dispatching"}, "failed")

DeliveriesFail(S) ==
  /\ DeliveryFollows(S, {"queued", "embedding"}, "failed")
  /\ OpFollows(S, {"ready", "dispatching"}, "failed")

PauseDispatchUnknown(i) ==
  /\ item[i].started
  /\ item' = [item EXCEPT ![i] = Parked(@, "unknown")]
  /\ DeliveriesFail(Origins({i}))
  /\ pause' = Pause("unknown", None)
  /\ Bump
  /\ UNCHANGED <<draft, gen, fate, policy>>

FailClaim(w, i) ==
  /\ Owns(w, i)
  /\ item' = [item EXCEPT ![i] = Parked(@, "failed")]
  /\ DeliveriesFail(Origins({i}))
  /\ pause' = Pause("failed", None)
  /\ Bump
  /\ UNCHANGED <<draft, gen, fate, policy>>

\* Faulty variant: the claims of a process that has died are not seen.
ExpiredHere == {i \in Ids : /\ item[i].st = "claimed" /\ item[i].expired
                            /\ item[i].owner \in Workers}

\* An expired claim that was never marked returns to the queue; a marked one
\* may have reached the Harness and waits for a human.
ExpiredClaims == {i \in Ids : item[i].st = "claimed" /\ item[i].expired}

RecoverExpiredClaims ==
  LET uncertain == {i \in ExpiredClaims : item[i].started}
  IN  /\ ExpiredClaims # {}
      /\ item' = [i \in Ids |->
                    IF i \notin ExpiredClaims THEN item[i]
                    ELSE IF i \in uncertain THEN Parked(item[i], "unknown")
                    ELSE Row("queued", item[i].pos, item[i].why)]
      /\ DeliveriesFail(Origins(uncertain))
      /\ pause' = IF uncertain # {} THEN Pause("unknown", None) ELSE pause
      /\ Bump
      /\ UNCHANGED <<draft, gen, fate, policy>>

\* reconcile_collaboration_dispatch_policy: collaboration rows that have not
\* been marked freeze while the policy is off and thaw when it is on.
Frozen  == {i \in Ids : /\ IsOrigin(i)
                        /\ item[i].st = "paused" /\ item[i].why = "policy"}
\* Faulty variant: a marked row freezes too.
FreezableMarked == {i \in Ids : IsOrigin(i) /\ item[i].st \in {"queued", "claimed"}}
Freezable == {i \in Ids : /\ IsOrigin(i)
                          /\ \/ item[i].st = "queued"
                             \/ item[i].st = "claimed" /\ ~item[i].started}
Reconcile(enabled) ==
  LET S == IF enabled THEN Frozen ELSE Freezable
  IN  /\ item' = [i \in Ids |->
                    IF i \notin S THEN item[i]
                    ELSE IF enabled THEN Row("queued", item[i].pos, "none")
                    ELSE Row("paused", item[i].pos, "policy")]
      /\ fresh' = (fresh /\ S = {})
      /\ UNCHANGED <<pause, draft, gen, fate, dlv, op, policy>>

\* observe_terminal: the turn an interrupt waits for has ended.  The owned
\* pause is cleared only if the cancellation was already acknowledged.
ActiveOps == {e \in Events : op[e] \in {"cancelling", "observed", "waiting",
                                        "ready", "dispatching"}}
\* Faulty variant: the pause is left behind.
KeepOwnedPause(e) == UNCHANGED <<pause, fresh>>
ClearOwnedPause(e) ==
  IF pause = Pause("interrupt", e)
  THEN pause' = NotPaused /\ Bump
  ELSE UNCHANGED <<pause, fresh>>

ObserveTerminal ==
  /\ \E e \in Events :
       \/ /\ op[e] = "cancelling"
          /\ op' = [op EXCEPT ![e] = "observed"]
          /\ UNCHANGED <<pause, fresh>>
       \/ /\ op[e] = "waiting"
          /\ op' = [op EXCEPT ![e] = "ready"]
          /\ ClearOwnedPause(e)
  /\ UNCHANGED <<item, draft, gen, fate, dlv, policy>>

\* recover_after_process_loss: a recorded terminal observation releases the
\* message, a cancelling row older than a minute (stale) fails.
RecoverInterrupts(stale) ==
  /\ op' = [e \in Events |->
              IF op[e] = "observed" THEN "ready"
              ELSE IF op[e] = "cancelling" /\ e \in stale THEN "failed"
              ELSE op[e]]
  /\ LET e == pause.by
     IN  IF pause.kind = "interrupt" /\ op'[e] # op[e]
         THEN /\ pause' = IF op'[e] = "ready" THEN NotPaused
                          ELSE Pause("interrupt_failed", e)
              /\ Bump
         ELSE UNCHANGED <<pause, fresh>>
  /\ UNCHANGED <<item, draft, gen, fate, dlv, policy>>
=============================================================================
