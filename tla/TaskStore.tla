------------------------------ MODULE TaskStore ------------------------------
(* The work_task table under every call of db/service/work_task_service.rs.   *)
(* A caller may hold any generation it can have read, so a call that takes a   *)
(* run_seq takes any up to the current one.  What the engine does between two  *)
(* calls is in TaskRun and TaskMerge; here no order of calls is assumed.       *)
EXTENDS TaskRow

CONSTANTS
  Tasks,    \* tasks of one project folder
  Intents,  \* parked merges: message, worktree choice and place in line
  Conns,    \* agent connections
  MaxSeq    \* bound on the generations of a task

NoneAssumption == None \notin Intents \cup Conns \cup {"later", "due"}
BoundsAssumption == MaxSeq \in Nat

VARIABLES
  task,   \* task[t]: the row
  failed  \* failed[t]: its merge failed, and no user has asked for anything since

vars == <<task, failed>>

Seqs == 0..MaxSeq
LightStates == {"running", "passed", "failed"}
Rows == [st: Statuses, seq: Seqs, err: BOOLEAN, verdict: Seqs \cup {None},
         plan: {None, "later", "due"}, pend: Intents \cup {None},
         light: [by: Seqs, shows: LightStates] \cup {None}, conn: Conns \cup {None},
         conv: BOOLEAN, wt: BOOLEAN, arch: BOOLEAN, del: BOOLEAN]

TypeOK == task \in [Tasks -> Rows] /\ failed \in [Tasks -> BOOLEAN]

Init == task = [t \in Tasks |-> NewRow] /\ failed = [t \in Tasks |-> FALSE]

(* A statement that may miss: the row changes only if its WHERE clause holds. *)
Write(t, can, row) == can /\ task' = [task EXCEPT ![t] = row]
Quietly(t, can, row)   == Write(t, can, row) /\ UNCHANGED failed
ByUser(t, can, row)    == Write(t, can, row) /\ failed' = [failed EXCEPT ![t] = FALSE]
MergeFailed(t, can, row) == Write(t, can, row) /\ failed' = [failed EXCEPT ![t] = TRUE]

CanBump(t) == task[t].seq < MaxSeq

(* The budget that auto_claim_next checks in its transaction is in TaskRun.    *)
(* claim_for_run from todo (a Start; of a bulk start, unplanned), failed (a    *)
(* retry) or review (a follow-up). *)
Claim(t, from, unplanned) ==
  CanBump(t) /\ ByUser(t, CanClaim(task[t], from, unplanned), Claimed(task[t]))
AutoClaim(t) == CanBump(t) /\ Quietly(t, CanAutoClaim(task[t]), AutoClaimed(task[t]))
ClaimDue(t)  == CanBump(t) /\ Quietly(t, CanClaimDue(task[t]), DueClaimed(task[t]))
SetSchedule(t, plan) == Quietly(t, CanPlan(task[t]), [task[t] EXCEPT !.plan = plan])
ComesDue(t) == Quietly(t, task[t].plan = "later", [task[t] EXCEPT !.plan = "due"])
Requeue(t)  == ByUser(t, CanRequeue(task[t]), Requeued(task[t]))

BeginSetup(t, q)   == Quietly(t, CanBeginSetup(task[t], q), SetupBegun(task[t]))
AbandonSetup(t, q) == Quietly(t, CanAbandonSetup(task[t], q), SetupAbandoned(task[t]))
MarkRunning(t, q, c) == Quietly(t, CanMarkRunning(task[t], q), MarkedRunning(task[t], c))
MarkMerging(t, q, c) == Quietly(t, CanMarkMerging(task[t], q), MarkedMerging(task[t], c))

(* fail: of a launch, of a turn (with the generation), of boot (without). *)
Fail(t, from, q) == Quietly(t, Is(task[t], from, q), Failed(task[t]))
BootReconcile(t) == Quietly(t, In(task[t], Waiting), Failed(task[t]))

SetVerdict(t, q)   == Quietly(t, CanReport(task[t], q), Reported(task[t]))
Settle(t, q)       == Quietly(t, CanSettle(task[t], q), Settled(task[t]))
Flip(t, q, on)     == Quietly(t, CanFlip(task[t], q, on), Flipped(task[t], on))
SetPreflight(t, q, shows) == Quietly(t, CanLight(task[t], q), Lit(task[t], shows))

BeginMerge(t, q, want) ==
  CanBump(t) /\ ByUser(t, CanBeginMerge(task[t], q, FALSE, want), MergeBegun(task[t]))
AutoMerge(t, q) ==
  CanBump(t) /\ Quietly(t, CanBeginMerge(task[t], q, TRUE, None), MergeBegun(task[t]))
QueueMerge(t, q, i, want) ==
  ByUser(t, CanQueueMerge(task[t], q, want), MergeQueued(task[t], i))
UnqueueMerge(t)       == ByUser(t, CanUnqueue(task[t]), Unqueued(task[t]))
ClearQueued(t, want)  == Quietly(t, CanClearQueued(task[t], want), Unqueued(task[t]))
MergeLanded(t)        == Quietly(t, CanLand(task[t]), Landed(task[t]))
MergeBackToReview(t)  == MergeFailed(t, CanGoBack(task[t]), BackToReview(task[t]))
SetReviewError(t, q)  == MergeFailed(t, CanSetError(task[t], q), WithError(task[t]))
Complete(t)           == ByUser(t, CanComplete(task[t]), Completed(task[t]))

Cancel(t)             == ByUser(t, CanCancel(task[t]), Canceled(task[t]))
SetArchived(t, on)    == Quietly(t, CanArchive(task[t], on), Archived(task[t], on))
SoftDelete(t, seen)   == ByUser(t, CanDelete(task[t], seen), Deleted(task[t]))
AttachWorktree(t)     == Quietly(t, ~task[t].wt, [task[t] EXCEPT !.wt = TRUE])
ClearWorktree(t)      == Quietly(t, task[t].wt, [task[t] EXCEPT !.wt = FALSE])

Run(t) ==
  \/ \E from \in {"todo", "failed", "review"}, unplanned \in BOOLEAN : Claim(t, from, unplanned)
  \/ AutoClaim(t) \/ ClaimDue(t) \/ ComesDue(t) \/ Requeue(t)
  \/ \E plan \in {None, "later", "due"} : SetSchedule(t, plan)
  \/ \E q \in Seqs : \/ BeginSetup(t, q) \/ AbandonSetup(t, q) \/ Settle(t, q)
                     \/ SetVerdict(t, q)
                     \/ \E c \in Conns : MarkRunning(t, q, c)
                     \/ \E on \in BOOLEAN : Flip(t, q, on)
                     \/ \E from \in {{"queued", "preparing"}, Live} : Fail(t, from, q)
  \/ BootReconcile(t) \/ Cancel(t)

Merge(t) ==
  \/ \E q \in Seqs :
       \/ \E want \in Intents \cup {None} : BeginMerge(t, q, want)
       \/ AutoMerge(t, q) \/ SetReviewError(t, q)
       \/ \E i \in Intents, want \in Intents \cup {None} : QueueMerge(t, q, i, want)
       \/ \E c \in Conns : MarkMerging(t, q, c)
       \/ \E shows \in LightStates : SetPreflight(t, q, shows)
  \/ \E want \in Intents : ClearQueued(t, want)
  \/ UnqueueMerge(t) \/ MergeLanded(t) \/ MergeBackToReview(t) \/ Complete(t)

Keep(t) == \/ \E on \in BOOLEAN : SetArchived(t, on)
           \/ \E seen \in Statuses \ Budget : SoftDelete(t, seen)
           \/ AttachWorktree(t) \/ ClearWorktree(t)

Next == \E t \in Tasks : Run(t) \/ Merge(t) \/ Keep(t)
Spec == Init /\ [][Next]_vars
------------------------------------------------------------------------------
(* A planned start belongs to a task in todo: whatever claims or cancels the  *)
(* task consumes the plan, so that no old plan can fire in a later life of it. *)
PlanOnlyInTodo == \A t \in Tasks : task[t].plan # None => task[t].st = "todo"

(* A parked merge belongs to a task in review, whichever way it leaves review; *)
(* so a later review never finds the merge of an earlier one in its queue.     *)
ParkedOnlyInReview == \A t \in Tasks : task[t].pend # None => task[t].st = "review"

(* A present verdict was reported by the current generation: on_turn_complete  *)
(* decides a turn's outcome by it.                                             *)
VerdictIsOwn == \A t \in Tasks : task[t].verdict \in {None, task[t].seq}

(* The rows of the board, whatever calls meet: what a column says is about the *)
(* status and the generation that the task has now (work_task_service.rs).     *)
RowsSound == TypeOK /\ PlanOnlyInTodo /\ ParkedOnlyInReview /\ VerdictIsOwn

(* After a merge has failed, nothing dispatches one unattended until a user    *)
(* has acted on the task: last_error is the latch, and every write keeps it.   *)
NoUnattendedRetry == \A t \in Tasks : failed[t] => ~\E q \in Seqs : AutoMerge(t, q)

(* A review shows no preflight result but its own generation's.               *)
LightIsOwn == \A t \in Tasks :
  task[t].st = "review" /\ task[t].light # None => task[t].light.by = task[t].seq
=============================================================================
