------------------------------ MODULE TaskRow ------------------------------
(* One row of the work_task table and the conditional updates that           *)
(* db/service/work_task_service.rs makes of it.  Every update there is one   *)
(* transaction: UPDATE ... WHERE id AND status AND (often) run_seq, with the *)
(* timeline event in the same transaction.  Here each update is a function   *)
(* of the row, and its WHERE clause is a predicate named Can... .            *)
EXTENDS Naturals

CONSTANT None          \* an absent column: NULL

Statuses == {"todo", "queued", "preparing", "running", "awaiting", "review",
             "merging", "done", "failed", "canceled"}

Live    == {"running", "awaiting"}
Waiting == {"queued", "preparing"} \cup Live       \* what a restart interrupts
Budget  == Waiting \cup {"merging"}                \* what the auto arm counts
Ended   == {"done", "failed", "canceled"}

(* last_error is reduced to whether there is one, merge intents and          *)
(* connections to their identity, timestamps to whether they are set.  A      *)
(* verdict and a preflight light carry the generation that wrote them, which  *)
(* the columns do not: no guard reads it.                                     *)
NewRow == [st |-> "todo", seq |-> 0, err |-> FALSE, verdict |-> None, plan |-> None,
           pend |-> None, light |-> None, conn |-> None, conv |-> FALSE,
           wt |-> FALSE, arch |-> FALSE, del |-> FALSE]

In(r, from)        == ~r.del /\ r.st \in from
Is(r, from, seq)   == In(r, from) /\ r.seq = seq

(* The fields every claim of a fresh generation resets. *)
NextRun(r) == [r EXCEPT !.st = "queued", !.seq = @ + 1, !.err = FALSE, !.verdict = None]

CanClaim(r, from, unplanned) == In(r, {from}) /\ (unplanned => r.plan = None)
Claimed(r)     == [NextRun(r) EXCEPT !.plan = None, !.pend = None, !.light = None, !.arch = FALSE]

CanAutoClaim(r) == In(r, {"todo"}) /\ r.plan = None
AutoClaimCarriesVerdict(r) == [NextRun(r) EXCEPT !.verdict = r.verdict]
AutoClaimed(r) == NextRun(r)

CanPlan(r)     == In(r, {"todo"})
CanClaimDue(r) == In(r, {"todo"}) /\ r.plan = "due"
DueClaimed(r)  == [NextRun(r) EXCEPT !.plan = None]

CanRequeue(r)  == In(r, {"canceled"})
RequeuedRun(r) == [r EXCEPT !.st = "todo", !.seq = @ - 1, !.err = FALSE, !.pend = None, !.arch = FALSE]
Requeued(r)    == [r EXCEPT !.st = "todo", !.err = FALSE, !.pend = None, !.arch = FALSE]

CanBeginSetup(r, seq) == Is(r, {"queued"}, seq)
SetupBegun(r)    == [r EXCEPT !.st = "preparing"]
CanAbandonSetup(r, seq) == Is(r, {"preparing"}, seq)
SetupAbandoned(r) == [r EXCEPT !.st = "queued"]

CanMarkRunning(r, seq) == Is(r, {"preparing"}, seq)
MarkedRunning(r, c) == [r EXCEPT !.st = "running", !.conn = c, !.conv = TRUE]
CanMarkMerging(r, seq) == Is(r, {"merging"}, seq)
MarkedMerging(r, c) == [r EXCEPT !.conn = c, !.conv = TRUE]

Failed(r)      == [r EXCEPT !.st = "failed", !.err = TRUE, !.conn = None, !.pend = None]

CanReport(r, seq) == Is(r, Live, seq)
Reported(r)    == [r EXCEPT !.verdict = r.seq]

CanSettle(r, seq) == Is(r, Live, seq)
Settled(r)     == [r EXCEPT !.st = "review", !.conn = None, !.light = None]

FlipFrom(on)   == IF on THEN "running" ELSE "awaiting"
CanFlip(r, seq, on) == Is(r, {FlipFrom(on)}, seq)
Flipped(r, on) == [r EXCEPT !.st = FlipFrom(~on)]

(* An unattended dispatch also needs a row with no error and no parked merge; *)
(* a dispatch of a parked merge (want # None) needs exactly that merge.       *)
CanBeginMerge(r, seq, auto, want) ==
  /\ Is(r, {"review"}, seq)
  /\ auto => ~r.err /\ r.pend = None
  /\ want # None => r.pend = want
MergeBegun(r)  == [r EXCEPT !.st = "merging", !.seq = @ + 1, !.conn = None,
                            !.verdict = None, !.err = FALSE, !.pend = None]

CanQueueMerge(r, seq, want) == Is(r, {"review"}, seq) /\ (want # None => r.pend = want)
MergeQueued(r, intent) == [r EXCEPT !.pend = intent, !.err = FALSE]

CanUnqueue(r)  == In(r, {"review"}) /\ r.pend # None
Unqueued(r)    == [r EXCEPT !.pend = None]
CanClearQueued(r, want) == r.pend = want           \* neither status nor deletion is asked

CanLand(r)     == In(r, {"merging"})
Landed(r)      == [r EXCEPT !.st = "done"]
CanComplete(r) == In(r, {"review"})
Completed(r)   == [r EXCEPT !.st = "done", !.err = FALSE, !.pend = None]

CanSetError(r, seq) == Is(r, {"review"}, seq)
WithError(r)   == [r EXCEPT !.err = TRUE]
CanGoBack(r)   == In(r, {"merging"})
BackUnmarked(r) == [r EXCEPT !.st = "review"]
BackToReview(r) == [r EXCEPT !.st = "review", !.err = TRUE]

CanLight(r, seq) == Is(r, {"review"}, seq)
Lit(r, shows)  == [r EXCEPT !.light = [by |-> r.seq, shows |-> shows]]

CanArchive(r, on) == ~r.del /\ IF on THEN r.st \in Ended /\ ~r.arch ELSE r.arch
Archived(r, on) == [r EXCEPT !.arch = on]

CanCancel(r)   == In(r, Statuses \ {"merging", "done", "canceled"})
CanceledKeepsPlan(r) == [r EXCEPT !.st = "canceled", !.conn = None, !.pend = None]
CanceledKeepsMerge(r) == [r EXCEPT !.st = "canceled", !.conn = None, !.plan = None]
Canceled(r)    == [r EXCEPT !.st = "canceled", !.conn = None, !.pend = None, !.plan = None]

CanDelete(r, expected) == In(r, {expected})
Deleted(r)     == [r EXCEPT !.del = TRUE]
=============================================================================
