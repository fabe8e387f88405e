---------------------------- MODULE TaskStoreProofs ----------------------------
(* Theorems about TaskStore, for every value of its constants: however the calls *)
(* of work_task_service.rs follow each other, and whichever generation each of    *)
(* them names, the columns of a row keep to its status.                          *)
EXTENDS TaskStore, TLAPS

-------------------------------------------------------------------------------
(* One row, and whether its merge has failed.                                  *)

\* last_error is the latch of a failed merge: it holds as long as the task stays in
\* review, and nothing takes the task out of it but its user.
RowHonest(r, bad) ==
  /\ r \in Rows
  /\ r.plan # None => r.st = "todo"
  /\ r.pend # None => r.st = "review"
  /\ r.verdict \in {None, r.seq}
  /\ bad => r.st = "review" /\ r.err

StoreInv ==
  /\ task \in [Tasks -> Rows] /\ failed \in [Tasks -> BOOLEAN]
  /\ \A t \in Tasks : RowHonest(task[t], failed[t])

LEMMA OneRow ==
  ASSUME StoreInv, NEW t \in Tasks, NEW row, NEW bad \in BOOLEAN, RowHonest(row, bad),
         task' = [task EXCEPT ![t] = row], failed' = [failed EXCEPT ![t] = bad]
  PROVE  StoreInv'
BY DEF StoreInv, RowHonest

LEMMA Quiet ==
  ASSUME StoreInv, NEW t \in Tasks, NEW can, NEW row, Quietly(t, can, row),
         RowHonest(row, failed[t])
  PROVE  StoreInv'
<1>1. failed' = [failed EXCEPT ![t] = failed[t]] /\ failed[t] \in BOOLEAN
  BY DEF StoreInv, Quietly
<1> QED  BY <1>1, OneRow DEF Quietly, Write

LEMMA User ==
  ASSUME StoreInv, NEW t \in Tasks, NEW can, NEW row, ByUser(t, can, row), RowHonest(row, FALSE)
  PROVE  StoreInv'
BY OneRow DEF ByUser, Write

LEMMA MergeLost ==
  ASSUME StoreInv, NEW t \in Tasks, NEW can, NEW row, MergeFailed(t, can, row),
         RowHonest(row, TRUE)
  PROVE  StoreInv'
BY OneRow DEF MergeFailed, Write

-------------------------------------------------------------------------------
(* What the updates make of an honest row.                                     *)

\* Claims of a new generation.
LEMMA ClaimsHonest ==
  ASSUME BoundsAssumption, NEW r, NEW bad \in BOOLEAN, RowHonest(r, bad), r.seq < MaxSeq
  PROVE  /\ \A from \in {"todo", "failed", "review"}, unplanned \in BOOLEAN :
              CanClaim(r, from, unplanned) => RowHonest(Claimed(r), FALSE)
         /\ CanAutoClaim(r) => RowHonest(AutoClaimed(r), bad)
         /\ CanClaimDue(r) => RowHonest(DueClaimed(r), bad)
         /\ \A q \in Seqs, auto \in BOOLEAN, want \in Intents \cup {None} :
              CanBeginMerge(r, q, auto, want)
                => RowHonest(MergeBegun(r), FALSE) /\ (auto => RowHonest(MergeBegun(r), bad))
<1>1. r \in Rows /\ r.seq + 1 \in Seqs  BY DEF RowHonest, Rows, Seqs, BoundsAssumption
<1>2. /\ NextRun(r) \in Rows /\ NextRun(r).st = "queued" /\ NextRun(r).verdict = None
      /\ NextRun(r).plan = r.plan /\ NextRun(r).pend = r.pend
  BY <1>1 DEF NextRun, Rows, Statuses
<1>3. Claimed(r) \in Rows /\ RowHonest(Claimed(r), FALSE)
  <2> DEFINE n == NextRun(r)
  <2>1. Claimed(r) = [n EXCEPT !.plan = None, !.pend = None, !.light = None, !.arch = FALSE]
    BY DEF Claimed
  <2> HIDE DEF n
  <2> QED  BY <1>2, <2>1 DEF n, RowHonest, Rows
<1>4. ASSUME CanAutoClaim(r)  PROVE RowHonest(AutoClaimed(r), bad)
  BY <1>1, <1>2, <1>4 DEF CanAutoClaim, In, AutoClaimed, RowHonest
<1>5. ASSUME CanClaimDue(r)  PROVE RowHonest(DueClaimed(r), bad)
  <2> DEFINE n == NextRun(r)
  <2>1. DueClaimed(r) = [n EXCEPT !.plan = None]  BY DEF DueClaimed
  <2> HIDE DEF n
  <2> QED  BY <1>2, <1>5, <2>1 DEF n, RowHonest, Rows, CanClaimDue, In
<1>6. RowHonest(MergeBegun(r), FALSE) \/ r.plan # None
  <2>1. /\ MergeBegun(r) \in Rows /\ MergeBegun(r).plan = r.plan /\ MergeBegun(r).pend = None
        /\ MergeBegun(r).verdict = None /\ MergeBegun(r).st = "merging"
    BY <1>1 DEF MergeBegun, Rows, Statuses
  <2> QED  BY <2>1 DEF RowHonest
<1>7. ASSUME NEW q \in Seqs, NEW auto \in BOOLEAN, NEW want \in Intents \cup {None},
             CanBeginMerge(r, q, auto, want)
      PROVE  RowHonest(MergeBegun(r), FALSE) /\ (auto => RowHonest(MergeBegun(r), bad))
  <2>1. r.st = "review" /\ r.plan = None /\ (auto => ~r.err)
    BY <1>7 DEF CanBeginMerge, Is, In, RowHonest
  <2>2. auto => bad = FALSE
    BY <2>1 DEF RowHonest
  <2> QED  BY <1>6, <2>1, <2>2
<1> QED  BY <1>3, <1>4, <1>5, <1>7

\* Updates that leave the generation as it is, on the way to a run and out of it.
LEMMA RunHonest ==
  ASSUME NoneAssumption, NEW r, NEW bad \in BOOLEAN, RowHonest(r, bad)
  PROVE  /\ CanRequeue(r) => RowHonest(Requeued(r), FALSE)
         /\ \A q \in Seqs :
              /\ CanBeginSetup(r, q) => RowHonest(SetupBegun(r), bad)
              /\ CanAbandonSetup(r, q) => RowHonest(SetupAbandoned(r), bad)
              /\ \A c \in Conns : CanMarkRunning(r, q) => RowHonest(MarkedRunning(r, c), bad)
              /\ CanReport(r, q) => RowHonest(Reported(r), bad)
              /\ CanSettle(r, q) => RowHonest(Settled(r), bad)
              /\ \A on \in BOOLEAN : CanFlip(r, q, on) => RowHonest(Flipped(r, on), bad)
         /\ In(r, Waiting) => RowHonest(Failed(r), bad)
         /\ \A plan \in {None, "later", "due"} :
              CanPlan(r) => RowHonest([r EXCEPT !.plan = plan], bad)
         /\ r.plan = "later" => RowHonest([r EXCEPT !.plan = "due"], bad)
         /\ CanCancel(r) => RowHonest(Canceled(r), FALSE)
<1> USE DEF RowHonest, Rows, Statuses, Is, In
<1>1. CanRequeue(r) => RowHonest(Requeued(r), FALSE)
  BY DEF CanRequeue, Requeued
<1>2. \A q \in Seqs : CanBeginSetup(r, q) => RowHonest(SetupBegun(r), bad)
  BY DEF CanBeginSetup, SetupBegun
<1>3. \A q \in Seqs : CanAbandonSetup(r, q) => RowHonest(SetupAbandoned(r), bad)
  BY DEF CanAbandonSetup, SetupAbandoned
<1>4. \A q \in Seqs : \A c \in Conns : CanMarkRunning(r, q) => RowHonest(MarkedRunning(r, c), bad)
  BY DEF CanMarkRunning, MarkedRunning
<1>5. \A q \in Seqs : CanReport(r, q) => RowHonest(Reported(r), bad)
  BY DEF CanReport, Reported, Live
<1>6. \A q \in Seqs : CanSettle(r, q) => RowHonest(Settled(r), bad)
  BY DEF CanSettle, Settled, Live
<1>7. \A q \in Seqs : \A on \in BOOLEAN : CanFlip(r, q, on) => RowHonest(Flipped(r, on), bad)
  BY DEF CanFlip, Flipped, FlipFrom
<1>8. In(r, Waiting) => RowHonest(Failed(r), bad)
  BY DEF Failed, Waiting, Live
<1>9. \A plan \in {None, "later", "due"} : CanPlan(r) => RowHonest([r EXCEPT !.plan = plan], bad)
  BY DEF CanPlan
<1>10. r.plan = "later" => RowHonest([r EXCEPT !.plan = "due"], bad)
  BY DEF NoneAssumption
<1>11. CanCancel(r) => RowHonest(Canceled(r), FALSE)
  BY DEF CanCancel, Canceled
<1> HIDE DEF RowHonest, Rows, Statuses, Is, In
<1> QED  BY <1>1, <1>2, <1>3, <1>4, <1>5, <1>6, <1>7, <1>8, <1>9, <1>10, <1>11

\* Updates of a task in review or merging, and those that keep its status.
LEMMA MergeHonest ==
  ASSUME NoneAssumption, NEW r, NEW bad \in BOOLEAN, RowHonest(r, bad)
  PROVE  /\ \A q \in Seqs :
              /\ CanSetError(r, q) => RowHonest(WithError(r), TRUE)
              /\ \A i \in Intents, want \in Intents \cup {None} :
                   CanQueueMerge(r, q, want) => RowHonest(MergeQueued(r, i), FALSE)
              /\ \A c \in Conns : CanMarkMerging(r, q) => RowHonest(MarkedMerging(r, c), bad)
              /\ \A shows \in LightStates : CanLight(r, q) => RowHonest(Lit(r, shows), bad)
         /\ \A want \in Intents : CanClearQueued(r, want) => RowHonest(Unqueued(r), bad)
         /\ CanUnqueue(r) => RowHonest(Unqueued(r), FALSE)
         /\ CanLand(r) => RowHonest(Landed(r), bad)
         /\ CanGoBack(r) => RowHonest(BackToReview(r), TRUE)
         /\ CanComplete(r) => RowHonest(Completed(r), FALSE)
         /\ \A on \in BOOLEAN : RowHonest(Archived(r, on), bad)
         /\ RowHonest(Deleted(r), FALSE)
         /\ \A on \in BOOLEAN : RowHonest([r EXCEPT !.wt = on], bad)
<1> USE DEF RowHonest, Rows, Statuses, Is, In
<1>1. \A q \in Seqs : CanSetError(r, q) => RowHonest(WithError(r), TRUE)
  BY DEF CanSetError, WithError
<1>2. \A q \in Seqs : \A i \in Intents, want \in Intents \cup {None} :
        CanQueueMerge(r, q, want) => RowHonest(MergeQueued(r, i), FALSE)
  BY DEF CanQueueMerge, MergeQueued
<1>3. \A q \in Seqs : \A c \in Conns : CanMarkMerging(r, q) => RowHonest(MarkedMerging(r, c), bad)
  BY DEF CanMarkMerging, MarkedMerging
<1>4. \A q \in Seqs : \A shows \in LightStates : CanLight(r, q) => RowHonest(Lit(r, shows), bad)
  BY DEF CanLight, Lit
<1>5. \A want \in Intents : CanClearQueued(r, want) => RowHonest(Unqueued(r), bad)
  BY DEF Unqueued
<1>6. CanUnqueue(r) => RowHonest(Unqueued(r), FALSE)
  BY DEF Unqueued
<1>7. CanLand(r) => RowHonest(Landed(r), bad)
  BY DEF CanLand, Landed
<1>8. CanGoBack(r) => RowHonest(BackToReview(r), TRUE)
  BY DEF CanGoBack, BackToReview
<1>9. CanComplete(r) => RowHonest(Completed(r), FALSE)
  BY DEF CanComplete, Completed
<1>10. \A on \in BOOLEAN : RowHonest(Archived(r, on), bad)
  BY DEF Archived
<1>11. RowHonest(Deleted(r), FALSE)
  BY DEF Deleted
<1>12. \A on \in BOOLEAN : RowHonest([r EXCEPT !.wt = on], bad)
  OBVIOUS
<1> HIDE DEF RowHonest, Rows, Statuses, Is, In
<1> QED  BY <1>1, <1>2, <1>3, <1>4, <1>5, <1>6, <1>7, <1>8, <1>9, <1>10, <1>11, <1>12
-------------------------------------------------------------------------------
(* Steps.                                                                      *)

LEMMA AtTask ==
  ASSUME StoreInv, NEW t \in Tasks
  PROVE  RowHonest(task[t], failed[t]) /\ failed[t] \in BOOLEAN /\ task[t] \in Rows
BY DEF StoreInv, RowHonest

LEMMA RunStep ==
  ASSUME NoneAssumption, BoundsAssumption, StoreInv, NEW t \in Tasks, Run(t)
  PROVE  StoreInv'
<1> DEFINE r == task[t]
           bad == failed[t]
<1>1. RowHonest(r, bad) /\ bad \in BOOLEAN /\ r \in Rows
  BY AtTask
<1> HIDE DEF r, bad
<1>2. CASE \E from \in {"todo", "failed", "review"}, unplanned \in BOOLEAN : Claim(t, from, unplanned)
  <2>1. PICK from \in {"todo", "failed", "review"}, unplanned \in BOOLEAN : Claim(t, from, unplanned)
    BY <1>2
  <2>2. RowHonest(Claimed(r), FALSE)
    BY <1>1, <2>1, ClaimsHonest DEF Claim, CanBump, ByUser, Write, r
  <2> QED  BY <2>1, <2>2, User DEF Claim, r
<1>3. CASE AutoClaim(t)
  <2>1. RowHonest(AutoClaimed(r), bad)
    BY <1>1, <1>3, ClaimsHonest DEF AutoClaim, CanBump, Quietly, Write, r
  <2> QED  BY <1>3, <2>1, Quiet DEF AutoClaim, r, bad
<1>4. CASE ClaimDue(t)
  <2>1. RowHonest(DueClaimed(r), bad)
    BY <1>1, <1>4, ClaimsHonest DEF ClaimDue, CanBump, Quietly, Write, r
  <2> QED  BY <1>4, <2>1, Quiet DEF ClaimDue, r, bad
<1>5. CASE ComesDue(t)
  <2>1. RowHonest([r EXCEPT !.plan = "due"], bad)
    BY <1>1, <1>5, RunHonest DEF ComesDue, Quietly, Write, r
  <2> QED  BY <1>5, <2>1, Quiet DEF ComesDue, r, bad
<1>6. CASE Requeue(t)
  <2>1. RowHonest(Requeued(r), FALSE)
    BY <1>1, <1>6, RunHonest DEF Requeue, ByUser, Write, r
  <2> QED  BY <1>6, <2>1, User DEF Requeue, r
<1>7. CASE \E plan \in {None, "later", "due"} : SetSchedule(t, plan)
  <2>1. PICK plan \in {None, "later", "due"} : SetSchedule(t, plan)
    BY <1>7
  <2>2. RowHonest([r EXCEPT !.plan = plan], bad)
    BY <1>1, <2>1, RunHonest DEF SetSchedule, Quietly, Write, r
  <2> QED  BY <2>1, <2>2, Quiet DEF SetSchedule, r, bad
<1>8. ASSUME NEW q \in Seqs,
             BeginSetup(t, q) \/ AbandonSetup(t, q) \/ Settle(t, q) \/ SetVerdict(t, q)
      PROVE  StoreInv'
  <2>1. CASE BeginSetup(t, q)
    <3>1. RowHonest(SetupBegun(r), bad)
      BY <1>1, <2>1, RunHonest DEF BeginSetup, Quietly, Write, r
    <3> QED  BY <2>1, <3>1, Quiet DEF BeginSetup, r, bad
  <2>2. CASE AbandonSetup(t, q)
    <3>1. RowHonest(SetupAbandoned(r), bad)
      BY <1>1, <2>2, RunHonest DEF AbandonSetup, Quietly, Write, r
    <3> QED  BY <2>2, <3>1, Quiet DEF AbandonSetup, r, bad
  <2>3. CASE Settle(t, q)
    <3>1. RowHonest(Settled(r), bad)
      BY <1>1, <2>3, RunHonest DEF Settle, Quietly, Write, r
    <3> QED  BY <2>3, <3>1, Quiet DEF Settle, r, bad
  <2>4. CASE SetVerdict(t, q)
    <3>1. RowHonest(Reported(r), bad)
      BY <1>1, <2>4, RunHonest DEF SetVerdict, Quietly, Write, r
    <3> QED  BY <2>4, <3>1, Quiet DEF SetVerdict, r, bad
  <2> QED  BY <1>8, <2>1, <2>2, <2>3, <2>4
<1>9. ASSUME NEW q \in Seqs, NEW c \in Conns, MarkRunning(t, q, c)  PROVE StoreInv'
  <2>1. RowHonest(MarkedRunning(r, c), bad)
    BY <1>1, <1>9, RunHonest DEF MarkRunning, Quietly, Write, r
  <2> QED  BY <1>9, <2>1, Quiet DEF MarkRunning, r, bad
<1>10. ASSUME NEW q \in Seqs, NEW on \in BOOLEAN, Flip(t, q, on)  PROVE StoreInv'
  <2>1. RowHonest(Flipped(r, on), bad)
    BY <1>1, <1>10, RunHonest DEF Flip, Quietly, Write, r
  <2> QED  BY <1>10, <2>1, Quiet DEF Flip, r, bad
<1>11. ASSUME NEW q \in Seqs, NEW from \in {{"queued", "preparing"}, Live}, Fail(t, from, q)
       PROVE  StoreInv'
  <2>1. In(r, Waiting)
    BY <1>11 DEF Fail, Quietly, Write, Is, In, Waiting, r
  <2>2. RowHonest(Failed(r), bad)
    BY <1>1, <2>1, RunHonest
  <2> QED  BY <1>11, <2>2, Quiet DEF Fail, r, bad
<1>12. CASE BootReconcile(t)
  <2>1. RowHonest(Failed(r), bad)
    BY <1>1, <1>12, RunHonest DEF BootReconcile, Quietly, Write, r
  <2> QED  BY <1>12, <2>1, Quiet DEF BootReconcile, r, bad
<1>13. CASE Cancel(t)
  <2>1. RowHonest(Canceled(r), FALSE)
    BY <1>1, <1>13, RunHonest DEF Cancel, ByUser, Write, r
  <2> QED  BY <1>13, <2>1, User DEF Cancel, r
<1> QED
  BY <1>2, <1>3, <1>4, <1>5, <1>6, <1>7, <1>8, <1>9, <1>10, <1>11, <1>12, <1>13 DEF Run
LEMMA MergeStep ==
  ASSUME NoneAssumption, BoundsAssumption, StoreInv, NEW t \in Tasks, Merge(t)
  PROVE  StoreInv'
<1> DEFINE r == task[t]
           bad == failed[t]
<1>1. RowHonest(r, bad) /\ bad \in BOOLEAN /\ r \in Rows
  BY AtTask
<1> HIDE DEF r, bad
<1>2. ASSUME NEW q \in Seqs, NEW want \in Intents \cup {None}, BeginMerge(t, q, want)
      PROVE  StoreInv'
  <2>1. RowHonest(MergeBegun(r), FALSE)
    <3>1. CanBeginMerge(r, q, FALSE, want) /\ r.seq < MaxSeq
      BY <1>2 DEF BeginMerge, CanBump, ByUser, Write, r
    <3> QED  BY <1>1, <3>1, ClaimsHonest
  <2> QED  BY <1>2, <2>1, User DEF BeginMerge, r
<1>3. ASSUME NEW q \in Seqs, AutoMerge(t, q)  PROVE StoreInv'
  <2>1. RowHonest(MergeBegun(r), bad)
    <3>1. CanBeginMerge(r, q, TRUE, None) /\ r.seq < MaxSeq
      BY <1>3 DEF AutoMerge, CanBump, Quietly, Write, r
    <3> QED  BY <1>1, <3>1, ClaimsHonest
  <2> QED  BY <1>3, <2>1, Quiet DEF AutoMerge, r, bad
<1>4. ASSUME NEW q \in Seqs, SetReviewError(t, q)  PROVE StoreInv'
  <2>1. RowHonest(WithError(r), TRUE)
    BY <1>1, <1>4, MergeHonest DEF SetReviewError, MergeFailed, Write, r
  <2> QED  BY <1>4, <2>1, MergeLost DEF SetReviewError, r
<1>5. ASSUME NEW q \in Seqs, NEW i \in Intents, NEW want \in Intents \cup {None},
             QueueMerge(t, q, i, want)
      PROVE  StoreInv'
  <2>1. RowHonest(MergeQueued(r, i), FALSE)
    BY <1>1, <1>5, MergeHonest DEF QueueMerge, ByUser, Write, r
  <2> QED  BY <1>5, <2>1, User DEF QueueMerge, r
<1>6. ASSUME NEW q \in Seqs, NEW c \in Conns, MarkMerging(t, q, c)  PROVE StoreInv'
  <2>1. RowHonest(MarkedMerging(r, c), bad)
    BY <1>1, <1>6, MergeHonest DEF MarkMerging, Quietly, Write, r
  <2> QED  BY <1>6, <2>1, Quiet DEF MarkMerging, r, bad
<1>7. ASSUME NEW q \in Seqs, NEW shows \in LightStates, SetPreflight(t, q, shows)  PROVE StoreInv'
  <2>1. RowHonest(Lit(r, shows), bad)
    BY <1>1, <1>7, MergeHonest DEF SetPreflight, Quietly, Write, r
  <2> QED  BY <1>7, <2>1, Quiet DEF SetPreflight, r, bad
<1>8. ASSUME NEW want \in Intents, ClearQueued(t, want)  PROVE StoreInv'
  <2>1. RowHonest(Unqueued(r), bad)
    BY <1>1, <1>8, MergeHonest DEF ClearQueued, Quietly, Write, r
  <2> QED  BY <1>8, <2>1, Quiet DEF ClearQueued, r, bad
<1>9. CASE UnqueueMerge(t)
  <2>1. RowHonest(Unqueued(r), FALSE)
    BY <1>1, <1>9, MergeHonest DEF UnqueueMerge, ByUser, Write, r
  <2> QED  BY <1>9, <2>1, User DEF UnqueueMerge, r
<1>10. CASE MergeLanded(t)
  <2>1. RowHonest(Landed(r), bad)
    BY <1>1, <1>10, MergeHonest DEF MergeLanded, Quietly, Write, r
  <2> QED  BY <1>10, <2>1, Quiet DEF MergeLanded, r, bad
<1>11. CASE MergeBackToReview(t)
  <2>1. RowHonest(BackToReview(r), TRUE)
    BY <1>1, <1>11, MergeHonest DEF MergeBackToReview, MergeFailed, Write, r
  <2> QED  BY <1>11, <2>1, MergeLost DEF MergeBackToReview, r
<1>12. CASE Complete(t)
  <2>1. RowHonest(Completed(r), FALSE)
    BY <1>1, <1>12, MergeHonest DEF Complete, ByUser, Write, r
  <2> QED  BY <1>12, <2>1, User DEF Complete, r
<1> QED
  BY <1>2, <1>3, <1>4, <1>5, <1>6, <1>7, <1>8, <1>9, <1>10, <1>11, <1>12 DEF Merge

LEMMA KeepStep ==
  ASSUME NoneAssumption, StoreInv, NEW t \in Tasks, Keep(t)
  PROVE  StoreInv'
<1> DEFINE r == task[t]
           bad == failed[t]
<1>1. RowHonest(r, bad) /\ bad \in BOOLEAN
  BY AtTask
<1> HIDE DEF r, bad
<1>2. ASSUME NEW on \in BOOLEAN, SetArchived(t, on)  PROVE StoreInv'
  <2>1. RowHonest(Archived(r, on), bad)
    BY <1>1, MergeHonest
  <2> QED  BY <1>2, <2>1, Quiet DEF SetArchived, r, bad
<1>3. ASSUME NEW seen \in Statuses \ Budget, SoftDelete(t, seen)  PROVE StoreInv'
  <2>1. RowHonest(Deleted(r), FALSE)
    BY <1>1, MergeHonest
  <2> QED  BY <1>3, <2>1, User DEF SoftDelete, r
<1>4. CASE AttachWorktree(t)
  <2>1. RowHonest([r EXCEPT !.wt = TRUE], bad)
    BY <1>1, MergeHonest
  <2> QED  BY <1>4, <2>1, Quiet DEF AttachWorktree, r, bad
<1>5. CASE ClearWorktree(t)
  <2>1. RowHonest([r EXCEPT !.wt = FALSE], bad)
    BY <1>1, MergeHonest
  <2> QED  BY <1>5, <2>1, Quiet DEF ClearWorktree, r, bad
<1> QED  BY <1>2, <1>3, <1>4, <1>5 DEF Keep

LEMMA StoreStep ==
  ASSUME NoneAssumption, BoundsAssumption, StoreInv, [Next]_vars
  PROVE  StoreInv'
<1>1. CASE UNCHANGED vars  BY <1>1 DEF vars, StoreInv
<1>2. CASE Next  BY <1>2, RunStep, MergeStep, KeepStep DEF Next
<1> QED  BY <1>1, <1>2

LEMMA StoreInit ==
  ASSUME BoundsAssumption, Init
  PROVE  StoreInv
<1>1. NewRow \in Rows /\ RowHonest(NewRow, FALSE)
  BY DEF NewRow, Rows, RowHonest, Statuses, Seqs, BoundsAssumption
<1> QED  BY <1>1 DEF Init, StoreInv

\* What MCSessionsProofs takes of it for its instance.
LEMMA StoreSound ==
  ASSUME StoreInv
  PROVE  RowsSound /\ NoUnattendedRetry
<1>1. RowsSound
  BY DEF RowsSound, StoreInv, RowHonest, TypeOK, PlanOnlyInTodo, ParkedOnlyInReview, VerdictIsOwn
<1>2. NoUnattendedRetry
  <2> SUFFICES ASSUME NEW t \in Tasks, failed[t], NEW q \in Seqs, AutoMerge(t, q)  PROVE FALSE
    BY DEF NoUnattendedRetry
  <2>1. task[t].err  BY DEF StoreInv, RowHonest
  <2>2. ~task[t].err  BY DEF AutoMerge, Quietly, Write, CanBeginMerge
  <2> QED  BY <2>1, <2>2
<1> QED  BY <1>1, <1>2

-------------------------------------------------------------------------------
(* Theorems.                                                                   *)

\* Every row is honest, whatever calls meet it.
THEOREM StoreInvHolds == ASSUME NoneAssumption, BoundsAssumption PROVE Spec => []StoreInv
BY StoreInit, StoreStep, PTL DEF Spec

\* The columns keep their types: no update of work_task_service.rs leaves a status
\* without meaning, or a generation above those it was given.
THEOREM RowsTypeCorrect ==
  ASSUME NoneAssumption, BoundsAssumption PROVE Spec => []TypeOK
<1>1. StoreInv => TypeOK  BY DEF StoreInv, TypeOK
<1> QED  BY <1>1, StoreInvHolds, PTL

\* No plan outlives todo: a claim or a cancel consumes it, and set_schedule plans
\* nothing else, so that no old plan starts the task in a later life of it.
THEOREM PlansBelongToTodo ==
  ASSUME NoneAssumption, BoundsAssumption PROVE Spec => []PlanOnlyInTodo
<1>1. StoreInv => PlanOnlyInTodo  BY DEF StoreInv, RowHonest, PlanOnlyInTodo
<1> QED  BY <1>1, StoreInvHolds, PTL

\* No parked merge outlives the review it was asked for in, whether the merge begins,
\* the task is completed by hand, is run again or is canceled.
THEOREM ParkedMergesBelongToReview ==
  ASSUME NoneAssumption, BoundsAssumption PROVE Spec => []ParkedOnlyInReview
<1>1. StoreInv => ParkedOnlyInReview  BY DEF StoreInv, RowHonest, ParkedOnlyInReview
<1> QED  BY <1>1, StoreInvHolds, PTL

\* The verdict that on_turn_complete decides by is never one of an earlier generation:
\* every claim and every merge clears it, and set_verdict names the one it belongs to.
THEOREM VerdictsAreCurrent ==
  ASSUME NoneAssumption, BoundsAssumption PROVE Spec => []VerdictIsOwn
<1>1. StoreInv => VerdictIsOwn  BY DEF StoreInv, RowHonest, VerdictIsOwn
<1> QED  BY <1>1, StoreInvHolds, PTL

\* The columns together: a row never speaks of an earlier life of its task.
THEOREM RowsAreSound ==
  ASSUME NoneAssumption, BoundsAssumption PROVE Spec => []RowsSound
BY StoreSound, StoreInvHolds, PTL

\* claim_merge_auto finds no row whose merge has failed and whose user has not acted
\* since: last_error stays set, and the task in review, until a user acts.
THEOREM NothingRetriesUnattended ==
  ASSUME NoneAssumption, BoundsAssumption PROVE Spec => [][NoUnattendedRetry]_vars
BY StoreSound, StoreInvHolds, PTL DEF Spec
==============================================================================
