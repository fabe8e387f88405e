--------------------------- MODULE PromptQueueProofs ---------------------------
(* Theorems of PromptQueue that hold for every value of its constants.  First  *)
(* what the single transactions of QueueStore keep; then the type invariant,    *)
(* that a prompt which was handed over carries its dispatch mark, and that it    *)
(* is handed over at most once under one id; what one commit may never do,      *)
(* whoever makes it; then what relates the workers to what their users decided: *)
(* a cancel is final, nothing is lost or doubled, deliveries move with their    *)
(* rows, and what is dispatched is what was saved; last the same with the        *)
(* interrupts of module Interrupt.                                              *)
EXTENDS Interrupt, TLAPS

USE SubjectsAssumption, NullAssumption, BoundsAssumption, LateResendsAssumption

\* Every row value a transaction writes is a row.
LEMMA RowType ==
  ASSUME NEW st \in {"absent", "queued", "claimed", "paused"},
         NEW p \in Positions, NEW why \in Whys
  PROVE  Row(st, p, why) \in Rows
BY DEF Row, Rows, Owners

LEMMA ParkedType ==
  ASSUME NEW r \in Rows, NEW why \in Whys
  PROVE  Parked(r, why) \in Rows
BY DEF Parked, Rows, Owners

LEMMA AbsentRowType == AbsentRow \in Rows
BY RowType DEF AbsentRow, Positions, Whys

LEMMA PauseType ==
  ASSUME NEW k \in Kinds, NEW e \in Events \cup {None}
  PROVE  Pause(k, e) \in Pauses
BY DEF Pause, Pauses

LEMMA FollowTypes ==
  ASSUME StoreTypeOK, NEW S, NEW from
  PROVE  /\ \A to \in OpStates : OpFollows(S, from, to) => op' \in [Events -> OpStates]
         /\ \A to \in DeliveryStates :
              DeliveryFollows(S, from, to) => dlv' \in [Events -> DeliveryStates]
BY DEF StoreTypeOK, OpFollows, DeliveryFollows

\* The tables of a new installation are well typed.
LEMMA StoreInitType == StoreInit => StoreTypeOK
BY AbsentRowType, PauseType
DEF StoreInit, StoreTypeOK, Ids, NotPaused, Kinds, DeliveryStates, OpStates, Fates

LEMMA AppendType ==
  ASSUME StoreTypeOK, NEW s \in Subjects, NEW st \in {"queued", "paused"},
         NEW why \in Whys, Append(<<s, 0>>, st, why)
  PROVE  /\ item' \in [Ids -> Rows] /\ fate' \in [Subjects -> Fates]
         /\ fresh' \in BOOLEAN
<1>1. <<s, 0>> \in Ids  BY DEF Ids
<1>2. PICK p \in Positions : item' = [item EXCEPT ![<<s, 0>>] = Row(st, p, why)]
  BY DEF Append
<1>3. Row(st, p, why) \in Rows  BY RowType
<1> QED  BY <1>1, <1>2, <1>3 DEF Append, Bump, StoreTypeOK, Fates

\* What the clients commit is well typed.
LEMMA ClientTypes ==
  ASSUME StoreTypeOK,
         \/ \E m \in Msgs : Enqueue(m)
         \/ \E e \in Events, b \in BOOLEAN : SendEvent(e, b)
         \/ \E i \in Ids : Edit(i) \/ Delete(i) \/ RetryItem(i)
         \/ Reorder \/ PauseQueueIfPending \/ ResumeQueue \/ Refresh
         \/ \E b \in BOOLEAN : UpsertPolicy(b)
  PROVE  StoreTypeOK'
<1>1. ASSUME NEW m \in Msgs, Enqueue(m)  PROVE StoreTypeOK'
  <2>1. m \in Subjects  BY DEF Subjects
  <2> QED  BY <1>1, <2>1, AppendType DEF Enqueue, StoreTypeOK, Whys
<1>2. ASSUME NEW e \in Events, NEW b \in BOOLEAN, SendEvent(e, b)  PROVE StoreTypeOK'
  <2>1. e \in Subjects  BY DEF Subjects
  <2>2. \E st \in {"queued", "paused"}, why \in Whys : Append(<<e, 0>>, st, why)
    BY <1>2 DEF SendEvent, Whys
  <2>3. dlv' \in [Events -> DeliveryStates]
    BY <1>2 DEF SendEvent, StoreTypeOK, DeliveryStates
  <2> QED  BY <1>2, <2>1, <2>2, <2>3, AppendType DEF SendEvent, StoreTypeOK
<1>3. ASSUME NEW i \in Ids, Edit(i)  PROVE StoreTypeOK'
  <2>1. i[1] \in Msgs /\ draft[i[1]] \in 0..MaxEdits /\ draft[i[1]] < MaxEdits
    BY <1>3 DEF Edit, Ordinary, StoreTypeOK
  <2>2. draft' \in [Msgs -> 0..MaxEdits]
    BY <1>3, <2>1 DEF Edit, StoreTypeOK
  <2> QED  BY <1>3, <2>2 DEF Edit, StoreTypeOK, Bump
<1>4. ASSUME NEW i \in Ids, Delete(i)  PROVE StoreTypeOK'
  BY <1>4, AbsentRowType DEF Delete, StoreTypeOK, Bump, Fates
<1>5. ASSUME NEW i \in Ids, RetryItem(i)  PROVE StoreTypeOK'
  <2>1. i[1] \in Subjects /\ gen[i[1]] \in 0..MaxGen /\ gen[i[1]] < MaxGen
    BY <1>5 DEF RetryItem, Retryable, Ids, StoreTypeOK
  <2>2. gen[i[1]] + 1 \in 0..MaxGen /\ <<i[1], gen[i[1]] + 1>> \in Ids
    BY <2>1 DEF Ids
  <2>3. Row("queued", item[i].pos, "none") \in Rows
    <3>1. item[i].pos \in Positions  BY DEF StoreTypeOK, Rows
    <3> QED  BY <3>1, RowType DEF Whys
  <2>4. item' \in [Ids -> Rows]
    BY <1>5, <2>2, <2>3, AbsentRowType DEF RetryItem, StoreTypeOK
  <2>5. gen' \in [Subjects -> 0..MaxGen]
    BY <1>5, <2>1, <2>2 DEF RetryItem, StoreTypeOK
  <2>6. dlv' \in [Events -> DeliveryStates]
    BY <1>5, FollowTypes DEF RetryItem, DeliveryStates
  <2>7. pause' \in Pauses  BY <1>5, PauseType DEF RetryItem, NotPaused, Kinds
  <2> QED  BY <1>5, <2>4, <2>5, <2>6, <2>7 DEF RetryItem, StoreTypeOK, Bump
<1>6. ASSUME Reorder  PROVE StoreTypeOK'
  <2>1. PICK to \in [Ordinary -> Ordinary] :
          item' = [i \in Ids |-> IF i \in Ordinary
                                 THEN [item[i] EXCEPT !.pos = item[to[i]].pos]
                                 ELSE item[i]]
    BY <1>6 DEF Reorder, Bijection, Injection, Surjection
  <2>2. ASSUME NEW i \in Ordinary
        PROVE  [item[i] EXCEPT !.pos = item[to[i]].pos] \in Rows
    <3>1. i \in Ids /\ to[i] \in Ids  BY DEF Ordinary, Live
    <3>2. item[i] \in Rows /\ item[to[i]] \in Rows  BY <3>1 DEF StoreTypeOK
    <3> QED  BY <3>2 DEF Rows
  <2>3. item' \in [Ids -> Rows]  BY <2>1, <2>2 DEF StoreTypeOK
  <2> QED  BY <1>6, <2>3 DEF Reorder, StoreTypeOK, Bump
<1>7. ASSUME PauseQueueIfPending \/ ResumeQueue \/ Refresh  PROVE StoreTypeOK'
  BY <1>7, PauseType
  DEF PauseQueueIfPending, ResumeQueue, Refresh, StoreTypeOK, NotPaused, Kinds, Bump
<1>8. ASSUME NEW b \in BOOLEAN, UpsertPolicy(b)  PROVE StoreTypeOK'
  BY <1>8 DEF UpsertPolicy, StoreTypeOK
<1> QED  BY <1>1, <1>2, <1>3, <1>4, <1>5, <1>6, <1>7, <1>8

-------------------------------------------------------------------------------
(* Transactions of the workers and sweeps.                                     *)

LEMMA ClaimType ==
  ASSUME StoreTypeOK, NEW w \in Workers, NEW i \in Ids, ClaimHead(w, i)
  PROVE  StoreTypeOK'
<1>1. [item[i] EXCEPT !.st = "claimed", !.owner = w, !.started = FALSE,
                      !.expired = FALSE] \in Rows
  <2>1. item[i] \in Rows  BY DEF StoreTypeOK
  <2> QED  BY <2>1 DEF Rows, Owners
<1> QED  BY <1>1 DEF ClaimHead, StoreTypeOK, Bump

LEMMA MarkType ==
  ASSUME StoreTypeOK, NEW w \in Workers, NEW i \in Ids, MarkDispatchStarted(w, i)
  PROVE  StoreTypeOK'
<1>1. [item[i] EXCEPT !.started = TRUE] \in Rows
  <2>1. item[i] \in Rows  BY DEF StoreTypeOK
  <2> QED  BY <2>1 DEF Rows
<1>2. item' \in [Ids -> Rows]  BY <1>1 DEF MarkDispatchStarted, StoreTypeOK
<1>3. i[1] \in Subjects /\ gen[i[1]] \in 0..MaxGen  BY DEF Ids, StoreTypeOK
<1>4. gen' \in [Subjects -> 0..MaxGen]  BY <1>3 DEF MarkDispatchStarted, StoreTypeOK
<1>5. dlv' \in [Events -> DeliveryStates] /\ op' \in [Events -> OpStates]
  BY FollowTypes DEF MarkDispatchStarted, DeliveryStates, OpStates
<1> QED  BY <1>2, <1>4, <1>5 DEF MarkDispatchStarted, StoreTypeOK, Bump

LEMMA FinishTypes ==
  ASSUME StoreTypeOK, NEW w \in Workers, NEW i \in Ids,
         AcceptClaim(w, i) \/ ReleaseClaimBusy(w, i)
  PROVE  StoreTypeOK'
<1>1. item[i].pos \in Positions /\ item[i].why \in Whys  BY DEF StoreTypeOK, Rows
<1>2. Row("queued", item[i].pos, item[i].why) \in Rows  BY <1>1, RowType
<1>3. item' \in [Ids -> Rows]
  BY <1>2, AbsentRowType DEF AcceptClaim, ReleaseClaimBusy, StoreTypeOK
<1>4. dlv' \in [Events -> DeliveryStates] /\ op' \in [Events -> OpStates]
  BY FollowTypes DEF AcceptClaim, ReleaseClaimBusy, DeliveryStates, OpStates
<1> QED  BY <1>3, <1>4 DEF AcceptClaim, ReleaseClaimBusy, StoreTypeOK, Bump

LEMMA ParkTypes ==
  ASSUME StoreTypeOK, NEW i \in Ids,
         PauseDispatchUnknown(i) \/ \E w \in Workers : FailClaim(w, i)
  PROVE  StoreTypeOK'
<1>1. item[i] \in Rows  BY DEF StoreTypeOK
<1>2. Parked(item[i], "unknown") \in Rows /\ Parked(item[i], "failed") \in Rows
  BY <1>1, ParkedType DEF Whys
<1>3. item' \in [Ids -> Rows]
  BY <1>2 DEF PauseDispatchUnknown, FailClaim, StoreTypeOK
<1>4. dlv' \in [Events -> DeliveryStates] /\ op' \in [Events -> OpStates]
  BY FollowTypes
  DEF PauseDispatchUnknown, FailClaim, DeliveriesFail, DeliveryStates, OpStates
<1>5. pause' \in Pauses
  BY PauseType DEF PauseDispatchUnknown, FailClaim, Kinds
<1> QED  BY <1>3, <1>4, <1>5 DEF PauseDispatchUnknown, FailClaim, StoreTypeOK, Bump

LEMMA SweepTypes ==
  ASSUME StoreTypeOK,
         \/ RecoverExpiredClaims
         \/ \E b \in BOOLEAN : Reconcile(b)
  PROVE  StoreTypeOK'
<1>1. \A i \in Ids : /\ Parked(item[i], "unknown") \in Rows
                     /\ Row("queued", item[i].pos, item[i].why) \in Rows
                     /\ Row("queued", item[i].pos, "none") \in Rows
                     /\ Row("paused", item[i].pos, "policy") \in Rows
  <2>1. ASSUME NEW i \in Ids
        PROVE  item[i] \in Rows /\ item[i].pos \in Positions /\ item[i].why \in Whys
    BY DEF StoreTypeOK, Rows
  <2> QED  BY <2>1, RowType, ParkedType DEF Whys
<1>2. CASE RecoverExpiredClaims
  <2>1. item' \in [Ids -> Rows]
    BY <1>1, <1>2 DEF RecoverExpiredClaims, StoreTypeOK
  <2>2. dlv' \in [Events -> DeliveryStates] /\ op' \in [Events -> OpStates]
    BY <1>2, FollowTypes
    DEF RecoverExpiredClaims, DeliveriesFail, DeliveryStates, OpStates
  <2>3. pause' \in Pauses
    BY <1>2, PauseType DEF RecoverExpiredClaims, StoreTypeOK, Kinds
  <2> QED  BY <1>2, <2>1, <2>2, <2>3 DEF RecoverExpiredClaims, StoreTypeOK, Bump
<1>3. ASSUME NEW b \in BOOLEAN, Reconcile(b)  PROVE StoreTypeOK'
  <2>1. item' \in [Ids -> Rows]  BY <1>1, <1>3 DEF Reconcile, StoreTypeOK
  <2> QED  BY <1>3, <2>1 DEF Reconcile, StoreTypeOK
<1> QED  BY <1>2, <1>3

LEMMA InterruptTypes ==
  ASSUME StoreTypeOK,
         ObserveTerminal \/ \E stale \in SUBSET Events : RecoverInterrupts(stale)
  PROVE  StoreTypeOK'
<1>1. CASE ObserveTerminal
  <2>1. NotPaused \in Pauses  BY PauseType DEF NotPaused, Kinds
  <2>2. op' \in [Events -> OpStates]
    BY <1>1 DEF ObserveTerminal, StoreTypeOK, OpStates
  <2>3. pause' \in Pauses
    BY <1>1, <2>1 DEF ObserveTerminal, ClearOwnedPause, StoreTypeOK
  <2>4. fresh' \in BOOLEAN
    BY <1>1 DEF ObserveTerminal, ClearOwnedPause, StoreTypeOK, Bump
  <2> QED  BY <1>1, <2>2, <2>3, <2>4 DEF ObserveTerminal, StoreTypeOK
<1>2. ASSUME NEW stale \in SUBSET Events, RecoverInterrupts(stale)  PROVE StoreTypeOK'
  <2>1. op' \in [Events -> OpStates]
    BY <1>2 DEF RecoverInterrupts, StoreTypeOK, OpStates
  <2>2. pause.by \in Events \cup {None}  BY DEF StoreTypeOK, Pauses
  <2>3. NotPaused \in Pauses /\ Pause("interrupt_failed", pause.by) \in Pauses
    BY <2>2, PauseType DEF NotPaused, Kinds
  <2>4. pause' \in Pauses
    BY <1>2, <2>3 DEF RecoverInterrupts, StoreTypeOK
  <2>5. fresh' \in BOOLEAN
    BY <1>2 DEF RecoverInterrupts, StoreTypeOK, Bump
  <2> QED  BY <1>2, <2>1, <2>4, <2>5 DEF RecoverInterrupts, StoreTypeOK
<1> QED  BY <1>1, <1>2

-------------------------------------------------------------------------------
(* What the rows have in common, and what a quiet transaction does to them.    *)

\* A row that carries the dispatch mark is claimed or parked for a human; the
\* policy froze only unmarked rows; the ids in the table have been given out.
RowHonest(i) ==
  /\ item[i].started => item[i].st \in {"claimed", "paused"} /\ i[2] <= gen[i[1]]
  /\ item[i].st = "paused" /\ item[i].why = "policy" => ~item[i].started
  /\ item[i].st # "absent" => /\ fate[i[1]] # "unsent"
                              /\ i[2] <= gen[i[1]] + (IF IsOrigin(i) THEN 1 ELSE 0)
RowsHonest == \A i \in Ids : RowHonest(i)

\* A transaction other than a claim, a mark and a release marks no row, takes
\* no mark back, gives no claim to a live worker and reuses no id.
QuietRow(i) ==
  /\ item'[i].started => item[i].started
  /\ item[i].started => item'[i].started \/ item'[i].st = "absent"
  /\ item[i].st = "absent" /\ item'[i].st # "absent"
       => fate[i[1]] = "unsent" \/ i[2] > gen[i[1]]
  /\ item'[i].st = "claimed" => /\ item[i].st = "claimed"
                                /\ item'[i].owner \in {item[i].owner, Gone}
Quiet ==
  /\ \A i \in Ids : QuietRow(i)
  /\ \A s \in Subjects : /\ gen[s] <= gen'[s]
                         /\ fate[s] # "unsent" => fate'[s] # "unsent"

\* A transaction that changes no row, identity or fate is quiet.
LEMMA RowsUnchanged ==
  ASSUME StoreTypeOK, RowsHonest, UNCHANGED <<item, gen, fate>>
  PROVE  RowsHonest' /\ Quiet
<1>1. \A s \in Subjects : gen[s] <= gen[s]  BY DEF StoreTypeOK
<1> QED
  BY <1>1 DEF RowsHonest, RowHonest, Quiet, QuietRow, IsOrigin

LEMMA AppendQuiet ==
  ASSUME StoreTypeOK, RowsHonest, NEW s \in Subjects, fate[s] = "unsent",
         NEW st \in {"queued", "paused"}, NEW why \in Whys \ {"policy"},
         Append(<<s, 0>>, st, why), UNCHANGED gen
  PROVE  RowsHonest' /\ Quiet
<1>1. PICK p \in Positions : item' = [item EXCEPT ![<<s, 0>>] = Row(st, p, why)]
  BY DEF Append
<1>2. <<s, 0>> \in Ids  BY DEF Ids
<1>3. fate' = [fate EXCEPT ![s] = "submitted"]  BY DEF Append
<1>4. \A t \in Subjects : gen[t] \in Nat  BY DEF StoreTypeOK
<1>5. ASSUME NEW i \in Ids  PROVE RowHonest(i)' /\ QuietRow(i)
  <2>1. i[1] \in Subjects /\ i[2] \in Nat /\ i = <<i[1], i[2]>>  BY DEF Ids
  <2>2. CASE i = <<s, 0>>
    <3>1. item'[i] = Row(st, p, why) /\ item[i].st = "absent"
      BY <1>1, <1>2, <2>2 DEF StoreTypeOK, Append
    <3>2. ~item[i].started  BY <3>1 DEF RowsHonest, RowHonest
    <3>3. fate'[i[1]] # "unsent" /\ i[2] = 0 /\ gen'[i[1]] \in Nat
      BY <1>3, <1>4, <2>1, <2>2 DEF StoreTypeOK
    <3> QED
      BY <3>1, <3>2, <3>3, <2>2 DEF Row, RowHonest, QuietRow, IsOrigin
  <2>3. CASE i # <<s, 0>>
    <3>1. item'[i] = item[i]  BY <1>1, <2>3 DEF StoreTypeOK
    <3>2. fate[i[1]] # "unsent" => fate'[i[1]] # "unsent"
      BY <1>3, <2>1 DEF StoreTypeOK
    <3> QED
      BY <3>1, <3>2 DEF RowsHonest, RowHonest, QuietRow, IsOrigin
  <2> QED  BY <2>2, <2>3
<1>6. \A t \in Subjects : gen[t] <= gen'[t] /\ (fate[t] # "unsent" => fate'[t] # "unsent")
  BY <1>3, <1>4 DEF StoreTypeOK
<1> QED  BY <1>5, <1>6 DEF RowsHonest, Quiet

\* What the clients commit is quiet, as long as nobody repeats an enqueue whose
\* row is gone.
LEMMA ClientQuiet ==
  ASSUME StoreTypeOK, RowsHonest, ~LateResends,
         \/ \E m \in Msgs : Enqueue(m)
         \/ \E e \in Events, b \in BOOLEAN : SendEvent(e, b)
         \/ \E i \in Ids : Edit(i) \/ Delete(i) \/ RetryItem(i)
         \/ Reorder \/ PauseQueueIfPending \/ ResumeQueue \/ Refresh
         \/ \E b \in BOOLEAN : UpsertPolicy(b)
  PROVE  RowsHonest' /\ Quiet
<1> DEFINE Goal == RowsHonest' /\ Quiet
<1>0. \A s \in Subjects : gen[s] \in Nat  BY DEF StoreTypeOK
<1>1. ASSUME NEW m \in Msgs, Enqueue(m)  PROVE Goal
  <2>1. m \in Subjects  BY DEF Subjects
  <2>2. fate[m] = "unsent" /\ Append(<<m, 0>>, "queued", "none") /\ UNCHANGED gen
    BY <1>1 DEF Enqueue
  <2> QED  BY <2>1, <2>2, AppendQuiet DEF Whys
<1>2. ASSUME NEW e \in Events, NEW b \in BOOLEAN, SendEvent(e, b)  PROVE Goal
  <2>1. e \in Subjects  BY DEF Subjects
  <2>2. PICK st \in {"queued", "paused"}, why \in Whys \ {"policy"} :
          Append(<<e, 0>>, st, why)
    BY <1>2 DEF SendEvent, Whys
  <2>3. fate[e] = "unsent" /\ UNCHANGED gen  BY <1>2 DEF SendEvent
  <2> QED  BY <2>1, <2>2, <2>3, AppendQuiet
<1>3. CASE \E i \in Ids : Edit(i)
  BY <1>3, RowsUnchanged DEF Edit
<1>4. ASSUME NEW i \in Ids, Delete(i)  PROVE Goal
  <2>1. i[1] \in Subjects  BY DEF Ids
  <2>2. item' = [item EXCEPT ![i] = AbsentRow]
        /\ fate' = [fate EXCEPT ![i[1]] = "deleted"] /\ gen' = gen
    BY <1>4 DEF Delete
  <2>3. ASSUME NEW j \in Ids  PROVE RowHonest(j)' /\ QuietRow(j)
    <3>1. j[1] \in Subjects  BY DEF Ids
    <3>2. fate[j[1]] # "unsent" => fate'[j[1]] # "unsent"
      BY <2>2, <3>1 DEF StoreTypeOK
    <3>3. item'[j] = IF j = i THEN AbsentRow ELSE item[j]
      BY <2>2 DEF StoreTypeOK
    <3> QED
      BY <2>2, <3>2, <3>3
      DEF RowsHonest, RowHonest, QuietRow, IsOrigin, AbsentRow, Row
  <2>4. \A s \in Subjects : gen[s] <= gen'[s] /\ (fate[s] # "unsent" => fate'[s] # "unsent")
    BY <1>0, <2>2 DEF StoreTypeOK
  <2> QED  BY <2>3, <2>4 DEF RowsHonest, Quiet
<1>5. ASSUME NEW i \in Ids, RetryItem(i)  PROVE Goal
  <2> DEFINE s == i[1]
             n == gen[s] + 1
  <2>1. s \in Subjects /\ gen[s] \in Nat /\ gen[s] < MaxGen /\ <<s, n>> \in Ids
    BY <1>5 DEF RetryItem, Retryable, Ids, StoreTypeOK
  <2>2. item' = [item EXCEPT ![i] = AbsentRow,
                            ![<<s, n>>] = Row("queued", item[i].pos, "none")]
    BY <1>5 DEF RetryItem
  <2>3. /\ gen' = [gen EXCEPT ![s] = IF s \in Msgs THEN n ELSE gen[s]]
        /\ fate' = fate
    BY <1>5 DEF RetryItem
  <2>4. fate[s] # "unsent"  BY <1>5 DEF RetryItem, Retryable, RowsHonest, RowHonest
  <2>5. \A t \in Subjects : gen[t] <= gen'[t] /\ gen'[t] \in Nat
    BY <1>0, <2>1, <2>3 DEF StoreTypeOK
  <2>6. ASSUME NEW j \in Ids  PROVE RowHonest(j)' /\ QuietRow(j)
    <3>1. j[1] \in Subjects /\ j[2] \in Nat /\ gen[j[1]] \in Nat
          /\ gen[j[1]] <= gen'[j[1]] /\ gen'[j[1]] \in Nat
      BY <1>0, <2>5 DEF Ids
    <3>2. CASE j = <<s, n>>
      <4>1. item'[j] = Row("queued", item[i].pos, "none")
        BY <2>1, <2>2, <3>2 DEF StoreTypeOK
      <4>2. ~item[j].started
        <5>1. ~(j[2] <= gen[j[1]])  BY <2>1, <3>2
        <5> QED  BY <5>1 DEF RowsHonest, RowHonest
      <4>3. j[2] <= gen'[j[1]] + (IF IsOrigin(j) THEN 1 ELSE 0)
        BY <2>1, <2>3, <3>2 DEF IsOrigin, Subjects, StoreTypeOK
      <4> QED
        BY <2>1, <2>3, <2>4, <3>2, <4>1, <4>2, <4>3
        DEF RowHonest, QuietRow, Row, IsOrigin
    <3>3. CASE j # <<s, n>> /\ j = i
      <4>1. item'[j] = AbsentRow  BY <2>1, <2>2, <3>3 DEF StoreTypeOK
      <4> QED  BY <4>1 DEF RowHonest, QuietRow, AbsentRow, Row
    <3>4. CASE j # <<s, n>> /\ j # i
      <4>1. item'[j] = item[j]  BY <2>2, <3>4 DEF StoreTypeOK
      <4> QED
        BY <2>3, <3>1, <4>1 DEF RowsHonest, RowHonest, QuietRow, IsOrigin
    <3> QED  BY <3>2, <3>3, <3>4
  <2> QED  BY <2>3, <2>5, <2>6 DEF RowsHonest, Quiet
<1>6. CASE Reorder
  <2>1. PICK to : item' = [i \in Ids |-> IF i \in Ordinary
                                         THEN [item[i] EXCEPT !.pos = item[to[i]].pos]
                                         ELSE item[i]]
    BY <1>6 DEF Reorder
  <2>2. UNCHANGED <<gen, fate>>  BY <1>6 DEF Reorder
  <2>3. ASSUME NEW j \in Ids  PROVE RowHonest(j)' /\ QuietRow(j)
    <3>1. item[j] \in Rows  BY DEF StoreTypeOK
    <3>2. /\ item'[j].st = item[j].st /\ item'[j].started = item[j].started
          /\ item'[j].why = item[j].why /\ item'[j].owner = item[j].owner
      BY <2>1, <3>1 DEF Rows
    <3> QED  BY <2>2, <3>2 DEF RowsHonest, RowHonest, QuietRow, IsOrigin
  <2> QED  BY <1>0, <2>2, <2>3 DEF RowsHonest, Quiet
<1>7. CASE PauseQueueIfPending \/ ResumeQueue \/ Refresh
  BY <1>7, RowsUnchanged DEF PauseQueueIfPending, ResumeQueue, Refresh
<1>8. CASE \E b \in BOOLEAN : UpsertPolicy(b)
  BY <1>8, RowsUnchanged DEF UpsertPolicy
<1> QED  BY <1>1, <1>2, <1>3, <1>4, <1>5, <1>6, <1>7, <1>8

\* A claim takes a row of the queue, which carries no mark.
LEMMA ClaimHonest ==
  ASSUME StoreTypeOK, RowsHonest, NEW w \in Workers, NEW i \in Ids, ClaimHead(w, i)
  PROVE  /\ RowsHonest' /\ UNCHANGED <<gen, fate>>
         /\ item[i].st = "queued" /\ item'[i].st = "claimed" /\ ~item'[i].started
         /\ \A j \in Ids \ {i} : item'[j] = item[j]
<1>1. item[i] \in Rows /\ item[i].st = "queued"
  BY DEF StoreTypeOK, ClaimHead, NextToClaim, IsFirst, QueuedRows
<1>2. /\ item'[i].st = "claimed" /\ ~item'[i].started
      /\ \A j \in Ids \ {i} : item'[j] = item[j]
  BY <1>1 DEF ClaimHead, StoreTypeOK, Rows
<1>3. UNCHANGED <<gen, fate>>  BY DEF ClaimHead
<1> QED  BY <1>1, <1>2, <1>3 DEF RowsHonest, RowHonest, IsOrigin

\* A mark is put on a claimed row of its worker, whose id is then given out.
LEMMA MarkHonest ==
  ASSUME StoreTypeOK, RowsHonest, NEW w \in Workers, NEW i \in Ids,
         MarkDispatchStarted(w, i)
  PROVE  /\ RowsHonest' /\ UNCHANGED fate
         /\ Owns(w, i) /\ Owns(w, i)' /\ item'[i].started
         /\ i[2] <= gen'[i[1]] /\ fate[i[1]] # "unsent"
         /\ \A j \in Ids \ {i} : item'[j] = item[j]
         /\ \A s \in Subjects : gen[s] <= gen'[s]
<1> DEFINE s == i[1]
<1>1. s \in Subjects /\ i[2] \in 0..MaxGen /\ gen[s] \in 0..MaxGen
  BY DEF Ids, StoreTypeOK
<1>2. /\ item[i].st = "claimed" /\ item[i].owner = w
      /\ item' = [item EXCEPT ![i] = [item[i] EXCEPT !.started = TRUE]]
      /\ gen' = [gen EXCEPT ![s] = IF s \in Events /\ gen[s] < MaxGen
                                   THEN gen[s] + 1 ELSE gen[s]]
      /\ fate' = fate
  BY DEF MarkDispatchStarted, MayStart, Owns, IsOrigin
<1>3. item[i] \in Rows  BY DEF StoreTypeOK
<1>4. /\ item'[i].started /\ item'[i].st = "claimed" /\ item'[i].owner = w
      /\ \A j \in Ids \ {i} : item'[j] = item[j]
  BY <1>2, <1>3 DEF StoreTypeOK, Rows
<1>5. i[2] <= gen[s] + (IF s \in Events THEN 1 ELSE 0) /\ fate[s] # "unsent"
  BY <1>2 DEF RowsHonest, RowHonest, IsOrigin
<1>6. i[2] <= gen'[s] /\ gen'[s] \in Nat
  BY <1>1, <1>2, <1>5 DEF StoreTypeOK
<1>7. \A t \in Subjects : gen[t] <= gen'[t] /\ gen[t] \in Nat /\ gen'[t] \in Nat
  BY <1>1, <1>2 DEF StoreTypeOK
<1>8. ASSUME NEW j \in Ids  PROVE RowHonest(j)'
  <2>1. CASE j = i
    BY <1>2, <1>4, <1>5, <1>6, <1>1, <2>1 DEF RowHonest, IsOrigin
  <2>2. CASE j # i
    <3>1. j[1] \in Subjects /\ j[2] \in Nat  BY DEF Ids
    <3> QED  BY <1>2, <1>4, <1>7, <2>2, <3>1 DEF RowsHonest, RowHonest, IsOrigin
  <2> QED  BY <2>1, <2>2
<1> QED  BY <1>2, <1>4, <1>5, <1>6, <1>7, <1>8 DEF RowsHonest, Owns

\* A busy release returns the worker's own claimed row to the queue, unmarked.
LEMMA ReleaseHonest ==
  ASSUME StoreTypeOK, RowsHonest, NEW w \in Workers, NEW i \in Ids,
         ReleaseClaimBusy(w, i)
  PROVE  /\ RowsHonest' /\ UNCHANGED <<gen, fate>> /\ Owns(w, i)
         /\ item'[i].st = "queued" /\ ~item'[i].started
         /\ \A j \in Ids \ {i} : item'[j] = item[j]
<1>1. /\ Owns(w, i)
      /\ item' = [item EXCEPT ![i] = Row("queued", item[i].pos, item[i].why)]
      /\ UNCHANGED <<gen, fate>>
  BY DEF ReleaseClaimBusy, MayFinish
<1>2. /\ item'[i].st = "queued" /\ ~item'[i].started
      /\ \A j \in Ids \ {i} : item'[j] = item[j]
  BY <1>1 DEF StoreTypeOK, Row
<1> QED  BY <1>1, <1>2 DEF RowsHonest, RowHonest, Owns, IsOrigin

\* A transaction that only parks rows, removes them or returns unmarked ones.
LEMMA RowWiseQuiet ==
  ASSUME StoreTypeOK, RowsHonest, UNCHANGED <<gen, fate>>,
         \A i \in Ids :
           \/ item'[i] = item[i]
           \/ item'[i] = AbsentRow
           \/ /\ item[i].st # "absent" /\ ~item[i].started
              /\ \E why \in Whys : \/ item'[i] = Row("queued", item[i].pos, why)
                                   \/ item'[i] = Row("paused", item[i].pos, why)
           \/ /\ item[i].st # "absent"
              /\ \E why \in {"unknown", "failed"} : item'[i] = Parked(item[i], why)
           \/ /\ item'[i].st = item[i].st /\ item'[i].started = item[i].started
              /\ item'[i].why = item[i].why
              /\ item'[i].owner \in {item[i].owner, Gone}
  PROVE  RowsHonest' /\ Quiet
<1>1. ASSUME NEW i \in Ids  PROVE RowHonest(i)' /\ QuietRow(i)
  <2>1. item[i] \in Rows /\ RowHonest(i)  BY DEF StoreTypeOK, RowsHonest
  <2>2. CASE item'[i] = item[i]
    BY <2>1, <2>2 DEF RowHonest, QuietRow, IsOrigin
  <2>3. CASE item'[i] = AbsentRow
    BY <2>1, <2>3 DEF RowHonest, QuietRow, IsOrigin, AbsentRow, Row
  <2>4. ASSUME item[i].st # "absent", ~item[i].started, NEW why \in Whys,
               \/ item'[i] = Row("queued", item[i].pos, why)
               \/ item'[i] = Row("paused", item[i].pos, why)
        PROVE  RowHonest(i)' /\ QuietRow(i)
    BY <2>1, <2>4 DEF RowHonest, QuietRow, IsOrigin, Row
  <2>5. ASSUME item[i].st # "absent", NEW why \in {"unknown", "failed"},
               item'[i] = Parked(item[i], why)
        PROVE  RowHonest(i)' /\ QuietRow(i)
    <3>1. item'[i].st = "paused" /\ item'[i].started = item[i].started
          /\ item'[i].why = why
      BY <2>1, <2>5 DEF Parked, Rows
    <3> QED  BY <2>1, <2>5, <3>1 DEF RowHonest, QuietRow, IsOrigin
  <2>6. CASE /\ item'[i].st = item[i].st /\ item'[i].started = item[i].started
             /\ item'[i].why = item[i].why
             /\ item'[i].owner \in {item[i].owner, Gone}
    BY <2>1, <2>6 DEF RowHonest, QuietRow, IsOrigin
  <2> QED  BY <2>2, <2>3, <2>4, <2>5, <2>6
<1>2. \A s \in Subjects : gen[s] <= gen'[s]  BY DEF StoreTypeOK
<1> QED  BY <1>1, <1>2 DEF RowsHonest, Quiet

\* The other transactions of the workers and the sweeps are quiet.
LEMMA WorkerQuiet ==
  ASSUME StoreTypeOK, RowsHonest,
         \/ \E w \in Workers, i \in Ids : AcceptClaim(w, i) \/ FailClaim(w, i)
         \/ \E i \in Ids : PauseDispatchUnknown(i)
         \/ RecoverExpiredClaims
         \/ \E b \in BOOLEAN : Reconcile(b)
         \/ ObserveTerminal
         \/ \E stale \in SUBSET Events : RecoverInterrupts(stale)
  PROVE  RowsHonest' /\ Quiet
<1>1. CASE \E w \in Workers, i \in Ids : AcceptClaim(w, i)
  BY <1>1, RowWiseQuiet DEF AcceptClaim, StoreTypeOK
<1>2. CASE \E w \in Workers, i \in Ids : FailClaim(w, i)
  BY <1>2, RowWiseQuiet DEF FailClaim, Owns, StoreTypeOK
<1>3. CASE \E i \in Ids : PauseDispatchUnknown(i)
  BY <1>3, RowWiseQuiet DEF PauseDispatchUnknown, RowsHonest, RowHonest, StoreTypeOK
<1>4. CASE RecoverExpiredClaims
  <2>1. \A i \in Ids : item[i].why \in Whys  BY DEF StoreTypeOK, Rows
  <2> QED
    BY <1>4, <2>1, RowWiseQuiet DEF RecoverExpiredClaims, ExpiredClaims, StoreTypeOK
<1>5. ASSUME NEW b \in BOOLEAN, Reconcile(b)  PROVE RowsHonest' /\ Quiet
  <2>1. \A i \in Frozen \cup Freezable : item[i].st # "absent" /\ ~item[i].started
    BY DEF Frozen, Freezable, RowsHonest, RowHonest
  <2> QED
    BY <1>5, <2>1, RowWiseQuiet DEF Reconcile, StoreTypeOK, Whys
<1>6. CASE ObserveTerminal
  BY <1>6, RowsUnchanged DEF ObserveTerminal
<1>7. CASE \E stale \in SUBSET Events : RecoverInterrupts(stale)
  BY <1>7, RowsUnchanged DEF RecoverInterrupts
<1> QED  BY <1>1, <1>2, <1>3, <1>4, <1>5, <1>6, <1>7

-------------------------------------------------------------------------------
(* The workers and the clients on these tables.                                *)

USE SteerAssumption, FaultsAssumption

\* The steps at which a worker carries the row it claimed.
Carrying == {"freeze", "recheck", "mark", "refuse", "send", "admitted", "ack",
             "accept", "uncertain", "release", "fail"}
CarriesId(w) == pc[w] \in Carrying => held[w] \in Ids
WorkerTypeOK == /\ pc \in [Workers -> Steps]
                /\ held \in [Workers -> Ids \cup {None}]
                /\ text \in [Workers -> 0..MaxEdits]
                /\ steer \in [Workers -> BOOLEAN]
                /\ bound \in [Workers -> BOOLEAN]
                /\ \A w \in Workers : CarriesId(w)
RuntimeTypeOK == /\ conn \in [Workers -> Runtimes]
                 /\ saving \in {"no", "on", "off"}
                 /\ halt \in [Workers -> Halts]
                 /\ crashes \in 0..MaxCrashes
                 /\ handed \in [Ids -> 0..2]
                 /\ onWire \subseteq Ids
TypeInv == StoreTypeOK /\ WorkerTypeOK /\ RuntimeTypeOK

-------------------------------------------------------------------------------
(* The invariant of the dispatch boundary.                                     *)

\* A prompt that was handed over is out of the table or marked, it was handed
\* over once, and its id will not be given out again.
Spent(i) == /\ item[i].st = "absent" \/ item[i].started
            /\ fate[i[1]] # "unsent" /\ i[2] <= gen[i[1]]
HandedOnce == \A i \in Ids : handed[i] <= 1 /\ (handed[i] > 0 => Spent(i))

\* Before its mark a worker's row is unmarked; a row its owner is about to
\* release was not handed over.
BeforeMark == {"freeze", "recheck", "mark", "refuse"}
NotYetMarked(w) ==
  /\ pc[w] \in BeforeMark /\ Owns(w, held[w]) => ~item[held[w]].started
  /\ pc[w] = "release" /\ Owns(w, held[w]) => handed[held[w]] = 0

\* A worker beyond its mark has the only offer of an id that was not handed
\* over: no other worker owns the row, and nobody will reuse the id.
HoldsOffer(w) ==
  Beyond(w) => /\ handed[held[w]] = 0 /\ Spent(held[w])
               /\ item[held[w]].st = "claimed" => item[held[w]].owner \in {w, Gone}
OneOffer ==
  \A v, w \in Workers : Beyond(v) /\ Beyond(w) /\ held[v] = held[w] => v = w

IInv == /\ TypeInv
        /\ RowsHonest
        /\ HandedOnce
        /\ \A w \in Workers : NotYetMarked(w) /\ HoldsOffer(w)
        /\ OneOffer

-------------------------------------------------------------------------------
(* Types.                                                                      *)

LEMMA TypeInvImpliesTypeOK == TypeInv => TypeOK
BY DEF TypeInv, TypeOK, WorkerTypeOK, RuntimeTypeOK

\* Steps that leave the tables, the runtimes or the workers alone.
LEMMA StoreUnchanged ==
  ASSUME StoreTypeOK, UNCHANGED storeVars
  PROVE  StoreTypeOK'
BY DEF storeVars, StoreTypeOK

LEMMA RuntimeUnchanged ==
  ASSUME RuntimeTypeOK, UNCHANGED runtimeVars
  PROVE  RuntimeTypeOK'
BY DEF runtimeVars, RuntimeTypeOK

LEMMA WorkersUnchanged ==
  ASSUME WorkerTypeOK, UNCHANGED workerVars
  PROVE  WorkerTypeOK'
BY DEF workerVars, WorkerTypeOK, CarriesId

\* A worker moves on with the item it carries, or drops it.
LEMMA GotoType ==
  ASSUME WorkerTypeOK, NEW w \in Workers, NEW l \in Steps, Goto(w, l),
         UNCHANGED <<held, text, steer>>, bound' = bound \/ Found(w),
         l \in Carrying => pc[w] \in Carrying
  PROVE  WorkerTypeOK'
BY DEF WorkerTypeOK, CarriesId, Goto, Found

LEMMA DoneType ==
  ASSUME WorkerTypeOK, NEW w \in Workers, Done(w)
  PROVE  WorkerTypeOK'
<1>1. "idle" \in Steps \ Carrying  BY DEF Steps, Carrying
<1>2. 0 \in 0..MaxEdits  BY BoundsAssumption
<1> QED  BY <1>1, <1>2 DEF WorkerTypeOK, CarriesId, Done, Goto

LEMMA HandType ==
  ASSUME RuntimeTypeOK, NEW i \in Ids, Hand(i)
  PROVE  handed' \in [Ids -> 0..2]
<1>1. handed[i] \in 0..2  BY DEF RuntimeTypeOK
<1> QED  BY <1>1 DEF RuntimeTypeOK, Hand

\* Every step of a worker keeps the state well typed.
LEMMA WorkerStepType ==
  ASSUME TypeInv, NEW w \in Workers, WorkerStep(w)
  PROVE  TypeInv'
<1> USE DEF TypeInv
<1>0. pc[w] \in Carrying => held[w] \in Ids  BY DEF WorkerTypeOK, CarriesId
<1>1. CASE Observe(w)
  BY <1>1, StoreUnchanged, RuntimeUnchanged, GotoType
  DEF Observe, At, Steps, Carrying
<1>2. CASE TellInterrupt(w)
  BY <1>2, StoreUnchanged, InterruptTypes, RuntimeUnchanged, GotoType
  DEF TellInterrupt, Step, Steps, Carrying
<1>3. CASE ObserveBusy(w)
  <2>1. StoreTypeOK' /\ RuntimeTypeOK'
    BY <1>3, StoreUnchanged, RuntimeUnchanged DEF ObserveBusy, storeVars, runtimeVars
  <2>2. WorkerTypeOK'
    BY <1>3 DEF ObserveBusy, WorkerTypeOK, CarriesId, Goto, Found, Steps, Carrying
  <2> QED  BY <2>1, <2>2
<1>4. CASE Claim(w)
  <2>1. PICK i \in Ids :
          /\ ClaimHead(w, i)
          /\ held' = [held EXCEPT ![w] = i]
          /\ text' = [text EXCEPT ![w] = IF IsOrigin(i) THEN 0 ELSE draft[i[1]]]
          /\ Goto(w, IF steer[w] /\ i[1] \notin SteerEvents THEN "release" ELSE "freeze")
    BY <1>4 DEF Claim
  <2>2. ~IsOrigin(i) => draft[i[1]] \in 0..MaxEdits
    BY DEF Ids, Subjects, IsOrigin, StoreTypeOK
  <2>3. PICK l \in {"release", "freeze"} : Goto(w, l)  BY <2>1
  <2>4. text' \in [Workers -> 0..MaxEdits]
    BY <2>1, <2>2, BoundsAssumption DEF WorkerTypeOK
  <2>5. pc' \in [Workers -> Steps] /\ UNCHANGED <<steer, bound>>
    BY <1>4, <2>3 DEF Claim, WorkerTypeOK, Goto, Steps
  <2>6. held' \in [Workers -> Ids \cup {None}] /\ \A v \in Workers : CarriesId(v)'
    BY <2>1, <2>3 DEF WorkerTypeOK, CarriesId, Goto, Carrying
  <2>7. WorkerTypeOK'  BY <2>4, <2>5, <2>6 DEF WorkerTypeOK
  <2> QED  BY <1>4, <2>1, <2>7, ClaimType, RuntimeUnchanged DEF Claim
<1>5. CASE ClaimOrphaned(w) \/ ClaimNothing(w)
  BY <1>5, ClaimType, StoreUnchanged, DoneType, RuntimeUnchanged
  DEF ClaimOrphaned, ClaimNothing, storeVars, runtimeVars
<1>6. CASE FreezeCheck(w)
  <2>1. PICK l \in {"reread", "recheck", "release"} : Goto(w, l) /\ pc[w] \in Carrying
    BY <1>6 DEF FreezeCheck, Carrying
  <2>2. WorkerTypeOK'  BY <1>6, <2>1, GotoType DEF FreezeCheck, Steps
  <2> QED
    BY <1>6, <2>2, StoreUnchanged, RuntimeUnchanged
    DEF FreezeCheck, storeVars, runtimeVars
<1>7. CASE PolicyUnreadable(w)
  BY <1>7, StoreUnchanged, DoneType, RuntimeUnchanged
  DEF PolicyUnreadable, storeVars, runtimeVars
<1>8. CASE Recheck(w)
  <2>1. PICK l \in {"mark", "release", "fail"} : Goto(w, l) /\ pc[w] \in Carrying
    BY <1>8 DEF Recheck, At, Carrying
  <2>2. WorkerTypeOK'  BY <1>8, <2>1, GotoType DEF Recheck, Steps
  <2> QED
    BY <1>8, <2>2, StoreUnchanged, RuntimeUnchanged DEF Recheck, storeVars, runtimeVars
<1>9. CASE Mark(w)
  <2>1. PICK l \in {"send", "refuse", "release"} : Goto(w, l) /\ pc[w] \in Carrying
    BY <1>9 DEF Mark, At, Carrying
  <2>2. WorkerTypeOK'  BY <1>9, <2>1, GotoType DEF Mark, Steps
  <2>3. StoreTypeOK'
    BY <1>0, <1>9, <2>1, MarkType, StoreUnchanged DEF Mark
  <2> QED  BY <1>9, <2>2, <2>3, RuntimeUnchanged DEF Mark
<1>10. CASE Admit(w)
  <2>1. PICK l \in {"fail", "admitted", "release"} : Goto(w, l) /\ pc[w] \in Carrying
    BY <1>10 DEF Admit, At, Carrying
  <2>2. WorkerTypeOK'  BY <1>10, <2>1, GotoType DEF Admit, Steps
  <2> QED
    BY <1>10, <2>2, StoreUnchanged, RuntimeUnchanged DEF Admit, storeVars, runtimeVars
<1>11. CASE HandOver(w)
  <2>1. PICK l \in {"ack", "accept"} : Goto(w, l) /\ pc[w] \in Carrying
    BY <1>11 DEF HandOver, At, Carrying
  <2>2. WorkerTypeOK'  BY <1>11, <2>1, GotoType DEF HandOver, Steps
  <2>3. handed' \in [Ids -> 0..2]  BY <1>0, <1>11, <2>1, HandType DEF HandOver
  <2>4. RuntimeTypeOK'  BY <1>11, <2>3 DEF HandOver, RuntimeTypeOK, Runtimes
  <2> QED  BY <1>11, <2>2, <2>4, StoreUnchanged DEF HandOver, storeVars
<1>12. CASE SendFails(w)
  BY <1>12, StoreUnchanged, RuntimeUnchanged, GotoType
  DEF SendFails, Step, At, Steps, Carrying, storeVars, runtimeVars
<1>13. CASE SteerInjected(w)
  <2>1. PICK l \in {"accept", "uncertain"} : Goto(w, l) /\ pc[w] \in Carrying
    BY <1>13 DEF SteerInjected, At, Carrying
  <2>2. WorkerTypeOK'  BY <1>13, <2>1, GotoType DEF SteerInjected, Steps
  <2>3. handed' \in [Ids -> 0..2]  BY <1>0, <1>13, <2>1, HandType DEF SteerInjected
  <2>4. RuntimeTypeOK'
    BY <1>0, <1>13, <2>1, <2>3 DEF SteerInjected, RuntimeTypeOK
  <2> QED  BY <1>13, <2>2, <2>4, StoreUnchanged DEF SteerInjected, storeVars
<1>14. CASE SteerNotTaken(w)
  <2>1. PICK l \in {"release", "uncertain"} : Goto(w, l) /\ pc[w] \in Carrying
    BY <1>14 DEF SteerNotTaken, At, Carrying
  <2>2. WorkerTypeOK'  BY <1>14, <2>1, GotoType DEF SteerNotTaken, Steps
  <2> QED
    BY <1>14, <2>2, StoreUnchanged, RuntimeUnchanged
    DEF SteerNotTaken, storeVars, runtimeVars
<1>15. CASE Accept(w)
  <2>1. pc[w] \in Carrying /\ "uncertain" \in Steps
    BY <1>15 DEF Accept, At, Carrying, Steps
  <2>2. WorkerTypeOK'  BY <1>15, <2>1, GotoType, DoneType DEF Accept
  <2>3. StoreTypeOK'
    BY <1>0, <1>15, <2>1, FinishTypes, StoreUnchanged DEF Accept
  <2> QED  BY <1>15, <2>2, <2>3, RuntimeUnchanged DEF Accept
<1>16. CASE AcceptFails(w)
  BY <1>16, StoreUnchanged, RuntimeUnchanged, GotoType
  DEF AcceptFails, Step, At, Steps, Carrying, storeVars, runtimeVars
<1>17. CASE PauseUnknown(w)
  <2>1. held[w] \in Ids  BY <1>0, <1>17 DEF PauseUnknown, At, Carrying
  <2>2. StoreTypeOK'  BY <1>17, <2>1, ParkTypes, StoreUnchanged DEF PauseUnknown
  <2> QED  BY <1>17, <2>2, DoneType, RuntimeUnchanged DEF PauseUnknown
<1>18. CASE Release(w)
  <2>1. held[w] \in Ids  BY <1>0, <1>18 DEF Release, At, Carrying
  <2>2. StoreTypeOK'  BY <1>18, <2>1, FinishTypes, StoreUnchanged DEF Release
  <2> QED  BY <1>18, <2>2, DoneType, RuntimeUnchanged DEF Release
<1>19. CASE Fail(w)
  <2>1. held[w] \in Ids  BY <1>0, <1>19 DEF Fail, At, Carrying
  <2>2. StoreTypeOK'  BY <1>19, <2>1, ParkTypes, StoreUnchanged DEF Fail
  <2> QED  BY <1>19, <2>2, DoneType, RuntimeUnchanged DEF Fail
<1>20. CASE GiveUp(w)
  BY <1>20, StoreUnchanged, DoneType, RuntimeUnchanged
  DEF GiveUp, storeVars, runtimeVars
<1>21. CASE ReadPolicy(w)
  <2>1. PICK l \in {"reconcileOn", "reconcileOff"} : Goto(w, l)
    BY <1>21 DEF ReadPolicy
  <2>2. WorkerTypeOK'  BY <1>21, <2>1, GotoType DEF ReadPolicy, Steps, Carrying
  <2> QED
    BY <1>21, <2>2, StoreUnchanged, RuntimeUnchanged
    DEF ReadPolicy, storeVars, runtimeVars
<1>22. CASE ReconcilePolicy(w)
  <2>1. StoreTypeOK'  BY <1>22, SweepTypes DEF ReconcilePolicy
  <2>2. WorkerTypeOK'
    BY <1>22, GotoType, DoneType DEF ReconcilePolicy, Steps, Carrying
  <2> QED  BY <1>22, <2>1, <2>2, RuntimeUnchanged DEF ReconcilePolicy
<1>23. CASE SweepInterrupts(w)
  <2>1. \E stale \in SUBSET Events : RecoverInterrupts(stale)
    BY <1>23 DEF SweepInterrupts
  <2>2. WorkerTypeOK'
    BY <1>23, GotoType DEF SweepInterrupts, Step, Steps, Carrying
  <2> QED
    BY <1>23, <2>1, <2>2, InterruptTypes, RuntimeUnchanged DEF SweepInterrupts
<1>24. CASE SweepClaims(w)
  BY <1>24, SweepTypes, StoreUnchanged, DoneType, RuntimeUnchanged DEF SweepClaims
<1> QED
  BY <1>1, <1>2, <1>3, <1>4, <1>5, <1>6, <1>7, <1>8, <1>9, <1>10, <1>11, <1>12,
     <1>13, <1>14, <1>15, <1>16, <1>17, <1>18, <1>19, <1>20, <1>21, <1>22, <1>23,
     <1>24, WorkerStep(w)
  DEF WorkerStep

\* So do the runtimes, time and the clients.
LEMMA RuntimeStepType ==
  ASSUME TypeInv, NEW w \in Workers, RuntimeStep(w)
  PROVE  TypeInv'
<1> USE DEF TypeInv
<1>0. pc[w] \in Carrying => held[w] \in Ids  BY DEF WorkerTypeOK, CarriesId
<1>1. CASE ConnStarts(w) \/ TurnEnds(w) \/ AdHocAdmit(w) \/ AdHocSend(w)
  BY <1>1, StoreUnchanged, WorkersUnchanged
  DEF ConnStarts, TurnEnds, AdHocAdmit, AdHocSend, RuntimeTypeOK, Runtimes
<1>2. CASE ConnDies(w)
  <2>1. WorkerTypeOK'
    BY <1>2 DEF ConnDies, WorkerTypeOK, CarriesId, Steps, Carrying
  <2>2. RuntimeTypeOK'  BY <1>2 DEF ConnDies, RuntimeTypeOK, Runtimes, Halts
  <2> QED  BY <1>2, <2>1, <2>2, StoreUnchanged DEF ConnDies, storeVars
<1>3. CASE LoopDequeue(w)
  <2>1. WorkerTypeOK'
    BY <1>3 DEF LoopDequeue, WorkerTypeOK, CarriesId, Steps, Carrying
  <2>2. RuntimeTypeOK'
    BY <1>0, <1>3 DEF LoopDequeue, RuntimeTypeOK, Runtimes, At, Carrying
  <2> QED  BY <1>3, <2>1, <2>2, StoreUnchanged DEF LoopDequeue, storeVars
<1>4. CASE Crash(w)
  <2>1. ASSUME NEW i \in Ids  PROVE [item[i] EXCEPT !.owner = Gone] \in Rows
    <3>1. item[i] \in Rows  BY DEF StoreTypeOK
    <3> QED  BY <3>1 DEF Rows, Owners
  <2>2. StoreTypeOK'  BY <1>4, <2>1 DEF Crash, StoreTypeOK
  <2>3. WorkerTypeOK'  BY <1>4, DoneType DEF Crash
  <2>4. crashes' \in 0..MaxCrashes
    BY <1>4, FaultsAssumption DEF Crash, RuntimeTypeOK
  <2>5. RuntimeTypeOK'  BY <1>4, <2>4 DEF Crash, RuntimeTypeOK, Runtimes, Halts
  <2> QED  BY <2>2, <2>3, <2>5
<1> QED  BY <1>1, <1>2, <1>3, <1>4 DEF RuntimeStep

LEMMA ExpireType ==
  ASSUME TypeInv, NEW i \in Ids, Expire(i)
  PROVE  TypeInv'
<1>1. [item[i] EXCEPT !.expired = TRUE] \in Rows
  <2>1. item[i] \in Rows  BY DEF TypeInv, StoreTypeOK
  <2> QED  BY <2>1 DEF Rows
<1>2. StoreTypeOK'  BY <1>1 DEF TypeInv, Expire, StoreTypeOK
<1> QED  BY <1>2, WorkersUnchanged, RuntimeUnchanged DEF TypeInv, Expire

LEMMA ClientStepType ==
  ASSUME TypeInv, ClientStep
  PROVE  TypeInv'
<1> USE DEF TypeInv
<1>1. CASE EditQueue
  <2>1. StoreTypeOK'  BY <1>1, ClientTypes DEF EditQueue
  <2> QED
    BY <1>1, <2>1, WorkersUnchanged, RuntimeUnchanged
    DEF EditQueue, ClientUnchanged, runtimeVars
<1>2. CASE ResumeOrRetry
  <2>1. StoreTypeOK'  BY <1>2, ClientTypes DEF ResumeOrRetry
  <2>2. RuntimeTypeOK'
    BY <1>2 DEF ResumeOrRetry, ClientUnchanged, RuntimeTypeOK, Halts
  <2> QED  BY <1>2, <2>1, <2>2, WorkersUnchanged DEF ResumeOrRetry, ClientUnchanged
<1>3. ASSUME NEW w \in Workers, CancelPauses(w)  PROVE TypeInv'
  <2>1. StoreTypeOK'  BY <1>3, ClientTypes DEF CancelPauses
  <2>2. RuntimeTypeOK'
    BY <1>3 DEF CancelPauses, ClientUnchanged, RuntimeTypeOK, Halts
  <2> QED  BY <1>3, <2>1, <2>2, WorkersUnchanged DEF CancelPauses, ClientUnchanged
<1>4. ASSUME NEW w \in Workers, CancelTurn(w)  PROVE TypeInv'
  BY <1>4, StoreUnchanged, WorkersUnchanged DEF CancelTurn, RuntimeTypeOK, Runtimes, Halts
<1>5. ASSUME NEW e \in Events, NEW w \in Workers, Send(e, w)  PROVE TypeInv'
  <2>1. \E b \in BOOLEAN : SendEvent(e, b)
    BY <1>5 DEF Send, SessionRuntimeActive, StatusConnected
  <2>2. StoreTypeOK'  BY <2>1, ClientTypes
  <2> QED
    BY <1>5, <2>2, WorkersUnchanged, RuntimeUnchanged DEF Send, ClientUnchanged, runtimeVars
<1>6. ASSUME NEW b \in BOOLEAN, SavePolicy(b)  PROVE TypeInv'
  <2>1. StoreTypeOK'  BY <1>6, ClientTypes DEF SavePolicy
  <2>2. RuntimeTypeOK'  BY <1>6 DEF SavePolicy, RuntimeTypeOK
  <2> QED  BY <1>6, <2>1, <2>2, WorkersUnchanged DEF SavePolicy
<1>7. CASE ApplyPolicy
  <2>1. StoreTypeOK'  BY <1>7, SweepTypes DEF ApplyPolicy
  <2>2. RuntimeTypeOK'  BY <1>7 DEF ApplyPolicy, RuntimeTypeOK
  <2> QED  BY <1>7, <2>1, <2>2, WorkersUnchanged DEF ApplyPolicy
<1> QED  BY <1>1, <1>2, <1>3, <1>4, <1>5, <1>6, <1>7 DEF ClientStep

LEMMA InitType == Init => TypeInv
<1> SUFFICES ASSUME Init PROVE TypeInv  OBVIOUS
<1>1. StoreTypeOK  BY StoreInitType DEF Init
<1>2. WorkerTypeOK
  BY BoundsAssumption DEF Init, WorkerTypeOK, CarriesId, Steps, Carrying
<1>3. RuntimeTypeOK
  BY FaultsAssumption DEF Init, RuntimeTypeOK, Runtimes, Halts
<1> QED  BY <1>1, <1>2, <1>3 DEF TypeInv

LEMMA TypeStep == TypeInv /\ [Next]_vars => TypeInv'
<1> SUFFICES ASSUME TypeInv, [Next]_vars PROVE TypeInv'  OBVIOUS
<1>1. CASE \E w \in Workers : WorkerStep(w) \/ RuntimeStep(w)
  BY <1>1, WorkerStepType, RuntimeStepType
<1>2. CASE \E i \in Ids : Expire(i)
  BY <1>2, ExpireType
<1>3. CASE ClientStep
  BY <1>3, ClientStepType
<1>4. CASE UNCHANGED vars
  BY <1>4, StoreUnchanged, WorkersUnchanged, RuntimeUnchanged
  DEF vars, runtimeVars, TypeInv
<1> QED  BY <1>1, <1>2, <1>3, <1>4 DEF Next

\* The state of the queue, its workers and its runtimes is well typed.
THEOREM TypeCorrect == Spec => []TypeOK
<1>1. Init => TypeInv  BY InitType
<1>2. TypeInv /\ [Next]_vars => TypeInv'  BY TypeStep
<1> QED  BY <1>1, <1>2, TypeInvImpliesTypeOK, PTL DEF Spec

-------------------------------------------------------------------------------
(* Quiet steps: no claim, mark, hand-over or release.                          *)

\* A worker stays where it is, drops its item, or moves on without entering
\* the steps that the invariant says something about by another way than these.
QuietWorker(w) ==
  /\ pc'[w] \in BeforeMark => pc[w] \in BeforeMark /\ held'[w] = held[w]
  /\ Beyond(w)' => Beyond(w) /\ held'[w] = held[w]
  /\ pc'[w] = "release" => /\ pc[w] \in BeforeMark \cup {"release"} \/ Beyond(w)
                           /\ held'[w] = held[w]

\* A prompt that is spent stays so in a quiet transaction.
LEMMA QuietSpent ==
  ASSUME TypeInv, TypeInv', RowsHonest', Quiet, NEW i \in Ids, Spent(i)
  PROVE  Spent(i)'
<1>1. i[1] \in Subjects /\ i[2] \in Nat  BY DEF Ids
<1>2. gen[i[1]] \in Nat /\ gen'[i[1]] \in Nat /\ gen[i[1]] <= gen'[i[1]]
  BY <1>1 DEF TypeInv, StoreTypeOK, Quiet
<1>3. fate'[i[1]] # "unsent" /\ i[2] <= gen'[i[1]]
  BY <1>1, <1>2 DEF Spent, Quiet
<1>4. item'[i].st = "absent" \/ item'[i].started
  BY <1>1, <1>2 DEF Spent, Quiet, QuietRow
<1> QED  BY <1>3, <1>4 DEF Spent

LEMMA QuietStep ==
  ASSUME IInv, TypeInv', RowsHonest', Quiet, handed' = handed,
         \A w \in Workers : QuietWorker(w)
  PROVE  IInv'
<1> USE DEF IInv
<1>1. HandedOnce'  BY QuietSpent DEF HandedOnce
<1>2. ASSUME NEW w \in Workers  PROVE NotYetMarked(w)'
  <2>1. ASSUME pc'[w] \in BeforeMark, Owns(w, held[w])'  PROVE ~item'[held'[w]].started
    <3>1. pc[w] \in BeforeMark /\ held'[w] = held[w]  BY <2>1 DEF QuietWorker
    <3>2. held[w] \in Ids
      BY <3>1 DEF BeforeMark, TypeInv, WorkerTypeOK, CarriesId, Carrying
    <3>3. Owns(w, held[w])
      BY <2>1, <3>1, <3>2, NullAssumption DEF Quiet, QuietRow, Owns
    <3>4. ~item[held[w]].started  BY <3>1, <3>3 DEF NotYetMarked
    <3> QED  BY <3>1, <3>2, <3>4 DEF Quiet, QuietRow
  <2>2. ASSUME pc'[w] = "release", Owns(w, held[w])'  PROVE handed'[held'[w]] = 0
    <3>1. /\ pc[w] \in BeforeMark \cup {"release"} \/ Beyond(w)
          /\ held'[w] = held[w]
      BY <2>2 DEF QuietWorker
    <3>2. held[w] \in Ids
      BY <3>1 DEF BeforeMark, Beyond, TypeInv, WorkerTypeOK, CarriesId, Carrying
    <3>3. Owns(w, held[w])
      BY <2>2, <3>1, <3>2, NullAssumption DEF Quiet, QuietRow, Owns
    <3>4. CASE pc[w] \in BeforeMark
      <4>1. ~item[held[w]].started  BY <3>3, <3>4 DEF NotYetMarked
      <4>2. ~(handed[held[w]] > 0)
        BY <3>2, <3>3, <4>1 DEF HandedOnce, Spent, Owns
      <4> QED  BY <3>1, <3>2, <4>2 DEF TypeInv, RuntimeTypeOK
    <3>5. CASE pc[w] = "release"
      BY <3>1, <3>3, <3>5 DEF NotYetMarked
    <3>6. CASE Beyond(w)
      BY <3>1, <3>6 DEF HoldsOffer
    <3> QED  BY <3>1, <3>4, <3>5, <3>6
  <2> QED  BY <2>1, <2>2 DEF NotYetMarked, Owns
<1>3. ASSUME NEW w \in Workers  PROVE HoldsOffer(w)'
  <2> SUFFICES ASSUME Beyond(w)'
               PROVE  /\ handed'[held'[w]] = 0 /\ Spent(held[w])'
                      /\ item'[held'[w]].st = "claimed"
                           => item'[held'[w]].owner \in {w, Gone}
    BY DEF HoldsOffer
  <2>1. Beyond(w) /\ held'[w] = held[w]  BY DEF QuietWorker
  <2>2. held[w] \in Ids
    BY <2>1 DEF Beyond, TypeInv, WorkerTypeOK, CarriesId, Carrying
  <2>3. /\ handed[held[w]] = 0 /\ Spent(held[w])
        /\ item[held[w]].st = "claimed" => item[held[w]].owner \in {w, Gone}
    BY <2>1 DEF HoldsOffer
  <2>4. Spent(held[w])'
    <3>1. ASSUME NEW i \in Ids, i = held[w]  PROVE Spent(i)'
      BY <2>3, <3>1, QuietSpent
    <3> QED  BY <2>1, <2>2, <3>1 DEF Spent
  <2> QED  BY <2>1, <2>2, <2>3, <2>4 DEF Quiet, QuietRow
<1>4. OneOffer'  BY DEF OneOffer, QuietWorker
<1> QED  BY <1>1, <1>2, <1>3, <1>4

LEMMA StoreQuiet ==
  ASSUME StoreTypeOK, RowsHonest, UNCHANGED storeVars
  PROVE  RowsHonest' /\ Quiet
BY RowsUnchanged DEF storeVars

\* The steps from which worker w may quietly go to l.
LeadsTo(w, l) ==
  /\ l \in BeforeMark => pc[w] \in BeforeMark
  /\ l \in {"send", "admitted"} => Beyond(w)
  /\ l = "release" => pc[w] \in BeforeMark \/ Beyond(w)

LEMMA GotoQuiet ==
  ASSUME WorkerTypeOK, NEW w \in Workers, NEW l \in Steps, Goto(w, l),
         UNCHANGED held, LeadsTo(w, l)
  PROVE  \A v \in Workers : QuietWorker(v)
BY DEF WorkerTypeOK, Goto, QuietWorker, LeadsTo, Beyond

LEMMA DoneQuiet ==
  ASSUME WorkerTypeOK, NEW w \in Workers, Done(w)
  PROVE  \A v \in Workers : QuietWorker(v)
BY DEF WorkerTypeOK, Done, Goto, QuietWorker, Beyond, BeforeMark

LEMMA WorkersQuiet ==
  ASSUME UNCHANGED workerVars
  PROVE  \A v \in Workers : QuietWorker(v)
BY DEF workerVars, QuietWorker, Beyond

\* The steps of a worker other than a claim, a mark, a hand-over and a release.
LEMMA QuietWorkerSteps ==
  ASSUME IInv, TypeInv', NEW w \in Workers,
         \/ Observe(w) \/ TellInterrupt(w) \/ ObserveBusy(w) \/ ClaimNothing(w)
         \/ FreezeCheck(w) \/ PolicyUnreadable(w) \/ Recheck(w) \/ Admit(w)
         \/ SendFails(w) \/ SteerNotTaken(w) \/ Accept(w) \/ AcceptFails(w)
         \/ PauseUnknown(w) \/ Fail(w) \/ GiveUp(w)
         \/ ReadPolicy(w) \/ ReconcilePolicy(w)
         \/ SweepInterrupts(w) \/ SweepClaims(w)
  PROVE  IInv'
<1> USE DEF IInv, TypeInv
<1> DEFINE Silent == (RowsHonest' /\ Quiet) /\ handed' = handed
           Calm   == \A v \in Workers : QuietWorker(v)
<1>0. pc[w] \in Carrying => held[w] \in Ids  BY DEF WorkerTypeOK, CarriesId
<1>a. UNCHANGED <<storeVars, runtimeVars>> => Silent
  BY StoreQuiet DEF runtimeVars
<1>b. UNCHANGED runtimeVars => handed' = handed  BY DEF runtimeVars
<1>1. CASE Observe(w)
  <2>1. Silent  BY <1>1, <1>a DEF Observe
  <2>2. Calm  BY <1>1, GotoQuiet DEF Observe, Step, Steps, LeadsTo, BeforeMark
  <2> QED  BY <2>1, <2>2, QuietStep
<1>2. CASE TellInterrupt(w)
  <2>1. Silent  BY <1>2, <1>b, StoreQuiet, WorkerQuiet DEF TellInterrupt
  <2>2. Calm  BY <1>2, GotoQuiet DEF TellInterrupt, Step, Steps, LeadsTo, BeforeMark
  <2> QED  BY <2>1, <2>2, QuietStep
<1>3. CASE ObserveBusy(w)
  <2>1. Silent  BY <1>3, <1>a DEF ObserveBusy, storeVars, runtimeVars
  <2>2. Calm  BY <1>3, GotoQuiet DEF ObserveBusy, Steps, LeadsTo, BeforeMark
  <2> QED  BY <2>1, <2>2, QuietStep
<1>4. CASE ClaimNothing(w) \/ PolicyUnreadable(w) \/ GiveUp(w)
  <2>1. Silent
    BY <1>4, <1>a DEF ClaimNothing, PolicyUnreadable, GiveUp, storeVars, runtimeVars
  <2>2. Calm  BY <1>4, DoneQuiet DEF ClaimNothing, PolicyUnreadable, GiveUp
  <2> QED  BY <2>1, <2>2, QuietStep
<1>5. CASE FreezeCheck(w)
  <2>1. Silent  BY <1>5, <1>a DEF FreezeCheck, storeVars, runtimeVars
  <2>2. PICK l \in {"reread", "recheck", "release"} :
          Goto(w, l) /\ pc[w] \in BeforeMark /\ UNCHANGED held
    BY <1>5 DEF FreezeCheck, BeforeMark
  <2>3. Calm  BY <2>2, GotoQuiet DEF Steps, LeadsTo, BeforeMark
  <2> QED  BY <2>1, <2>3, QuietStep
<1>6. CASE Recheck(w)
  <2>1. Silent  BY <1>6, <1>a DEF Recheck, storeVars, runtimeVars
  <2>2. PICK l \in {"mark", "release", "fail"} :
          Goto(w, l) /\ pc[w] \in BeforeMark /\ UNCHANGED held
    BY <1>6 DEF Recheck, At, BeforeMark
  <2>3. Calm  BY <2>2, GotoQuiet DEF Steps, LeadsTo, BeforeMark
  <2> QED  BY <2>1, <2>3, QuietStep
<1>7. CASE Admit(w)
  <2>1. Silent  BY <1>7, <1>a DEF Admit, storeVars, runtimeVars
  <2>2. PICK l \in {"fail", "release", "admitted"} :
          Goto(w, l) /\ Beyond(w) /\ UNCHANGED held
    BY <1>7 DEF Admit, At, Beyond
  <2>3. Calm  BY <2>2, GotoQuiet DEF Steps, LeadsTo, BeforeMark
  <2> QED  BY <2>1, <2>3, QuietStep
<1>8. CASE SteerNotTaken(w)
  <2>1. Silent  BY <1>8, <1>a DEF SteerNotTaken, storeVars, runtimeVars
  <2>2. PICK l \in {"release", "uncertain"} :
          Goto(w, l) /\ Beyond(w) /\ UNCHANGED held
    BY <1>8 DEF SteerNotTaken, At, Beyond
  <2>3. Calm  BY <2>2, GotoQuiet DEF Steps, LeadsTo, BeforeMark
  <2> QED  BY <2>1, <2>3, QuietStep
<1>9. CASE SendFails(w) \/ AcceptFails(w)
  <2>1. Silent  BY <1>9, <1>a DEF SendFails, AcceptFails, storeVars, runtimeVars
  <2>2. PICK l \in {"fail", "uncertain"} : Goto(w, l) /\ UNCHANGED held
    BY <1>9 DEF SendFails, AcceptFails, Step
  <2>3. Calm  BY <2>2, GotoQuiet DEF Steps, LeadsTo, BeforeMark
  <2> QED  BY <2>1, <2>3, QuietStep
<1>10. CASE Accept(w)
  <2>1. held[w] \in Ids  BY <1>0, <1>10 DEF Accept, At, Carrying
  <2>2. Silent  BY <1>10, <1>b, <2>1, StoreQuiet, WorkerQuiet DEF Accept
  <2>3. CASE Goto(w, "uncertain") /\ UNCHANGED held
    <3>1. Calm  BY <2>3, GotoQuiet DEF Steps, LeadsTo, BeforeMark
    <3> QED  BY <2>2, <3>1, QuietStep
  <2>4. CASE Done(w)
    <3>1. Calm  BY <2>4, DoneQuiet
    <3> QED  BY <2>2, <3>1, QuietStep
  <2> QED  BY <1>10, <2>3, <2>4 DEF Accept
<1>11. CASE PauseUnknown(w)
  <2>1. held[w] \in Ids  BY <1>0, <1>11 DEF PauseUnknown, At, Carrying
  <2>2. Silent  BY <1>11, <1>b, <2>1, StoreQuiet, WorkerQuiet DEF PauseUnknown
  <2>3. Calm  BY <1>11, DoneQuiet DEF PauseUnknown
  <2> QED  BY <2>2, <2>3, QuietStep
<1>12. CASE Fail(w)
  <2>1. held[w] \in Ids  BY <1>0, <1>12 DEF Fail, At, Carrying
  <2>2. Silent  BY <1>12, <1>b, <2>1, StoreQuiet, WorkerQuiet DEF Fail
  <2>3. Calm  BY <1>12, DoneQuiet DEF Fail
  <2> QED  BY <2>2, <2>3, QuietStep
<1>13. CASE ReadPolicy(w)
  <2>1. Silent  BY <1>13, <1>a DEF ReadPolicy, storeVars, runtimeVars
  <2>2. PICK l \in {"reconcileOn", "reconcileOff"} : Goto(w, l) /\ UNCHANGED held
    BY <1>13 DEF ReadPolicy
  <2>3. Calm  BY <2>2, GotoQuiet DEF Steps, LeadsTo, BeforeMark
  <2> QED  BY <2>1, <2>3, QuietStep
<1>14. CASE ReconcilePolicy(w)
  <2>1. \E b \in BOOLEAN : Reconcile(b)  BY <1>14 DEF ReconcilePolicy
  <2>2. Silent  BY <1>14, <1>b, <2>1, WorkerQuiet DEF ReconcilePolicy
  <2>3. CASE Goto(w, "sweepOps") /\ UNCHANGED held
    <3>1. Calm  BY <2>3, GotoQuiet DEF Steps, LeadsTo, BeforeMark
    <3> QED  BY <2>2, <3>1, QuietStep
  <2>4. CASE Done(w)
    <3>1. Calm  BY <2>4, DoneQuiet
    <3> QED  BY <2>2, <3>1, QuietStep
  <2> QED  BY <1>14, <2>3, <2>4 DEF ReconcilePolicy
<1>15. CASE SweepInterrupts(w)
  <2>1. \E stale \in SUBSET Events : RecoverInterrupts(stale)
    BY <1>15 DEF SweepInterrupts
  <2>2. Silent  BY <1>15, <1>b, <2>1, WorkerQuiet DEF SweepInterrupts
  <2>3. Calm
    BY <1>15, GotoQuiet DEF SweepInterrupts, Step, Steps, LeadsTo, BeforeMark
  <2> QED  BY <2>2, <2>3, QuietStep
<1>16. CASE SweepClaims(w)
  <2>1. Silent  BY <1>16, <1>b, StoreQuiet, WorkerQuiet DEF SweepClaims
  <2>2. Calm  BY <1>16, DoneQuiet DEF SweepClaims
  <2> QED  BY <2>1, <2>2, QuietStep
<1> QED
  BY <1>1, <1>2, <1>3, <1>4, <1>5, <1>6, <1>7, <1>8, <1>9, <1>10, <1>11, <1>12,
     <1>13, <1>14, <1>15, <1>16

\* The steps of the runtimes, of time and of the clients are quiet.
LEMMA QuietEnvironment ==
  ASSUME IInv, TypeInv', ~LateResends,
         \/ \E w \in Workers : RuntimeStep(w)
         \/ \E i \in Ids : Expire(i)
         \/ ClientStep
  PROVE  IInv'
<1> USE DEF IInv, TypeInv
<1> DEFINE Silent == (RowsHonest' /\ Quiet) /\ handed' = handed
           Calm   == \A v \in Workers : QuietWorker(v)
<1>1. ASSUME NEW w \in Workers, ConnStarts(w) \/ TurnEnds(w) \/ AdHocAdmit(w) \/ AdHocSend(w)
      PROVE  IInv'
  <2>1. Silent  BY <1>1, StoreQuiet DEF ConnStarts, TurnEnds, AdHocAdmit, AdHocSend
  <2>2. Calm  BY <1>1, WorkersQuiet DEF ConnStarts, TurnEnds, AdHocAdmit, AdHocSend
  <2> QED  BY <2>1, <2>2, QuietStep
<1>2. ASSUME NEW w \in Workers, ConnDies(w) \/ LoopDequeue(w)  PROVE IInv'
  <2>1. Silent  BY <1>2, StoreQuiet DEF ConnDies, LoopDequeue, storeVars
  <2>2. /\ held' = held
        /\ \A v \in Workers : pc'[v] = pc[v] \/ pc'[v] \in {"accept", "uncertain"}
    BY <1>2 DEF ConnDies, LoopDequeue, WorkerTypeOK
  <2>3. Calm  BY <2>2 DEF QuietWorker, Beyond, BeforeMark
  <2> QED  BY <2>1, <2>3, QuietStep
<1>3. ASSUME NEW w \in Workers, Crash(w)  PROVE IInv'
  <2>1. ASSUME NEW i \in Ids
        PROVE  /\ item'[i].st = item[i].st /\ item'[i].started = item[i].started
               /\ item'[i].why = item[i].why
               /\ item'[i].owner \in {item[i].owner, Gone}
    <3>1. item[i] \in Rows  BY DEF StoreTypeOK
    <3> QED  BY <1>3, <3>1 DEF Crash, Rows
  <2>2. UNCHANGED <<gen, fate>> /\ handed' = handed  BY <1>3 DEF Crash
  <2>3. Silent  BY <2>1, <2>2, RowWiseQuiet
  <2>4. Calm  BY <1>3, DoneQuiet DEF Crash
  <2> QED  BY <2>3, <2>4, QuietStep
<1>4. ASSUME NEW j \in Ids, Expire(j)  PROVE IInv'
  <2>1. ASSUME NEW i \in Ids
        PROVE  /\ item'[i].st = item[i].st /\ item'[i].started = item[i].started
               /\ item'[i].why = item[i].why
               /\ item'[i].owner \in {item[i].owner, Gone}
    <3>1. item[i] \in Rows /\ item[j] \in Rows  BY DEF StoreTypeOK
    <3> QED  BY <1>4, <3>1 DEF Expire, Rows, StoreTypeOK
  <2>2. UNCHANGED <<gen, fate>> /\ handed' = handed
    BY <1>4 DEF Expire, runtimeVars
  <2>3. Silent  BY <2>1, <2>2, RowWiseQuiet
  <2>4. Calm  BY <1>4, WorkersQuiet DEF Expire
  <2> QED  BY <2>3, <2>4, QuietStep
<1>5. CASE ClientStep
  <2>1. CASE EditQueue \/ ResumeOrRetry
    <3>1. Silent
      BY <2>1, ClientQuiet DEF EditQueue, ResumeOrRetry, ClientUnchanged
    <3>2. Calm  BY <2>1, WorkersQuiet DEF EditQueue, ResumeOrRetry, ClientUnchanged
    <3> QED  BY <3>1, <3>2, QuietStep
  <2>2. ASSUME NEW w \in Workers, CancelPauses(w) \/ CancelTurn(w)  PROVE IInv'
    <3>1. Silent
      BY <2>2, ClientQuiet, StoreQuiet DEF CancelPauses, CancelTurn, ClientUnchanged
    <3>2. Calm  BY <2>2, WorkersQuiet DEF CancelPauses, CancelTurn, ClientUnchanged
    <3> QED  BY <3>1, <3>2, QuietStep
  <2>3. ASSUME NEW e \in Events, NEW w \in Workers, Send(e, w)  PROVE IInv'
    <3>1. \E b \in BOOLEAN : SendEvent(e, b)
      BY <2>3 DEF Send, SessionRuntimeActive, StatusConnected
    <3>2. Silent  BY <2>3, <3>1, ClientQuiet DEF Send, ClientUnchanged
    <3>3. Calm  BY <2>3, WorkersQuiet DEF Send, ClientUnchanged
    <3> QED  BY <3>2, <3>3, QuietStep
  <2>4. CASE ApplyPolicy \/ \E b \in BOOLEAN : SavePolicy(b)
    <3>1. (\E b \in BOOLEAN : UpsertPolicy(b)) \/ (\E b \in BOOLEAN : Reconcile(b))
      BY <2>4 DEF ApplyPolicy, SavePolicy
    <3>2. Silent  BY <2>4, <3>1, ClientQuiet, WorkerQuiet DEF ApplyPolicy, SavePolicy
    <3>3. Calm  BY <2>4, WorkersQuiet DEF ApplyPolicy, SavePolicy
    <3> QED  BY <3>2, <3>3, QuietStep
  <2> QED  BY <1>5, <2>1, <2>2, <2>3, <2>4 DEF ClientStep
<1> QED  BY <1>1, <1>2, <1>3, <1>4, <1>5 DEF RuntimeStep

-------------------------------------------------------------------------------
(* The steps that are not quiet.                                               *)

\* A claim takes a queued row: it was never handed over, and no worker beyond
\* its mark is after it.
LEMMA ClaimStep ==
  ASSUME IInv, TypeInv', NEW w \in Workers, Claim(w) \/ ClaimOrphaned(w)
  PROVE  IInv'
<1> USE DEF IInv
<1>1. PICK i \in Ids :
        /\ ClaimHead(w, i)
        /\ \/ held' = [held EXCEPT ![w] = i]
              /\ \E l \in {"release", "freeze"} : pc' = [pc EXCEPT ![w] = l]
           \/ held' = [held EXCEPT ![w] = None] /\ pc' = [pc EXCEPT ![w] = "idle"]
  BY DEF Claim, ClaimOrphaned, Done, Goto
<1>2. /\ RowsHonest' /\ UNCHANGED <<gen, fate>>
      /\ item[i].st = "queued" /\ item'[i].st = "claimed" /\ ~item'[i].started
      /\ \A j \in Ids \ {i} : item'[j] = item[j]
  BY <1>1, ClaimHonest DEF TypeInv
<1>3. handed' = handed  BY DEF Claim, ClaimOrphaned, runtimeVars
<1>4. ~item[i].started /\ handed[i] = 0
  <2>1. ~item[i].started  BY <1>2 DEF RowsHonest, RowHonest
  <2>2. ~(handed[i] > 0)  BY <1>2, <2>1 DEF HandedOnce, Spent
  <2> QED  BY <2>1, <2>2 DEF TypeInv, RuntimeTypeOK
<1>5. HandedOnce'
  BY <1>2, <1>3, <1>4 DEF HandedOnce, Spent
<1>6. \A v \in Workers : Beyond(v)' => /\ Beyond(v) /\ v # w
                                       /\ held'[v] = held[v]
                                       /\ held[v] \in Ids \ {i}
  <2>1. ASSUME NEW v \in Workers, Beyond(v)'
        PROVE  Beyond(v) /\ v # w /\ held'[v] = held[v]
    BY <1>1, <2>1 DEF TypeInv, WorkerTypeOK, Beyond
  <2>2. ASSUME NEW v \in Workers, Beyond(v)  PROVE held[v] \in Ids \ {i}
    <3>1. held[v] \in Ids
      BY <2>2 DEF Beyond, TypeInv, WorkerTypeOK, CarriesId, Carrying
    <3>2. Spent(held[v])  BY <2>2 DEF HoldsOffer
    <3> QED  BY <1>2, <1>4, <3>1, <3>2 DEF Spent
  <2> QED  BY <2>1, <2>2
<1>7. ASSUME NEW v \in Workers  PROVE HoldsOffer(v)'
  BY <1>2, <1>3, <1>6 DEF HoldsOffer, Beyond, Spent
<1>8. ASSUME NEW v \in Workers  PROVE NotYetMarked(v)'
  <2>1. CASE v = w
    BY <1>1, <1>2, <1>3, <1>4, <2>1
    DEF NotYetMarked, Owns, BeforeMark, TypeInv, WorkerTypeOK
  <2>2. CASE v # w
    <3>1. pc'[v] = pc[v] /\ held'[v] = held[v]
      BY <1>1, <2>2 DEF TypeInv, WorkerTypeOK
    <3>2. ASSUME pc[v] \in BeforeMark \cup {"release"}  PROVE held[v] \in Ids
      BY <3>2 DEF BeforeMark, TypeInv, WorkerTypeOK, CarriesId, Carrying
    <3> QED
      BY <1>2, <1>3, <1>4, <3>1, <3>2 DEF NotYetMarked, Owns, BeforeMark
  <2> QED  BY <2>1, <2>2
<1>9. OneOffer'  BY <1>6 DEF OneOffer
<1> QED  BY <1>2, <1>5, <1>7, <1>8, <1>9

\* A mark opens the only offer of its row: the row was unmarked, so it was not
\* handed over, and whoever is beyond its mark is after another row.
LEMMA MarkStep ==
  ASSUME IInv, TypeInv', NEW w \in Workers, Mark(w)
  PROVE  IInv'
<1> USE DEF IInv
<1> DEFINE i == held[w]
<1>0. i \in Ids /\ pc[w] = "mark" /\ held' = held /\ handed' = handed
  BY DEF Mark, At, Carrying, TypeInv, WorkerTypeOK, CarriesId, runtimeVars
<1>1. CASE UNCHANGED storeVars /\ \E l \in {"refuse", "release"} : Goto(w, l)
  <2>1. RowsHonest' /\ Quiet  BY <1>1, StoreQuiet DEF TypeInv
  <2>2. \A v \in Workers : QuietWorker(v)
    BY <1>0, <1>1, GotoQuiet DEF TypeInv, Steps, LeadsTo, BeforeMark
  <2> QED  BY <1>0, <2>1, <2>2, QuietStep
<1>2. CASE MarkDispatchStarted(w, i) /\ Goto(w, "send")
  <2>1. /\ RowsHonest' /\ UNCHANGED fate
        /\ Owns(w, i) /\ Owns(w, i)' /\ item'[i].started
        /\ i[2] <= gen'[i[1]] /\ fate[i[1]] # "unsent"
        /\ \A j \in Ids \ {i} : item'[j] = item[j]
        /\ \A s \in Subjects : gen[s] <= gen'[s]
    BY <1>0, <1>2, MarkHonest DEF TypeInv
  <2>2. ~item[i].started  BY <1>0, <2>1 DEF NotYetMarked, BeforeMark
  <2>3. handed[i] = 0
    <3>1. ~(handed[i] > 0)  BY <1>0, <2>1, <2>2 DEF HandedOnce, Spent, Owns
    <3> QED  BY <1>0, <3>1 DEF TypeInv, RuntimeTypeOK
  <2>4. pc' = [pc EXCEPT ![w] = "send"]  BY <1>2 DEF Goto
  <2>5. ASSUME NEW j \in Ids \ {i}, Spent(j)  PROVE Spent(j)'
    <3>1. j[1] \in Subjects /\ j[2] \in Nat  BY DEF Ids
    <3>2. gen[j[1]] \in Nat /\ gen'[j[1]] \in Nat  BY <3>1 DEF TypeInv, StoreTypeOK
    <3> QED  BY <2>1, <2>5, <3>1, <3>2 DEF Spent
  <2>6. Spent(i)'  BY <1>0, <2>1 DEF Spent
  <2>7. HandedOnce'  BY <1>0, <2>3, <2>5 DEF HandedOnce
  <2>8. \A v \in Workers : Beyond(v) => v # w /\ held[v] \in Ids \ {i}
    <3>1. ASSUME NEW v \in Workers, Beyond(v)  PROVE v # w /\ held[v] \in Ids \ {i}
      <4>1. v # w /\ held[v] \in Ids
        BY <1>0, <3>1 DEF Beyond, TypeInv, WorkerTypeOK, CarriesId, Carrying
      <4>2. held[v] # i
        BY <2>1, <2>2, <3>1 DEF HoldsOffer, Spent, Owns
      <4> QED  BY <4>1, <4>2
    <3> QED  BY <3>1
  <2>9. ASSUME NEW v \in Workers  PROVE HoldsOffer(v)'
    <3>1. CASE v = w
      BY <1>0, <2>1, <2>3, <2>6, <3>1 DEF HoldsOffer, Owns, Spent
    <3>2. CASE v # w
      <4> SUFFICES ASSUME Beyond(v)' PROVE HoldsOffer(v)'  BY DEF HoldsOffer
      <4>1. Beyond(v)  BY <2>4, <3>2 DEF Beyond, TypeInv, WorkerTypeOK
      <4>2. held[v] \in Ids \ {i} /\ Spent(held[v])  BY <2>8, <4>1 DEF HoldsOffer
      <4>3. Spent(held[v])'
        <5>1. ASSUME NEW j \in Ids \ {i}, j = held[v]  PROVE Spent(j)'
          BY <2>5, <4>2, <5>1
        <5> QED  BY <1>0, <4>2, <5>1 DEF Spent
      <4> QED  BY <1>0, <2>1, <4>1, <4>2, <4>3 DEF HoldsOffer
    <3> QED  BY <3>1, <3>2
  <2>10. ASSUME NEW v \in Workers  PROVE NotYetMarked(v)'
    <3>1. CASE v = w
      BY <2>4, <3>1 DEF NotYetMarked, BeforeMark, TypeInv, WorkerTypeOK
    <3>2. CASE v # w
      <4>1. pc'[v] = pc[v] /\ held'[v] = held[v]
        BY <1>0, <2>4, <3>2 DEF TypeInv, WorkerTypeOK
      <4>2. ASSUME pc[v] \in BeforeMark \cup {"release"}  PROVE held[v] \in Ids
        BY <4>2 DEF BeforeMark, TypeInv, WorkerTypeOK, CarriesId, Carrying
      <4> QED
        BY <1>0, <2>1, <2>3, <3>2, <4>1, <4>2 DEF NotYetMarked, Owns, BeforeMark
    <3> QED  BY <3>1, <3>2
  <2>11. OneOffer'
    <3>1. \A v \in Workers : Beyond(v)' => v = w \/ Beyond(v)
      BY <2>4 DEF Beyond, TypeInv, WorkerTypeOK
    <3> QED  BY <1>0, <2>8, <3>1 DEF OneOffer
  <2> QED  BY <2>1, <2>7, <2>9, <2>10, <2>11
<1> QED  BY <1>1, <1>2 DEF Mark

\* The worker with the only offer of an id uses it up.
LEMMA HandStep ==
  ASSUME IInv, TypeInv', NEW w \in Workers, HandOver(w) \/ SteerInjected(w)
  PROVE  IInv'
<1> USE DEF IInv
<1> DEFINE i == held[w]
<1>1. /\ Beyond(w) /\ i \in Ids /\ held' = held
      /\ UNCHANGED storeVars
      /\ \E l \in {"ack", "accept", "uncertain"} : pc' = [pc EXCEPT ![w] = l]
  BY DEF HandOver, SteerInjected, At, Beyond, Goto, Carrying,
         TypeInv, WorkerTypeOK, CarriesId
<1>2. handed[i] = 0 /\ Spent(i)  BY <1>1 DEF HoldsOffer
<1>3. handed' = [handed EXCEPT ![i] = 1]
  BY <1>1, <1>2 DEF HandOver, SteerInjected, Hand, TypeInv, RuntimeTypeOK
<1>4. RowsHonest' /\ UNCHANGED <<item, gen, fate>>
  BY <1>1, StoreQuiet DEF TypeInv, storeVars
<1>5. HandedOnce'
  BY <1>1, <1>2, <1>3, <1>4 DEF HandedOnce, Spent, TypeInv, RuntimeTypeOK
<1>6. \A v \in Workers : Beyond(v)' => Beyond(v) /\ v # w
  BY <1>1 DEF Beyond, TypeInv, WorkerTypeOK
<1>7. ASSUME NEW v \in Workers  PROVE HoldsOffer(v)'
  <2>1. Beyond(v)' => held[v] \in Ids \ {i}
    BY <1>1, <1>6
    DEF OneOffer, Beyond, TypeInv, WorkerTypeOK, CarriesId, Carrying
  <2> QED
    BY <1>1, <1>3, <1>4, <1>6, <2>1
    DEF HoldsOffer, Spent, TypeInv, RuntimeTypeOK
<1>8. ASSUME NEW v \in Workers  PROVE NotYetMarked(v)'
  <2>1. CASE v = w
    BY <1>1, <2>1 DEF NotYetMarked, BeforeMark, TypeInv, WorkerTypeOK
  <2>2. CASE v # w
    <3>1. pc'[v] = pc[v] /\ held'[v] = held[v]
      BY <1>1, <2>2 DEF TypeInv, WorkerTypeOK
    <3>2. ASSUME pc[v] = "release", Owns(v, held[v])
          PROVE  held[v] \in Ids \ {i} /\ handed[held[v]] = 0
      <4>1. held[v] \in Ids
        BY <3>2 DEF TypeInv, WorkerTypeOK, CarriesId, Carrying
      <4>2. held[v] # i
        BY <1>1, <2>2, <3>2, NullAssumption DEF HoldsOffer, Owns
      <4> QED  BY <3>2, <4>1, <4>2 DEF NotYetMarked
    <3> QED
      BY <1>3, <1>4, <3>1, <3>2 DEF NotYetMarked, Owns, TypeInv, RuntimeTypeOK
  <2> QED  BY <2>1, <2>2
<1>9. OneOffer'  BY <1>1, <1>6 DEF OneOffer
<1> QED  BY <1>4, <1>5, <1>7, <1>8, <1>9

\* Only a prompt that was not handed over is returned to the queue.
LEMMA ReleaseStep ==
  ASSUME IInv, TypeInv', NEW w \in Workers, Release(w)
  PROVE  IInv'
<1> USE DEF IInv
<1> DEFINE i == held[w]
<1>0. i \in Ids /\ pc[w] = "release" /\ handed' = handed /\ Done(w)
  BY DEF Release, At, Carrying, TypeInv, WorkerTypeOK, CarriesId, runtimeVars
<1>1. CASE UNCHANGED storeVars
  <2>1. RowsHonest' /\ Quiet  BY <1>1, StoreQuiet DEF TypeInv
  <2>2. \A v \in Workers : QuietWorker(v)  BY <1>0, DoneQuiet DEF TypeInv
  <2> QED  BY <1>0, <2>1, <2>2, QuietStep
<1>2. CASE ReleaseClaimBusy(w, i)
  <2>1. /\ RowsHonest' /\ UNCHANGED <<gen, fate>> /\ Owns(w, i)
        /\ item'[i].st = "queued" /\ ~item'[i].started
        /\ \A j \in Ids \ {i} : item'[j] = item[j]
    BY <1>0, <1>2, ReleaseHonest DEF TypeInv
  <2>2. handed[i] = 0  BY <1>0, <2>1 DEF NotYetMarked
  <2>3. HandedOnce'  BY <1>0, <2>1, <2>2 DEF HandedOnce, Spent
  <2>4. /\ pc' = [pc EXCEPT ![w] = "idle"]
        /\ held' = [held EXCEPT ![w] = None]
    BY <1>0 DEF Done, Goto
  <2>5. ASSUME NEW v \in Workers, Beyond(v)'
        PROVE  Beyond(v) /\ held'[v] = held[v] /\ held[v] \in Ids \ {i}
    <3>1. v # w /\ Beyond(v) /\ held'[v] = held[v]
      BY <2>4, <2>5 DEF Beyond, TypeInv, WorkerTypeOK
    <3>2. held[v] \in Ids
      BY <3>1 DEF Beyond, TypeInv, WorkerTypeOK, CarriesId, Carrying
    <3>3. held[v] # i  BY <2>1, <3>1, NullAssumption DEF HoldsOffer, Owns
    <3> QED  BY <3>1, <3>2, <3>3
  <2>6. ASSUME NEW v \in Workers  PROVE HoldsOffer(v)'
    BY <1>0, <2>1, <2>5 DEF HoldsOffer, Spent
  <2>7. ASSUME NEW v \in Workers  PROVE NotYetMarked(v)'
    <3>1. CASE v = w
      BY <2>4, <3>1 DEF NotYetMarked, BeforeMark, TypeInv, WorkerTypeOK
    <3>2. CASE v # w
      <4>1. pc'[v] = pc[v] /\ held'[v] = held[v]
        BY <2>4, <3>2 DEF TypeInv, WorkerTypeOK
      <4>2. ASSUME pc[v] \in BeforeMark \cup {"release"}  PROVE held[v] \in Ids
        BY <4>2 DEF BeforeMark, TypeInv, WorkerTypeOK, CarriesId, Carrying
      <4> QED  BY <1>0, <2>1, <4>1, <4>2 DEF NotYetMarked, Owns, BeforeMark
    <3> QED  BY <3>1, <3>2
  <2>8. OneOffer'  BY <2>5 DEF OneOffer
  <2> QED  BY <2>1, <2>3, <2>6, <2>7, <2>8
<1> QED  BY <1>1, <1>2 DEF Release

-------------------------------------------------------------------------------
LEMMA InvInit == Init => IInv
<1> SUFFICES ASSUME Init PROVE IInv  OBVIOUS
<1>1. TypeInv  BY InitType
<1>2. \A i \in Ids : item[i].st = "absent" /\ ~item[i].started /\ handed[i] = 0
  BY DEF Init, StoreInit, AbsentRow, Row
<1>3. \A w \in Workers : pc[w] = "idle"  BY DEF Init
<1>4. RowsHonest /\ HandedOnce  BY <1>2 DEF RowsHonest, RowHonest, HandedOnce
<1> QED
  BY <1>1, <1>3, <1>4
  DEF IInv, NotYetMarked, HoldsOffer, OneOffer, Beyond, BeforeMark

LEMMA InvStep ==
  ASSUME ~LateResends
  PROVE  IInv /\ [Next]_vars => IInv'
<1> SUFFICES ASSUME IInv, [Next]_vars PROVE IInv'  OBVIOUS
<1>1. TypeInv'  BY TypeStep DEF IInv
<1>2. ASSUME NEW w \in Workers, WorkerStep(w)  PROVE IInv'
  BY <1>1, <1>2, QuietWorkerSteps, ClaimStep, MarkStep, HandStep, ReleaseStep
  DEF WorkerStep
<1>3. CASE \/ \E w \in Workers : RuntimeStep(w)
           \/ \E i \in Ids : Expire(i)
           \/ ClientStep
  BY <1>1, <1>3, QuietEnvironment
<1>4. CASE UNCHANGED vars
  <2>1. UNCHANGED storeVars /\ UNCHANGED workerVars /\ handed' = handed
    BY <1>4 DEF vars
  <2> QED
    BY <1>1, <2>1, StoreQuiet, WorkersQuiet, QuietStep DEF IInv, TypeInv
<1> QED  BY <1>2, <1>3, <1>4 DEF Next

LEMMA InvImplies == IInv => AtMostOnce /\ HandedIsMarked
BY DEF IInv, HandedOnce, Spent, AtMostOnce, HandedIsMarked

\* Unless a client repeats an enqueue whose row is gone, a prompt is put on a
\* Harness channel at most once under one id: for any number of processes and
\* messages, however leases expire, transactions fail and processes die.
THEOREM PromptAtMostOnce ==
  ASSUME ~LateResends
  PROVE  Spec => []AtMostOnce
<1>1. Init => IInv  BY InvInit
<1>2. IInv /\ [Next]_vars => IInv'  BY InvStep
<1> QED  BY <1>1, <1>2, InvImplies, PTL DEF Spec

\* Under the same condition no row that a sweep, a release or a thaw returns to
\* the queue holds a prompt that was handed over.
THEOREM MarkCoversHandOver ==
  ASSUME ~LateResends
  PROVE  Spec => []HandedIsMarked
<1>1. Init => IInv  BY InvInit
<1>2. IInv /\ [Next]_vars => IInv'  BY InvStep
<1> QED  BY <1>1, <1>2, InvImplies, PTL DEF Spec

-------------------------------------------------------------------------------
(* Every step commits at most one transaction.                                 *)

\* Leases run out and processes die: nothing but the owner or the expiry of
\* claims changes.
Lapse ==
  /\ \A i \in Ids :
       /\ item'[i].st = item[i].st /\ item'[i].pos = item[i].pos
       /\ item'[i].why = item[i].why /\ item'[i].started = item[i].started
       /\ \/ item'[i].owner = item[i].owner
          \/ item'[i].owner = Gone /\ \E w \in Workers : Crash(w) /\ Owns(w, i)
  /\ UNCHANGED <<pause, fresh, draft, gen, fate, dlv, op, policy>>

ClientTransaction ==
  \/ \E m \in Msgs : Enqueue(m)
  \/ \E e \in Events, b \in BOOLEAN : SendEvent(e, b)
  \/ \E i \in Ids : Edit(i) \/ Delete(i) \/ RetryItem(i)
  \/ Reorder \/ PauseQueueIfPending \/ ResumeQueue \/ Refresh
  \/ \E b \in BOOLEAN : UpsertPolicy(b)

\* The transactions of worker w on row i, at the steps where it makes them.
RowTransaction(w, i) ==
  \/ pc[w] = "seen" /\ ClaimHead(w, i)
  \/ pc[w] = "uncertain" /\ PauseDispatchUnknown(i)
  \/ /\ held[w] = i
     /\ \/ pc[w] = "mark" /\ MarkDispatchStarted(w, i)
        \/ pc[w] = "accept" /\ AcceptClaim(w, i)
        \/ pc[w] = "release" /\ ReleaseClaimBusy(w, i)
        \/ pc[w] = "fail" /\ FailClaim(w, i)

SweepTransaction ==
  \/ RecoverExpiredClaims
  \/ \E b \in BOOLEAN : Reconcile(b)
  \/ ObserveTerminal
  \/ \E stale \in SUBSET Events : RecoverInterrupts(stale)

LEMMA LapseStep ==
  ASSUME TypeInv,
         (\E w \in Workers : Crash(w)) \/ (\E i \in Ids : Expire(i))
  PROVE  Lapse
<1>1. \A i \in Ids : item[i] \in Rows  BY DEF TypeInv, StoreTypeOK
<1>2. ASSUME NEW w \in Workers, Crash(w)  PROVE Lapse
  <2>1. ASSUME NEW i \in Ids
        PROVE  \/ item'[i] = item[i]
               \/ item'[i] = [item[i] EXCEPT !.owner = Gone] /\ Owns(w, i)
    BY <1>2 DEF Crash
  <2>2. UNCHANGED <<pause, fresh, draft, gen, fate, dlv, op, policy>>
    BY <1>2 DEF Crash
  <2> QED  BY <1>1, <1>2, <2>1, <2>2 DEF Lapse, Rows
<1>3. ASSUME NEW j \in Ids, Expire(j)  PROVE Lapse
  <2>1. ASSUME NEW i \in Ids
        PROVE  item'[i] = item[i] \/ item'[i] = [item[i] EXCEPT !.expired = TRUE]
    BY <1>3 DEF Expire, TypeInv, StoreTypeOK
  <2> QED  BY <1>1, <1>3, <2>1 DEF Expire, Lapse, Rows
<1> QED  BY <1>2, <1>3

LEMMA WorkerTransaction ==
  ASSUME TypeInv, NEW w \in Workers, WorkerStep(w)
  PROVE  UNCHANGED storeVars \/ (\E i \in Ids : RowTransaction(w, i)) \/ SweepTransaction
<1> DEFINE Goal == UNCHANGED storeVars \/ (\E i \in Ids : RowTransaction(w, i)) \/ SweepTransaction
<1>0. pc[w] \in Carrying => held[w] \in Ids  BY DEF TypeInv, WorkerTypeOK, CarriesId
<1>1. CASE \/ Observe(w) \/ ObserveBusy(w) \/ ClaimNothing(w) \/ FreezeCheck(w)
           \/ PolicyUnreadable(w) \/ Recheck(w) \/ Admit(w) \/ HandOver(w)
           \/ SendFails(w) \/ SteerInjected(w) \/ SteerNotTaken(w) \/ AcceptFails(w)
           \/ GiveUp(w) \/ ReadPolicy(w)
  BY <1>1 DEF Observe, ObserveBusy, ClaimNothing, FreezeCheck, PolicyUnreadable,
              Recheck, Admit, HandOver, SendFails, SteerInjected, SteerNotTaken,
              AcceptFails, GiveUp, ReadPolicy
<1>2. CASE Claim(w) \/ ClaimOrphaned(w)
  BY <1>2 DEF Claim, ClaimOrphaned, RowTransaction, At
<1>3. CASE Mark(w) \/ Accept(w) \/ PauseUnknown(w) \/ Release(w) \/ Fail(w)
  <2>1. held[w] \in Ids
    BY <1>0, <1>3 DEF Mark, Accept, PauseUnknown, Release, Fail, At, Carrying
  <2> QED
    BY <1>3, <2>1 DEF Mark, Accept, PauseUnknown, Release, Fail, RowTransaction, At
<1>4. CASE TellInterrupt(w) \/ ReconcilePolicy(w) \/ SweepInterrupts(w) \/ SweepClaims(w)
  BY <1>4 DEF TellInterrupt, ReconcilePolicy, SweepInterrupts, SweepClaims, SweepTransaction
<1> QED  BY <1>1, <1>2, <1>3, <1>4 DEF WorkerStep

Transaction ==
  \/ UNCHANGED storeVars \/ Lapse
  \/ ClientTransaction \/ SweepTransaction
  \/ \E w \in Workers, i \in Ids : RowTransaction(w, i)

\* Whatever worker, runtime or client makes a step, the tables see one
\* transaction of the service, the lapse of a claim, or nothing.
LEMMA StepIsTransaction ==
  ASSUME TypeInv, [Next]_vars
  PROVE  Transaction
<1>1. CASE \E w \in Workers : WorkerStep(w)
  BY <1>1, WorkerTransaction DEF Transaction
<1>2. CASE \E w \in Workers : Crash(w)
  BY <1>2, LapseStep DEF Transaction
<1>3. CASE \E i \in Ids : Expire(i)
  BY <1>3, LapseStep DEF Transaction
<1>4. CASE \E w \in Workers : \/ ConnStarts(w) \/ ConnDies(w) \/ LoopDequeue(w)
                              \/ TurnEnds(w) \/ AdHocAdmit(w) \/ AdHocSend(w)
                              \/ CancelTurn(w)
  BY <1>4 DEF ConnStarts, ConnDies, LoopDequeue, TurnEnds, AdHocAdmit, AdHocSend,
              CancelTurn, Transaction
<1>5. CASE EditQueue \/ ResumeOrRetry \/ \E w \in Workers : CancelPauses(w)
  BY <1>5 DEF EditQueue, ResumeOrRetry, CancelPauses, Transaction, ClientTransaction
<1>6. ASSUME NEW e \in Events, NEW w \in Workers, Send(e, w)  PROVE Transaction
  <2>1. \E b \in BOOLEAN : SendEvent(e, b)
    BY <1>6 DEF Send, SessionRuntimeActive, StatusConnected
  <2> QED  BY <2>1 DEF Transaction, ClientTransaction
<1>7. CASE (\E b \in BOOLEAN : SavePolicy(b)) \/ ApplyPolicy
  <2>1. (\E b \in BOOLEAN : UpsertPolicy(b)) \/ (\E b \in BOOLEAN : Reconcile(b))
    BY <1>7 DEF SavePolicy, ApplyPolicy
  <2> QED  BY <2>1 DEF Transaction, ClientTransaction, SweepTransaction
<1>8. CASE UNCHANGED vars
  BY <1>8 DEF vars, Transaction
<1> QED
  BY <1>1, <1>2, <1>3, <1>4, <1>5, <1>6, <1>7, <1>8 DEF Next, RuntimeStep, ClientStep

-------------------------------------------------------------------------------
(* What one transaction may never do.                                          *)

LEMMA VisibleBumps ==
  ASSUME Transaction
  PROVE  Visible' = Visible \/ ~fresh'
<1>1. ASSUME \A i \in Ids : /\ item'[i].st = item[i].st /\ item'[i].pos = item[i].pos
                            /\ item'[i].why = item[i].why,
             UNCHANGED <<pause, draft>>
      PROVE  Visible' = Visible
  BY <1>1 DEF Visible
<1>2. CASE UNCHANGED storeVars \/ Lapse \/ Refresh \/ \E b \in BOOLEAN : UpsertPolicy(b)
  BY <1>1, <1>2 DEF storeVars, Lapse, Refresh, UpsertPolicy
<1>3. ASSUME NEW b \in BOOLEAN, Reconcile(b)  PROVE Visible' = Visible \/ ~fresh'
  <2> DEFINE S == IF b THEN Frozen ELSE Freezable
  <2>1. CASE S = {}
    <3>1. item' = [i \in Ids |-> item[i]]  BY <1>3, <2>1 DEF Reconcile
    <3> QED  BY <1>1, <1>3, <3>1 DEF Reconcile
  <2>2. CASE S # {}
    BY <1>3, <2>2 DEF Reconcile
  <2> QED  BY <2>1, <2>2
<1>4. CASE ObserveTerminal \/ \E stale \in SUBSET Events : RecoverInterrupts(stale)
  BY <1>1, <1>4 DEF ObserveTerminal, RecoverInterrupts, ClearOwnedPause, Bump
<1>5. CASE RecoverExpiredClaims
  BY <1>5 DEF RecoverExpiredClaims, Bump
<1>6. ASSUME NEW w \in Workers, NEW i \in Ids, RowTransaction(w, i)  PROVE ~fresh'
  BY <1>6 DEF RowTransaction, ClaimHead, MarkDispatchStarted, AcceptClaim,
              ReleaseClaimBusy, FailClaim, PauseDispatchUnknown, Bump
<1>7. CASE \/ \E m \in Msgs : Enqueue(m)
           \/ \E e \in Events, b \in BOOLEAN : SendEvent(e, b)
           \/ \E i \in Ids : Edit(i) \/ Delete(i) \/ RetryItem(i)
           \/ Reorder \/ PauseQueueIfPending \/ ResumeQueue
  BY <1>7 DEF Enqueue, SendEvent, Append, Edit, Delete, RetryItem, Reorder,
              PauseQueueIfPending, ResumeQueue, Bump
<1> QED
  BY <1>2, <1>3, <1>4, <1>5, <1>6, <1>7 DEF Transaction, ClientTransaction, SweepTransaction

\* The revision a client sends with its command is honest: no transaction of the
\* service changes what a client sees of the queue and leaves the revision.
THEOREM RevisionNeverStale == Spec => RevisionHonest
<1>1. Init => TypeInv  BY InitType
<1>2. TypeInv /\ [Next]_vars => TypeInv'  BY TypeStep
<1>3. TypeInv /\ [Next]_vars => [Visible' # Visible => ~fresh']_vars
  BY StepIsTransaction, VisibleBumps
<1> QED  BY <1>1, <1>2, <1>3, PTL DEF Spec, RevisionHonest

-------------------------------------------------------------------------------
(* Admission.                                                                  *)

\* A claim names a dead process only because its own process has died.
LEMMA GoneByCrash ==
  ASSUME TypeInv, [Next]_vars, NEW i \in Ids,
         item'[i].st = "claimed", item'[i].owner = Gone
  PROVE  \/ item[i].st = "claimed" /\ item[i].owner = Gone
         \/ \E v \in Workers : Crash(v) /\ Owns(v, i)
<1>0. item[i] \in Rows /\ Transaction  BY StepIsTransaction DEF TypeInv, StoreTypeOK
<1>1. CASE Lapse
  BY <1>1 DEF Lapse
<1>2. ASSUME NEW j \in Ids, NEW r, item' = [item EXCEPT ![j] = r],
             r.st = "claimed" => r.owner # Gone \/ (item[j].st = "claimed" /\ r.owner = item[j].owner)
      PROVE  item[i].st = "claimed" /\ item[i].owner = Gone
  BY <1>2 DEF TypeInv, StoreTypeOK
<1>3. ASSUME NEW w \in Workers, NEW j \in Ids, RowTransaction(w, j)
      PROVE  item[i].st = "claimed" /\ item[i].owner = Gone
  <2>0. item[j] \in Rows  BY DEF TypeInv, StoreTypeOK
  <2>1. CASE ClaimHead(w, j)
    BY <2>0, <2>1, <1>2, NullAssumption DEF ClaimHead, Rows
  <2>2. CASE MarkDispatchStarted(w, j)
    BY <2>0, <2>2, <1>2 DEF MarkDispatchStarted, MayStart, Owns, Rows
  <2>3. CASE AcceptClaim(w, j) \/ ReleaseClaimBusy(w, j)
    BY <2>0, <2>3, <1>2 DEF AcceptClaim, ReleaseClaimBusy, AbsentRow, Row
  <2>4. CASE FailClaim(w, j) \/ PauseDispatchUnknown(j)
    BY <2>0, <2>4, <1>2 DEF FailClaim, PauseDispatchUnknown, Parked, Rows
  <2> QED  BY <1>3, <2>1, <2>2, <2>3, <2>4 DEF RowTransaction
<1>4. ASSUME SweepTransaction
      PROVE  item[i].st = "claimed" /\ item[i].owner = Gone
  <2>1. item'[i] = item[i] \/ item'[i].st # "claimed"
    <3>1. CASE RecoverExpiredClaims
      BY <1>0, <3>1 DEF RecoverExpiredClaims, Parked, Row, Rows
    <3>2. CASE \E b \in BOOLEAN : Reconcile(b)
      BY <3>2 DEF Reconcile, Row
    <3>3. CASE ObserveTerminal \/ \E stale \in SUBSET Events : RecoverInterrupts(stale)
      BY <3>3 DEF ObserveTerminal, RecoverInterrupts
    <3> QED  BY <1>4, <3>1, <3>2, <3>3 DEF SweepTransaction
  <2> QED  BY <2>1
<1>5. ASSUME ClientTransaction
      PROVE  item[i].st = "claimed" /\ item[i].owner = Gone
  <2>1. CASE UNCHANGED item
    BY <2>1
  <2>2. CASE \/ \E m \in Msgs : Enqueue(m)
             \/ \E e \in Events, b \in BOOLEAN : SendEvent(e, b)
    <3>1. PICK s \in Subjects, st \in {"queued", "paused"}, why \in Whys : Append(<<s, 0>>, st, why)
      BY <2>2 DEF Enqueue, SendEvent, Subjects, Whys
    <3>2. PICK p \in Positions : item' = [item EXCEPT ![<<s, 0>>] = Row(st, p, why)]
      BY <3>1 DEF Append
    <3>3. <<s, 0>> \in Ids  BY BoundsAssumption DEF Ids
    <3>4. Row(st, p, why).st # "claimed"  BY <3>1 DEF Row
    <3> QED  BY <3>2, <3>3, <3>4, <1>2
  <2>3. ASSUME NEW j \in Ids, Delete(j)
        PROVE  item[i].st = "claimed" /\ item[i].owner = Gone
    BY <2>3, <1>2 DEF Delete, AbsentRow, Row
  <2>4. ASSUME NEW j \in Ids, RetryItem(j)
        PROVE  item[i].st = "claimed" /\ item[i].owner = Gone
    <3>1. item'[i] = item[i] \/ item'[i].st # "claimed"
      BY <2>4 DEF RetryItem, AbsentRow, Row, TypeInv, StoreTypeOK
    <3> QED  BY <3>1
  <2>5. CASE Reorder
    <3>1. item[i].st # "claimed" => item'[i].st # "claimed"
      BY <1>0, <2>5 DEF Reorder, Rows
    <3>2. item[i].st # "claimed"
      BY <2>5 DEF Reorder, Live
    <3> QED  BY <3>1, <3>2
  <2> QED
    BY <1>5, <2>1, <2>2, <2>3, <2>4, <2>5
    DEF ClientTransaction, Edit, PauseQueueIfPending, ResumeQueue, Refresh, UpsertPolicy
<1> QED  BY <1>0, <1>1, <1>3, <1>4, <1>5 DEF Transaction, storeVars

\* A worker beyond its mark owns its row, if that is claimed at all.
MineBeyond(w) ==
  Beyond(w) /\ item[held[w]].st = "claimed" => item[held[w]].owner = w
AdmissionInv == IInv /\ \A w \in Workers : MineBeyond(w)

\* A worker that is beyond its mark after a step was so before, or has marked.
LEMMA BeyondStep ==
  ASSUME TypeInv, [Next]_vars, NEW w \in Workers, Beyond(w)'
  PROVE  /\ held'[w] = held[w] /\ held[w] \in Ids
         /\ Beyond(w) \/ (pc[w] = "mark" /\ MarkDispatchStarted(w, held[w]))
         /\ ~Crash(w)
<1> USE DEF TypeInv, WorkerTypeOK
<1> DEFINE Stays == held'[w] = held[w] /\ Beyond(w)
           Marks == held'[w] = held[w] /\ pc[w] = "mark" /\ MarkDispatchStarted(w, held[w])
<1>1. ASSUME NEW v \in Workers, Done(v)  PROVE v # w /\ Stays
  BY <1>1 DEF Done, Goto, Beyond
<1>2. ASSUME UNCHANGED <<pc, held>>  PROVE Stays
  BY <1>2 DEF Beyond
<1>3. ASSUME NEW v \in Workers, UNCHANGED held, NEW l, Goto(v, l),
             l \in {"send", "admitted"} => Beyond(v)
      PROVE  Stays
  BY <1>3 DEF Goto, Beyond
<1>4. ASSUME NEW v \in Workers, WorkerStep(v)  PROVE Stays \/ Marks
  <2>1. CASE \/ ClaimOrphaned(v) \/ ClaimNothing(v) \/ PolicyUnreadable(v)
             \/ PauseUnknown(v) \/ Release(v) \/ Fail(v) \/ GiveUp(v) \/ SweepClaims(v)
    BY <1>1, <2>1 DEF ClaimOrphaned, ClaimNothing, PolicyUnreadable, PauseUnknown,
       Release, Fail, GiveUp, SweepClaims
  <2>2. CASE \/ Observe(v) \/ TellInterrupt(v) \/ ObserveBusy(v) \/ FreezeCheck(v)
             \/ Recheck(v) \/ HandOver(v) \/ SendFails(v) \/ SteerInjected(v)
             \/ SteerNotTaken(v) \/ AcceptFails(v) \/ ReadPolicy(v) \/ SweepInterrupts(v)
    <3>1. /\ UNCHANGED held
          /\ \E l \in {"look", "seen", "reread", "recheck", "release", "mark", "fail", "ack",
                     "accept", "uncertain", "reconcileOn", "reconcileOff", "sweepClaims"} :
               Goto(v, l)
      BY <2>2 DEF Observe, TellInterrupt, ObserveBusy, FreezeCheck, Recheck, HandOver,
         SendFails, SteerInjected, SteerNotTaken, AcceptFails, ReadPolicy, SweepInterrupts, Step
    <3> QED  BY <3>1, <1>3
  <2>3. CASE Accept(v) \/ ReconcilePolicy(v)
    <3>1. Done(v) \/ (UNCHANGED held /\ \E l \in {"uncertain", "sweepOps"} : Goto(v, l))
      BY <2>3 DEF Accept, ReconcilePolicy
    <3> QED  BY <3>1, <1>1, <1>3
  <2>4. CASE Claim(v)
    <3>1. PICK i \in Ids, l \in {"release", "freeze"} :
            held' = [held EXCEPT ![v] = i] /\ Goto(v, l)
      BY <2>4 DEF Claim
    <3> QED  BY <3>1 DEF Goto, Beyond
  <2>5. CASE Mark(v)
    <3>1. /\ UNCHANGED held
          /\ \/ \E l \in {"refuse", "release"} : Goto(v, l)
             \/ pc[v] = "mark" /\ MarkDispatchStarted(v, held[v]) /\ Goto(v, "send")
      BY <2>5 DEF Mark, At
    <3>2. CASE v = w
      BY <3>1, <3>2, <1>3
    <3>3. CASE v # w
      BY <3>1, <3>3 DEF Goto, Beyond
    <3> QED  BY <3>2, <3>3
  <2>6. CASE Admit(v)
    <3>1. UNCHANGED held /\ Beyond(v) /\ \E l : Goto(v, l)
      BY <2>6 DEF Admit, At, Beyond
    <3> QED  BY <3>1, <1>3
  <2> QED  BY <1>4, <2>1, <2>2, <2>3, <2>4, <2>5, <2>6 DEF WorkerStep
<1>5. ASSUME NEW v \in Workers, RuntimeStep(v)  PROVE Stays
  <2>1. CASE ConnDies(v) \/ LoopDequeue(v)
    BY <2>1 DEF ConnDies, LoopDequeue, Beyond
  <2>2. CASE ConnStarts(v) \/ TurnEnds(v) \/ AdHocAdmit(v) \/ AdHocSend(v)
    BY <2>2, <1>2 DEF ConnStarts, TurnEnds, AdHocAdmit, AdHocSend, workerVars
  <2>3. CASE Crash(v)
    BY <2>3, <1>1 DEF Crash
  <2> QED  BY <1>5, <2>1, <2>2, <2>3 DEF RuntimeStep
<1>6. ASSUME (\E i \in Ids : Expire(i)) \/ ClientStep \/ UNCHANGED vars
      PROVE  Stays
  <2>1. UNCHANGED workerVars
    BY <1>6 DEF Expire, ClientStep, EditQueue, ResumeOrRetry, CancelPauses, CancelTurn,
       Send, SavePolicy, ApplyPolicy, ClientUnchanged, vars
  <2> QED  BY <2>1, <1>2 DEF workerVars
<1>7. Stays \/ Marks
  <2>1. CASE \E v \in Workers : WorkerStep(v) \/ RuntimeStep(v)
    BY <1>4, <1>5, <2>1
  <2>2. CASE (\E i \in Ids : Expire(i)) \/ ClientStep \/ UNCHANGED vars
    BY <1>6, <2>2
  <2> HIDE DEF Stays, Marks, TypeInv, WorkerTypeOK
  <2> QED  BY <2>1, <2>2 DEF Next
<1>8. held[w] \in Ids
  <2>1. pc[w] \in Carrying  BY <1>7 DEF Beyond, Carrying
  <2> QED  BY <2>1 DEF CarriesId
<1>9. ~Crash(w)  BY <1>1 DEF Crash
<1> QED  BY <1>7, <1>8, <1>9

LEMMA AdmissionStep ==
  ASSUME ~LateResends, AdmissionInv, [Next]_vars
  PROVE  AdmissionInv'
<1>1. IInv /\ IInv'  BY InvStep DEF AdmissionInv
<1>2. TypeInv /\ TypeInv'  BY <1>1 DEF IInv
<1>3. ASSUME NEW w \in Workers, Beyond(w)', item'[held'[w]].st = "claimed"
      PROVE  item'[held'[w]].owner = w
  <2>1. /\ held'[w] = held[w] /\ held[w] \in Ids /\ ~Crash(w)
        /\ Beyond(w) \/ MarkDispatchStarted(w, held[w])
    BY <1>2, <1>3, BeyondStep
  <2>2. item'[held[w]].owner \in {w, Gone}
    BY <1>1, <1>3, <2>1 DEF IInv, HoldsOffer
  <2>3. item[held[w]].st = "claimed" => item[held[w]].owner = w
    BY <2>1 DEF AdmissionInv, MineBeyond, MarkDispatchStarted, MayStart, Owns
  <2>4. item'[held[w]].owner # Gone
    BY <1>2, <1>3, <2>1, <2>3, GoneByCrash, NullAssumption DEF Owns
  <2> QED  BY <2>1, <2>2, <2>4
<1> QED  BY <1>1, <1>3 DEF AdmissionInv, MineBeyond

LEMMA WorkerMovesAlone ==
  ASSUME TypeInv, NEW v \in Workers, NEW w \in Workers, WorkerStep(v), v # w
  PROVE  /\ pc'[w] = pc[w] /\ held'[w] = held[w] /\ text'[w] = text[w]
         /\ steer'[w] = steer[w] /\ bound'[w] = bound[w]
<1> DEFINE Stays == /\ pc'[w] = pc[w] /\ held'[w] = held[w] /\ text'[w] = text[w]
                    /\ steer'[w] = steer[w] /\ bound'[w] = bound[w]
<1>1. ASSUME NEW l, Goto(v, l)  PROVE pc'[w] = pc[w]
  BY <1>1 DEF Goto, TypeInv, WorkerTypeOK
<1>2. ASSUME Done(v)  PROVE Stays
  BY <1>1, <1>2 DEF Done, TypeInv, WorkerTypeOK
<1>3. ASSUME NEW l, Goto(v, l), UNCHANGED <<held, text, steer>>,
             bound' = bound \/ Found(v)
      PROVE  Stays
  BY <1>1, <1>3 DEF Found, TypeInv, WorkerTypeOK
<1>4. ASSUME ObserveBusy(v) \/ Claim(v)  PROVE Stays
  BY <1>4 DEF ObserveBusy, Claim, Goto, Found, TypeInv, WorkerTypeOK
<1>5. ASSUME \/ Observe(v) \/ TellInterrupt(v) \/ FreezeCheck(v) \/ Recheck(v) \/ Mark(v)
             \/ Admit(v) \/ HandOver(v) \/ SendFails(v) \/ SteerInjected(v)
             \/ SteerNotTaken(v) \/ AcceptFails(v) \/ ReadPolicy(v) \/ SweepInterrupts(v)
      PROVE  Stays
  <2>1. UNCHANGED <<held, text, steer>> /\ (bound' = bound \/ Found(v))
    BY <1>5 DEF Observe, TellInterrupt, FreezeCheck, Recheck, Mark, Admit, HandOver,
       SendFails, SteerInjected, SteerNotTaken, AcceptFails, ReadPolicy, SweepInterrupts, Step
  <2>2. \E l : Goto(v, l)
    BY <1>5 DEF Observe, TellInterrupt, FreezeCheck, Recheck, Mark, Admit, HandOver,
       SendFails, SteerInjected, SteerNotTaken, AcceptFails, ReadPolicy, SweepInterrupts, Step
  <2> QED  BY <2>1, <2>2, <1>3
<1>6. ASSUME Accept(v) \/ ReconcilePolicy(v)  PROVE Stays
  <2>1. Done(v) \/ (UNCHANGED <<held, text, steer, bound>> /\ \E l : Goto(v, l))
    BY <1>6 DEF Accept, ReconcilePolicy
  <2> QED  BY <2>1, <1>2, <1>3
<1>7. ASSUME \/ ClaimOrphaned(v) \/ ClaimNothing(v) \/ PolicyUnreadable(v) \/ PauseUnknown(v)
             \/ Release(v) \/ Fail(v) \/ GiveUp(v) \/ SweepClaims(v)
      PROVE  Stays
  BY <1>7, <1>2 DEF ClaimOrphaned, ClaimNothing, PolicyUnreadable, PauseUnknown,
     Release, Fail, GiveUp, SweepClaims
<1> HIDE DEF Stays
<1> QED  BY <1>4, <1>5, <1>6, <1>7 DEF WorkerStep, Stays

\* Another worker's step leaves worker w where it is, with what it carries.
LEMMA MovesAlone ==
  ASSUME TypeInv, [Next]_vars, NEW w \in Workers
  PROVE  \/ WorkerStep(w) \/ ConnDies(w) \/ LoopDequeue(w) \/ Crash(w)
         \/ /\ pc'[w] = pc[w] /\ held'[w] = held[w] /\ text'[w] = text[w]
            /\ steer'[w] = steer[w] /\ bound'[w] = bound[w]
<1> DEFINE Stays == /\ pc'[w] = pc[w] /\ held'[w] = held[w] /\ text'[w] = text[w]
                    /\ steer'[w] = steer[w] /\ bound'[w] = bound[w]
<1>1. ASSUME NEW v \in Workers, WorkerStep(v) \/ RuntimeStep(v), v # w  PROVE Stays
  <2>1. CASE WorkerStep(v)
    BY <1>1, <2>1, WorkerMovesAlone
  <2>2. CASE RuntimeStep(v)
    BY <1>1, <2>2 DEF RuntimeStep, ConnStarts, ConnDies, LoopDequeue, TurnEnds,
       AdHocAdmit, AdHocSend, Crash, Done, Goto, workerVars, TypeInv, WorkerTypeOK
  <2> QED  BY <1>1, <2>1, <2>2
<1>2. ASSUME RuntimeStep(w)  PROVE Stays \/ ConnDies(w) \/ LoopDequeue(w) \/ Crash(w)
  BY <1>2 DEF RuntimeStep, ConnStarts, TurnEnds, AdHocAdmit, AdHocSend, workerVars
<1>3. ASSUME (\E i \in Ids : Expire(i)) \/ ClientStep \/ UNCHANGED vars
      PROVE  Stays
  <2>1. UNCHANGED workerVars
    BY <1>3 DEF Expire, ClientStep, EditQueue, ResumeOrRetry, CancelPauses, CancelTurn,
       Send, SavePolicy, ApplyPolicy, ClientUnchanged, vars
  <2> QED  BY <2>1 DEF workerVars
<1> HIDE DEF Stays
<1>4. CASE \E v \in Workers : WorkerStep(v) \/ RuntimeStep(v)
  BY <1>1, <1>2, <1>4 DEF Stays
<1>5. CASE (\E i \in Ids : Expire(i)) \/ ClientStep \/ UNCHANGED vars
  BY <1>3, <1>5 DEF Stays
<1> QED  BY <1>4, <1>5 DEF Next

\* Only the check of the queue admits a prompt of the queue.
LEMMA AdmittedByCheck ==
  ASSUME TypeInv, [Next]_vars, NEW w \in Workers, pc[w] = "send", pc'[w] = "admitted"
  PROVE  SendIsAdmitted(held[w])
<1>1. ASSUME NEW l, Goto(w, l), l # "admitted"  PROVE FALSE
  BY <1>1 DEF Goto, TypeInv, WorkerTypeOK
<1>2. ~Done(w)  BY <1>1 DEF Done
<1>3. ~(ConnDies(w) \/ LoopDequeue(w) \/ Crash(w))
  BY <1>2 DEF ConnDies, LoopDequeue, Crash, TypeInv, WorkerTypeOK
<1>4. WorkerStep(w)  BY <1>3, MovesAlone
<1>5. \/ Admit(w) \/ SteerInjected(w) \/ SteerNotTaken(w)
  BY <1>2, <1>4
  DEF WorkerStep, Observe, TellInterrupt, ObserveBusy, Claim, ClaimOrphaned, ClaimNothing,
      FreezeCheck, PolicyUnreadable, Recheck, Mark, HandOver, SendFails, Accept, AcceptFails,
      PauseUnknown, Release, Fail, GiveUp, ReadPolicy, ReconcilePolicy, SweepInterrupts,
      SweepClaims, Step, At
<1>6. Admit(w)  BY <1>1, <1>5 DEF SteerInjected, SteerNotTaken
<1> QED  BY <1>1, <1>6 DEF Admit

\* The FIFO is not overtaken: with rows in the queue, a worker is admitted only
\* with the row it owns, at the head, in a queue that runs.
THEOREM HeadIsAdmitted ==
  ASSUME ~LateResends
  PROVE  Spec => AdmittedIsHead
<1>1. Init => AdmissionInv
  <2>1. Init => IInv  BY InvInit
  <2>2. Init => \A w \in Workers : ~Beyond(w)  BY DEF Init, Beyond
  <2> QED  BY <2>1, <2>2 DEF AdmissionInv, MineBeyond
<1>2. AdmissionInv /\ [Next]_vars => AdmissionInv'  BY AdmissionStep
<1>3. AdmissionInv /\ [Next]_vars
        => [\A w \in Workers :
              At(w, "send") /\ pc'[w] = "admitted" /\ Live # {}
                => Owns(w, held[w]) /\ Head(held[w]) /\ pause = NotPaused]_vars
  <2>1. ASSUME AdmissionInv, [Next]_vars, NEW w \in Workers,
               At(w, "send"), pc'[w] = "admitted", Live # {}
        PROVE  Owns(w, held[w]) /\ Head(held[w]) /\ pause = NotPaused
    <3>1. SendIsAdmitted(held[w])
      BY <2>1, AdmittedByCheck DEF AdmissionInv, IInv, At
    <3>2. pause = NotPaused /\ Head(held[w]) /\ item[held[w]].st = "claimed"
      BY <2>1, <3>1 DEF SendIsAdmitted
    <3> QED  BY <2>1, <3>2 DEF AdmissionInv, MineBeyond, Beyond, At, Owns
  <2> QED  BY <2>1
<1> QED  BY <1>1, <1>2, <1>3, PTL DEF Spec, AdmittedIsHead

-------------------------------------------------------------------------------
(* Who moves the runtimes.                                                     *)

LEMMA WorkersLeaveRuntimes ==
  ASSUME NEW w \in Workers, WorkerStep(w)
  PROVE  UNCHANGED runtimeVars \/ HandOver(w) \/ SteerInjected(w)
<1>1. CASE \/ Observe(w) \/ TellInterrupt(w) \/ ObserveBusy(w) \/ Claim(w)
           \/ ClaimOrphaned(w) \/ ClaimNothing(w) \/ FreezeCheck(w)
           \/ PolicyUnreadable(w) \/ Recheck(w) \/ Mark(w) \/ Admit(w)
  BY <1>1 DEF Observe, TellInterrupt, ObserveBusy, Claim, ClaimOrphaned, ClaimNothing,
     FreezeCheck, PolicyUnreadable, Recheck, Mark, Admit
<1>2. CASE \/ SendFails(w) \/ SteerNotTaken(w) \/ Accept(w) \/ AcceptFails(w)
           \/ PauseUnknown(w) \/ Release(w) \/ Fail(w) \/ GiveUp(w) \/ ReadPolicy(w)
           \/ ReconcilePolicy(w) \/ SweepInterrupts(w) \/ SweepClaims(w)
  BY <1>2 DEF SendFails, SteerNotTaken, Accept, AcceptFails, PauseUnknown, Release,
     Fail, GiveUp, ReadPolicy, ReconcilePolicy, SweepInterrupts, SweepClaims
<1> QED  BY <1>1, <1>2 DEF WorkerStep

LEMMA HandedBy ==
  ASSUME TypeInv, [Next]_vars, NEW i \in Ids, handed'[i] # handed[i]
  PROVE  \E w \in Workers : (HandOver(w) \/ SteerInjected(w)) /\ held[w] = i
<1>1. handed' # handed  OBVIOUS
<1>2. PICK w \in Workers : WorkerStep(w)
  BY <1>1 DEF Next, RuntimeStep, ConnStarts, ConnDies, LoopDequeue, TurnEnds, AdHocAdmit,
     AdHocSend, Crash, Expire, ClientStep, EditQueue, ResumeOrRetry, CancelPauses,
     CancelTurn, Send, SavePolicy, ApplyPolicy, ClientUnchanged, runtimeVars, vars
<1>3. HandOver(w) \/ SteerInjected(w)
  BY <1>1, <1>2, WorkersLeaveRuntimes DEF runtimeVars
<1>4. Hand(held[w])  BY <1>3 DEF HandOver, SteerInjected
<1> QED  BY <1>3, <1>4 DEF Hand, TypeInv, RuntimeTypeOK

\* A cancel is complete because it was, or because this step completes it; one
\* that is under way was begun by this step or before.
LEMMA HaltStep ==
  ASSUME TypeInv, [Next]_vars, NEW w \in Workers, halt'[w] # "no"
  PROVE  \/ halt'[w] = halt[w] /\ ~ResumeOrRetry
         \/ CancelTurn(w)
         \/ CancelPauses(w) /\ halt'[w] = "pausing"
<1>1. CASE halt' = halt
  <2>1. ResumeOrRetry => halt'[w] = "no"  BY DEF ResumeOrRetry
  <2> QED  BY <1>1, <2>1
<1>2. CASE halt' # halt
  <2>1. ~\E v \in Workers : WorkerStep(v)
    BY <1>2, WorkersLeaveRuntimes DEF runtimeVars, HandOver, SteerInjected
  <2>2. \/ \E v \in Workers : ConnDies(v) \/ Crash(v) \/ CancelPauses(v) \/ CancelTurn(v)
        \/ ResumeOrRetry
    BY <1>2, <2>1 DEF Next, RuntimeStep, ConnStarts, LoopDequeue, TurnEnds, AdHocAdmit,
       AdHocSend, Expire, ClientStep, EditQueue, Send, SavePolicy, ApplyPolicy, runtimeVars, vars
  <2>3. ~ResumeOrRetry  BY DEF ResumeOrRetry
  <2>4. PICK v \in Workers : ConnDies(v) \/ Crash(v) \/ CancelPauses(v) \/ CancelTurn(v)
    BY <2>2, <2>3
  <2>5. CASE v = w
    BY <2>4, <2>5 DEF ConnDies, Crash, CancelPauses, TypeInv, RuntimeTypeOK
  <2>6. CASE v # w
    BY <2>3, <2>4, <2>6 DEF ConnDies, Crash, CancelPauses, CancelTurn, TypeInv, RuntimeTypeOK
  <2> QED  BY <2>5, <2>6
<1> QED  BY <1>1, <1>2

\* A connection that waits for a prompt takes one from a worker or from outside.
LEMMA ConnStep ==
  ASSUME TypeInv, [Next]_vars, NEW w \in Workers,
         conn[w] \in {"none", "idle"}, conn'[w] \notin {"none", "idle"}
  PROVE  AdHocAdmit(w) \/ HandOver(w)
<1>1. conn' # conn  OBVIOUS
<1>2. CASE \E v \in Workers : WorkerStep(v)
  BY <1>1, <1>2, WorkersLeaveRuntimes DEF runtimeVars, HandOver, SteerInjected,
     TypeInv, RuntimeTypeOK
<1>3. CASE ~\E v \in Workers : WorkerStep(v)
  <2>1. PICK v \in Workers : RuntimeStep(v) \/ CancelTurn(v)
    BY <1>1, <1>3 DEF Next, Expire, ClientStep, EditQueue, ResumeOrRetry, CancelPauses,
       Send, SavePolicy, ApplyPolicy, ClientUnchanged, runtimeVars, vars
  <2>2. v = w
    BY <2>1 DEF RuntimeStep, ConnStarts, ConnDies, LoopDequeue, TurnEnds, AdHocAdmit,
       AdHocSend, Crash, CancelTurn, TypeInv, RuntimeTypeOK
  <2> QED
    BY <2>1, <2>2 DEF RuntimeStep, ConnStarts, ConnDies, LoopDequeue, TurnEnds,
       AdHocSend, Crash, CancelTurn, TypeInv, RuntimeTypeOK
<1> QED  BY <1>2, <1>3

-------------------------------------------------------------------------------
(* A cancel is final.                                                          *)

\* A pause is lifted by the user who resumes or retries, or by the interrupt
\* operation that owns it; the queue alone never has such an operation.
LEMMA PauseStep ==
  ASSUME TypeInv, [Next]_vars, pause.kind # "interrupt"
  PROVE  \/ pause' = pause
         \/ pause' \in {Pause("user", None), Pause("unknown", None), Pause("failed", None)}
         \/ pause' = NotPaused /\ ResumeOrRetry
<1> DEFINE Kept == pause' = pause
           Set  == pause' \in {Pause("user", None), Pause("unknown", None), Pause("failed", None)}
<1>1. ASSUME SweepTransaction  PROVE Kept \/ Set
  <2>1. \A e : pause # Pause("interrupt", e)  BY DEF Pause
  <2> QED
    BY <1>1, <2>1 DEF SweepTransaction, RecoverExpiredClaims, Reconcile, ObserveTerminal,
       ClearOwnedPause, RecoverInterrupts
<1>2. ASSUME NEW w \in Workers, NEW i \in Ids, RowTransaction(w, i)  PROVE Kept \/ Set
  BY <1>2 DEF RowTransaction, ClaimHead, MarkDispatchStarted, AcceptClaim,
     ReleaseClaimBusy, FailClaim, PauseDispatchUnknown
<1>3. ASSUME NEW w \in Workers, WorkerStep(w)  PROVE Kept \/ Set
  BY <1>1, <1>2, <1>3, WorkerTransaction DEF storeVars
<1>4. ASSUME NEW w \in Workers, RuntimeStep(w)  PROVE Kept
  BY <1>4 DEF RuntimeStep, ConnStarts, ConnDies, LoopDequeue, TurnEnds, AdHocAdmit,
     AdHocSend, Crash, storeVars
<1>5. ASSUME ClientStep, ~ResumeOrRetry  PROVE Kept \/ Set
  <2>1. CASE EditQueue \/ ApplyPolicy
    BY <2>1 DEF EditQueue, ApplyPolicy, Enqueue, Edit, Delete, Reorder, Refresh, Reconcile
  <2>2. CASE \E w \in Workers : CancelPauses(w) \/ CancelTurn(w)
    BY <2>2 DEF CancelPauses, CancelTurn, PauseQueueIfPending, storeVars
  <2>3. CASE \/ \E e \in Events, w \in Workers : Send(e, w)
             \/ \E b \in BOOLEAN : SavePolicy(b)
    BY <2>3 DEF Send, SendEvent, SavePolicy, UpsertPolicy
  <2> QED  BY <1>5, <2>1, <2>2, <2>3 DEF ClientStep
<1>6. ASSUME ResumeOrRetry  PROVE pause' = NotPaused
  BY <1>6 DEF ResumeOrRetry, ResumeQueue, RetryItem
<1>7. ASSUME UNCHANGED vars \/ \E i \in Ids : Expire(i)  PROVE Kept
  BY <1>7 DEF vars, storeVars, Expire
<1> HIDE DEF Kept, Set
<1>8. Kept \/ Set \/ (pause' = NotPaused /\ ResumeOrRetry)
  BY <1>3, <1>4, <1>5, <1>6, <1>7 DEF Next
<1> QED  BY <1>8 DEF Kept, Set

-------------------------------------------------------------------------------
(* How rows come and go.                                                       *)

\* A row appears when its subject is sent, or as the new identity of a retry.
LEMMA RowAppears ==
  ASSUME TypeInv, RowsHonest, Transaction, NEW i \in Ids,
         item[i].st = "absent", item'[i].st # "absent"
  PROVE  \/ i[2] = 0 /\ (Enqueue(i[1]) \/ \E b \in BOOLEAN : SendEvent(i[1], b))
         \/ \E j \in Ids : RetryItem(j) /\ i = <<j[1], gen[j[1]] + 1>>
<1> USE DEF TypeInv, StoreTypeOK
<1>1. item[i] \in Rows /\ ~item[i].started  BY DEF RowsHonest, RowHonest
<1>2. ASSUME UNCHANGED storeVars \/ Lapse  PROVE FALSE
  BY <1>2 DEF storeVars, Lapse
<1>3. ~SweepTransaction
  BY <1>1 DEF SweepTransaction, RecoverExpiredClaims, ExpiredClaims, Reconcile, Frozen,
     Freezable, ObserveTerminal, RecoverInterrupts
<1>4. ASSUME NEW w \in Workers, NEW k \in Ids, RowTransaction(w, k)  PROVE FALSE
  <2>1. CASE k = i
    BY <1>1, <1>4, <2>1 DEF RowTransaction, ClaimHead, NextToClaim, IsFirst, QueuedRows,
       MarkDispatchStarted, MayStart, AcceptClaim, ReleaseClaimBusy, MayFinish, FailClaim,
       PauseDispatchUnknown, Owns
  <2>2. CASE k # i
    BY <1>4, <2>2 DEF RowTransaction, ClaimHead, MarkDispatchStarted, AcceptClaim,
       ReleaseClaimBusy, FailClaim, PauseDispatchUnknown
  <2> QED  BY <2>1, <2>2
<1>5. ClientTransaction  BY <1>2, <1>3, <1>4 DEF Transaction
<1>6. ~UNCHANGED item  OBVIOUS
<1>7. ~Reorder
  <2>1. Reorder => item'[i] = item[i]  BY DEF Reorder, Ordinary, Live
  <2> QED  BY <2>1
<1>8. ~\E k \in Ids : Delete(k)  BY DEF Delete, AbsentRow, Row
<1>9. ASSUME NEW s \in Subjects, NEW st, NEW why, Append(<<s, 0>>, st, why)
      PROVE  i = <<s, 0>>
  BY <1>9 DEF Append
<1>10. CASE \E m \in Msgs : Enqueue(m)
  BY <1>9, <1>10 DEF Enqueue, Subjects
<1>11. CASE \E e \in Events, b \in BOOLEAN : SendEvent(e, b)
  <2>1. PICK e \in Events, b \in BOOLEAN : SendEvent(e, b)  BY <1>11
  <2>2. i = <<e, 0>>  BY <1>9, <2>1 DEF SendEvent, Subjects
  <2> QED  BY <2>1, <2>2
<1>12. CASE \E k \in Ids : RetryItem(k)
  <2>1. PICK k \in Ids : RetryItem(k)  BY <1>12
  <2>2. item'[i] = item[i] \/ item'[i] = AbsentRow \/ i = <<k[1], gen[k[1]] + 1>>
    BY <2>1 DEF RetryItem
  <2> QED  BY <2>1, <2>2 DEF AbsentRow, Row
<1>13. ~(\/ \E k \in Ids : Edit(k)
         \/ PauseQueueIfPending \/ ResumeQueue \/ Refresh
         \/ \E b \in BOOLEAN : UpsertPolicy(b))
  BY <1>6 DEF Edit, PauseQueueIfPending, ResumeQueue, Refresh, UpsertPolicy
<1> HIDE DEF TypeInv, StoreTypeOK
<1> QED
  BY <1>5, <1>7, <1>8, <1>10, <1>11, <1>12, <1>13 DEF ClientTransaction

\* A row disappears when its worker accepts it, its user deletes it, or a retry
\* renames it.
LEMMA RowLeaves ==
  ASSUME TypeInv, Transaction, NEW i \in Ids,
         item[i].st # "absent", item'[i].st = "absent"
  PROVE  \/ \E w \in Workers : pc[w] = "accept" /\ held[w] = i /\ AcceptClaim(w, i)
         \/ Delete(i) \/ RetryItem(i)
<1>1. item[i] \in Rows /\ item \in [Ids -> Rows]  BY DEF TypeInv, StoreTypeOK
<1>2. ASSUME UNCHANGED storeVars \/ Lapse  PROVE FALSE
  BY <1>2 DEF storeVars, Lapse
<1>3. ~SweepTransaction
  <2>1. ~RecoverExpiredClaims
    <3>1. Parked(item[i], "unknown").st = "paused"  BY <1>1 DEF Parked, Rows
    <3>2. RecoverExpiredClaims
            => \/ item'[i] = item[i] \/ item'[i] = Parked(item[i], "unknown")
               \/ item'[i] = Row("queued", item[i].pos, item[i].why)
      BY DEF RecoverExpiredClaims
    <3> QED  BY <3>1, <3>2 DEF Row
  <2>2. ~\E b \in BOOLEAN : Reconcile(b)
    BY <1>1 DEF Reconcile, Row
  <2>3. ~(ObserveTerminal \/ \E stale \in SUBSET Events : RecoverInterrupts(stale))
    BY DEF ObserveTerminal, RecoverInterrupts
  <2> QED  BY <2>1, <2>2, <2>3 DEF SweepTransaction
<1>4. ASSUME NEW w \in Workers, NEW k \in Ids, RowTransaction(w, k)
      PROVE  pc[w] = "accept" /\ held[w] = i /\ AcceptClaim(w, i)
  <2>1. CASE k = i
    <3>1. ~ClaimHead(w, i) /\ ~MarkDispatchStarted(w, i)
      <4> DEFINE claimed == [item[i] EXCEPT !.st = "claimed", !.owner = w,
                                            !.started = FALSE, !.expired = FALSE]
                 marked  == [item[i] EXCEPT !.started = TRUE]
      <4>1. claimed.st = "claimed" /\ marked.st = item[i].st  BY <1>1 DEF Rows
      <4> HIDE DEF claimed, marked
      <4>2. ClaimHead(w, i) => item'[i] = claimed  BY <1>1 DEF ClaimHead, claimed
      <4>3. MarkDispatchStarted(w, i) => item'[i] = marked
        BY <1>1 DEF MarkDispatchStarted, marked
      <4> QED  BY <4>1, <4>2, <4>3
    <3>2. ~ReleaseClaimBusy(w, i)  BY <1>1 DEF ReleaseClaimBusy, Row
    <3>3. ~FailClaim(w, i) /\ ~PauseDispatchUnknown(i)
      <4>1. \A why : Parked(item[i], why).st = "paused"  BY <1>1 DEF Parked, Rows
      <4> QED  BY <1>1, <4>1 DEF FailClaim, PauseDispatchUnknown
    <3> QED  BY <1>4, <2>1, <3>1, <3>2, <3>3 DEF RowTransaction
  <2>2. CASE k # i
    BY <1>1, <1>4, <2>2 DEF RowTransaction, ClaimHead, MarkDispatchStarted, AcceptClaim,
       ReleaseClaimBusy, FailClaim, PauseDispatchUnknown
  <2> QED  BY <2>1, <2>2
<1>5. CASE ClientTransaction
  <2>1. ~UNCHANGED item  OBVIOUS
  <2>2. ~Reorder  BY <1>1 DEF Reorder, Rows
  <2>3. ~\E m \in Msgs : Enqueue(m)  BY <1>1 DEF Enqueue, Append, Row
  <2>4. ~\E e \in Events, b \in BOOLEAN : SendEvent(e, b)  BY <1>1 DEF SendEvent, Append, Row
  <2>5. ASSUME NEW k \in Ids, Delete(k) \/ RetryItem(k)  PROVE k = i
    BY <1>1, <2>5 DEF Delete, RetryItem, Row
  <2> QED
    BY <1>5, <2>1, <2>2, <2>3, <2>4, <2>5
    DEF ClientTransaction, Edit, PauseQueueIfPending, ResumeQueue, Refresh, UpsertPolicy
<1> QED  BY <1>2, <1>3, <1>4, <1>5 DEF Transaction

\* The id of a prompt that is out of the table for good is not given out again.
LEMMA SpentStaysAbsent ==
  ASSUME ~LateResends, TypeInv, RowsHonest, Transaction, NEW i \in Ids,
         Spent(i), item[i].st = "absent"
  PROVE  item'[i].st = "absent"
<1> SUFFICES ASSUME item'[i].st # "absent"  PROVE FALSE  OBVIOUS
<1>1. i[1] \in Subjects /\ i[2] \in Nat /\ gen[i[1]] \in Nat
  BY DEF Ids, TypeInv, StoreTypeOK
<1>2. ~Enqueue(i[1]) /\ ~\E b \in BOOLEAN : SendEvent(i[1], b)
  BY DEF Enqueue, SendEvent, Spent
<1>3. ASSUME NEW j \in Ids, i = <<j[1], gen[j[1]] + 1>>  PROVE FALSE
  BY <1>1, <1>3 DEF Spent
<1> QED  BY <1>2, <1>3, RowAppears

\* Worker w may still put its prompt on the channel of its connection.
OnItsWay(w) == /\ bound[w]
               /\ At(w, "admitted") \/ (At(w, "send") /\ conn[w] \notin {"none", "idle"})

\* While a cancel is under way or complete the queue is paused, for another
\* reason than an interrupt; once it is complete, only a prompt that is out of
\* the table may be on its way.
CancelInv ==
  /\ pause.kind # "interrupt"
  /\ \A w \in Workers : halt[w] # "no" => pause # NotPaused
  /\ \A w \in Workers : halt[w] = "halted" /\ OnItsWay(w) => item[held[w]].st = "absent"

LEMMA OnItsWayStep ==
  ASSUME ~LateResends, IInv, CancelInv, [Next]_vars, NEW w \in Workers,
         halt'[w] = "halted", OnItsWay(w)'
  PROVE  item'[held'[w]].st = "absent"
<1> USE DEF IInv
<1>0. Beyond(w)'  BY DEF OnItsWay, At, Beyond
<1>1. /\ held'[w] = held[w] /\ held[w] \in Ids /\ ~Crash(w)
      /\ Beyond(w) \/ MarkDispatchStarted(w, held[w])
  BY <1>0, BeyondStep
<1>2. ~CancelTurn(w)
  BY DEF CancelTurn, PromptLockFree, OnItsWay, At, workerVars, TypeInv, RuntimeTypeOK
<1>3. halt[w] = "halted"  BY <1>2, HaltStep
<1>4. pause # NotPaused  BY <1>3 DEF CancelInv
<1>5. Beyond(w)  BY <1>1, <1>4 DEF MarkDispatchStarted, MayStart
<1>6. bound[w]
  <2>1. bound'[w] /\ pc'[w] \in {"send", "admitted"}  BY DEF OnItsWay, At
  <2>2. ~ConnDies(w)  BY <2>1 DEF ConnDies, TypeInv, WorkerTypeOK
  <2>3. ASSUME LoopDequeue(w)  PROVE bound[w]  BY <2>1, <2>3 DEF LoopDequeue
  <2>4. ASSUME WorkerStep(w)  PROVE bound[w]
    <3>1. \/ Admit(w) \/ HandOver(w) \/ SendFails(w) \/ SteerInjected(w) \/ SteerNotTaken(w)
          \/ GiveUp(w)
      BY <1>5, <2>4 DEF Beyond, WorkerStep, Observe, TellInterrupt, ObserveBusy, Claim,
         ClaimOrphaned, ClaimNothing, FreezeCheck, PolicyUnreadable, Recheck, Mark, Accept,
         AcceptFails, PauseUnknown, Release, Fail, ReadPolicy, ReconcilePolicy,
         SweepInterrupts, SweepClaims, Step, At
    <3> QED
      BY <1>5, <2>1, <3>1 DEF Admit, HandOver, SendFails, SteerInjected, SteerNotTaken,
         GiveUp, Beyond, Step
  <2> QED  BY <1>1, <2>1, <2>2, <2>3, <2>4, MovesAlone
<1>7. item[held[w]].st = "absent"
  <2>1. CASE OnItsWay(w)
    BY <1>3, <2>1 DEF CancelInv
  <2>2. CASE ~OnItsWay(w)
    <3>1. pc[w] = "send" /\ conn[w] \in {"none", "idle"}
      BY <1>5, <1>6, <2>2 DEF OnItsWay, At, Beyond
    <3>2. Live = {}
      <4>1. CASE pc'[w] = "admitted"
        BY <1>4, <3>1, <4>1, AdmittedByCheck DEF SendIsAdmitted
      <4>2. CASE pc'[w] # "admitted"
        <5>1. conn'[w] \notin {"none", "idle"}  BY <4>2 DEF OnItsWay, At
        <5>2. ~HandOver(w)  BY <3>1 DEF HandOver, At
        <5>3. AdHocAdmit(w)  BY <3>1, <5>1, <5>2, ConnStep
        <5> QED  BY <1>4, <5>3 DEF AdHocAdmit, SendIsAdmitted
      <4> QED  BY <4>1, <4>2
    <3> QED  BY <1>1, <3>2 DEF Live
  <2> QED  BY <2>1, <2>2
<1> QED
  BY <1>1, <1>5, <1>7, StepIsTransaction, SpentStaysAbsent DEF HoldsOffer

LEMMA CancelStep ==
  ASSUME ~LateResends, IInv, CancelInv, [Next]_vars
  PROVE  CancelInv'
<1> USE DEF CancelInv
<1>0. TypeInv  BY DEF IInv
<1>1. \/ pause' = pause
      \/ pause' \in {Pause("user", None), Pause("unknown", None), Pause("failed", None)}
      \/ pause' = NotPaused /\ ResumeOrRetry
  BY <1>0, PauseStep
<1>2. pause'.kind # "interrupt"  BY <1>1 DEF Pause, NotPaused
<1>3. ASSUME NEW w \in Workers, halt'[w] # "no"  PROVE pause' # NotPaused
  <2>1. ~ResumeOrRetry  BY <1>3 DEF ResumeOrRetry
  <2>2. pause' = pause \/ pause' # NotPaused
    BY <1>1, <2>1 DEF Pause, NotPaused
  <2>3. halt[w] # "no" \/ CancelPauses(w)  BY <1>0, <1>3, HaltStep DEF CancelTurn
  <2>4. CancelPauses(w) => pause' # NotPaused
    BY DEF CancelPauses, PauseQueueIfPending, Pause, NotPaused
  <2> QED  BY <2>2, <2>3, <2>4
<1>4. ASSUME NEW w \in Workers, halt'[w] = "halted", OnItsWay(w)'
      PROVE  item'[held'[w]].st = "absent"
  BY <1>4, OnItsWayStep
<1> QED  BY <1>2, <1>3, <1>4

\* After a user's cancel has paused the queue and stopped the turn, nothing of
\* what is left in the queue is handed over until the user resumes or retries.
THEOREM CancelHolds ==
  ASSUME ~LateResends
  PROVE  Spec => CancelIsFinal
<1>1. Init => IInv /\ CancelInv
  <2>1. Init => IInv  BY InvInit
  <2>2. Init => CancelInv
    BY DEF Init, StoreInit, CancelInv, NotPaused, Pause
  <2> QED  BY <2>1, <2>2
<1>2. IInv /\ CancelInv /\ [Next]_vars => IInv' /\ CancelInv'
  BY InvStep, CancelStep
<1>3. IInv /\ CancelInv /\ [Next]_vars
        => [\A w \in Workers : halt[w] = "halted" /\ halt'[w] = "halted" /\ Hands(w)
              => item[held[w]].st = "absent"]_vars
  <2>1. ASSUME IInv, CancelInv, [Next]_vars, NEW w \in Workers,
               halt[w] = "halted", Hands(w)
        PROVE  item[held[w]].st = "absent"
    <3>1. Beyond(w) /\ held[w] \in Ids
      BY <2>1 DEF Hands, Beyond, IInv, TypeInv, WorkerTypeOK, CarriesId, Carrying
    <3>2. PICK v \in Workers : (HandOver(v) \/ SteerInjected(v)) /\ held[v] = held[w]
      BY <2>1, <3>1, HandedBy DEF IInv, Hands
    <3>3. Beyond(v)  BY <3>2 DEF HandOver, SteerInjected, At, Beyond
    <3>4. v = w  BY <2>1, <3>1, <3>2, <3>3 DEF IInv, OneOffer
    <3>5. OnItsWay(w)
      BY <3>2, <3>4 DEF HandOver, SteerInjected, OnItsWay
    <3> QED  BY <2>1, <3>5 DEF CancelInv
  <2> QED  BY <2>1
<1> QED  BY <1>1, <1>2, <1>3, PTL DEF Spec, CancelIsFinal

-------------------------------------------------------------------------------
(* One row per message, and deliveries in step with the rows.                  *)

\* Rows appear only for a subject that has none, or beside the one they replace.
LEMMA SingleRowStep ==
  ASSUME ~LateResends, TypeInv, RowsHonest, SingleRow, Transaction
  PROVE  SingleRow'
<1>1. ASSUME NEW i \in Ids, NEW j \in Ids, i[1] = j[1], i # j,
             item'[i].st # "absent", item'[j].st # "absent",
             item[i].st = "absent"
      PROVE  FALSE
  <2>1. CASE Enqueue(i[1]) \/ \E b \in BOOLEAN : SendEvent(i[1], b)
    <3>1. fate[i[1]] = "unsent"  BY <2>1 DEF Enqueue, SendEvent
    <3>2. item[j].st = "absent"  BY <1>1, <3>1 DEF RowsHonest, RowHonest
    <3>3. i[2] = 0 /\ j[2] = 0
      <4>1. i[1] \in Subjects /\ fate[j[1]] = "unsent"  BY <1>1, <3>1 DEF Ids
      <4>2. ~\E k \in Ids : RetryItem(k) /\ (i = <<k[1], gen[k[1]] + 1>> \/ j = <<k[1], gen[k[1]] + 1>>)
        <5>1. ASSUME NEW k \in Ids, RetryItem(k), k[1] = i[1]  PROVE FALSE
          BY <3>1, <5>1 DEF RetryItem, Retryable, RowsHonest, RowHonest
        <5> QED  BY <1>1, <5>1
      <4> QED  BY <1>1, <3>2, <4>2, RowAppears
    <3> QED  BY <1>1, <3>3 DEF Ids
  <2>2. ASSUME NEW k \in Ids, RetryItem(k), i = <<k[1], gen[k[1]] + 1>>  PROVE FALSE
    <3>1. item[k].st # "absent"  BY <2>2 DEF RetryItem, Retryable
    <3>2. j = k \/ item[j].st = "absent"  BY <1>1, <2>2, <3>1 DEF SingleRow, Live
    <3>3. item'[j] = item[j] \/ item'[j] = AbsentRow
      BY <1>1, <2>2 DEF RetryItem, TypeInv, StoreTypeOK
    <3>4. k # i => item'[k] = AbsentRow
      BY <1>1, <2>2 DEF RetryItem, TypeInv, StoreTypeOK
    <3>5. k # i  BY <1>1, <3>1
    <3> QED  BY <1>1, <3>2, <3>3, <3>4, <3>5 DEF AbsentRow, Row
  <2> QED  BY <1>1, <2>1, <2>2, RowAppears
<1>2. ASSUME NEW i \in Ids, NEW j \in Ids, i[1] = j[1], i # j,
             item'[i].st # "absent", item'[j].st # "absent"
      PROVE  FALSE
  <2>1. item[i].st # "absent" /\ item[j].st # "absent"  BY <1>1, <1>2
  <2> QED  BY <1>2, <2>1 DEF SingleRow, Live
<1> QED  BY <1>2 DEF SingleRow, Live

\* The delivery of e, seen from row i of e; and when e has no row.
InStep(i) == i[1] \in Events /\ item[i].st # "absent" => dlv[i[1]] \in DeliveryOf(i)
Settled(e) == (\A i \in Ids : i[1] = e => item[i].st = "absent")
                => dlv[e] \in {"none", "embedded"}

LEMMA InStepOpen ==
  DeliveryInStep <=> (\A i \in Ids : InStep(i)) /\ (\A e \in Events : Settled(e))
BY DEF DeliveryInStep, InStep, Settled, Live

\* A worker's transaction moves the delivery of its row, and no other.
LEMMA RowInStep ==
  ASSUME TypeInv, SingleRow, \A i \in Ids : InStep(i), RowsHonest,
         NEW w \in Workers, NEW k \in Ids, RowTransaction(w, k)
  PROVE  /\ k[1] \in Events =>
              IF item'[k].st = "absent" THEN dlv'[k[1]] = "embedded"
                                        ELSE dlv'[k[1]] \in DeliveryOf(k)'
         /\ \A i \in Ids : i # k /\ item[i].st # "absent" => i[1] # k[1]
         /\ \A i \in Ids : i # k => item'[i] = item[i]
         /\ \A e \in Events : e # k[1] => dlv'[e] = dlv[e]
         /\ item[k].st # "absent"
<1>1. item[k] \in Rows /\ item \in [Ids -> Rows] /\ dlv \in [Events -> DeliveryStates]
  BY DEF TypeInv, StoreTypeOK
<1>2. item[k].st # "absent" /\ \A i \in Ids \ {k} : item'[i] = item[i]
  <2>1. item[k].started => item[k].st # "absent"  BY DEF RowsHonest, RowHonest
  <2> QED
    BY <1>1, <2>1 DEF RowTransaction, ClaimHead, NextToClaim, IsFirst, QueuedRows, MarkDispatchStarted,
       MayStart, AcceptClaim, ReleaseClaimBusy, MayFinish, FailClaim, PauseDispatchUnknown, Owns
<1>3. \A i \in Ids : i # k /\ item[i].st # "absent" => i[1] # k[1]
  BY <1>2 DEF SingleRow, Live
<1>4. \A e \in Events : e # k[1] => dlv'[e] = dlv[e]
  BY DEF RowTransaction, ClaimHead, MarkDispatchStarted, AcceptClaim, ReleaseClaimBusy,
     FailClaim, PauseDispatchUnknown, DeliveriesFail, DeliveryFollows, Origins
<1>5. ASSUME k[1] \in Events
      PROVE  IF item'[k].st = "absent" THEN dlv'[k[1]] = "embedded"
                                       ELSE dlv'[k[1]] \in DeliveryOf(k)'
  <2>0. IsOrigin(k) /\ dlv[k[1]] \in DeliveryOf(k)
    BY <1>2, <1>5 DEF InStep, IsOrigin
  <2>1. CASE ClaimHead(w, k)
    <3>1. /\ item[k].st = "queued" /\ item'[k].st = "claimed" /\ ~item'[k].started
          /\ dlv' = dlv
      BY <1>1, <2>1 DEF ClaimHead, NextToClaim, IsFirst, QueuedRows, Rows
    <3> QED  BY <2>0, <3>1 DEF DeliveryOf
  <2>2. CASE MarkDispatchStarted(w, k)
    <3>1. item'[k].st = "claimed" /\ item'[k].started /\ dlv'[k[1]] = "embedding"
      BY <1>1, <1>5, <2>0, <2>2 DEF MarkDispatchStarted, MayStart, Owns, DeliveryFollows,
         Origins, Rows
    <3> QED  BY <3>1 DEF DeliveryOf
  <2>3. CASE AcceptClaim(w, k)
    BY <1>1, <1>5, <2>0, <2>3
    DEF AcceptClaim, MayFinish, DeliveryFollows, Origins, AbsentRow, Row
  <2>4. CASE ReleaseClaimBusy(w, k)
    <3>1. item'[k].st = "queued" /\ dlv'[k[1]] = "queued"
      BY <1>1, <1>5, <2>0, <2>4 DEF ReleaseClaimBusy, MayFinish, DeliveryFollows, Origins, Row
    <3> QED  BY <3>1 DEF DeliveryOf
  <2>5. CASE FailClaim(w, k) \/ PauseDispatchUnknown(k)
    <3>1. item'[k].st = "paused" /\ item'[k].why \in {"unknown", "failed"}
      <4>1. PICK why \in {"unknown", "failed"} : item'[k] = Parked(item[k], why)
        BY <1>1, <2>5 DEF FailClaim, PauseDispatchUnknown
      <4> QED  BY <1>1, <4>1 DEF Parked, Rows
    <3>2. dlv[k[1]] \in {"queued", "embedding", "failed"}
      BY <2>0 DEF DeliveryOf
    <3>3. dlv'[k[1]] = "failed"
      BY <1>5, <2>5, <3>2 DEF FailClaim, PauseDispatchUnknown, DeliveriesFail,
         DeliveryFollows, Origins
    <3> QED  BY <3>1, <3>3 DEF DeliveryOf
  <2> QED  BY <2>1, <2>2, <2>3, <2>4, <2>5 DEF RowTransaction
<1> QED  BY <1>2, <1>3, <1>4, <1>5

LEMMA WorkersInStep ==
  ASSUME TypeInv, SingleRow, DeliveryInStep, RowsHonest,
         NEW w \in Workers, NEW k \in Ids, RowTransaction(w, k)
  PROVE  DeliveryInStep'
<1>1. (\A i \in Ids : InStep(i)) /\ (\A e \in Events : Settled(e))
  BY InStepOpen
<1>2. /\ k[1] \in Events =>
           IF item'[k].st = "absent" THEN dlv'[k[1]] = "embedded"
                                     ELSE dlv'[k[1]] \in DeliveryOf(k)'
      /\ \A i \in Ids : i # k /\ item[i].st # "absent" => i[1] # k[1]
      /\ \A i \in Ids : i # k => item'[i] = item[i]
      /\ \A e \in Events : e # k[1] => dlv'[e] = dlv[e]
      /\ item[k].st # "absent"
  BY <1>1, RowInStep
<1>3. ASSUME NEW i \in Ids  PROVE InStep(i)'
  <2>1. CASE i = k
    BY <1>2, <2>1 DEF InStep
  <2>2. CASE i # k
    BY <1>1, <1>2, <2>2 DEF InStep, DeliveryOf
  <2> QED  BY <2>1, <2>2
<1>4. ASSUME NEW e \in Events  PROVE Settled(e)'
  <2>1. CASE e = k[1]
    BY <1>2, <2>1 DEF Settled
  <2>2. CASE e # k[1]
    BY <1>1, <1>2, <2>2 DEF Settled
  <2> QED  BY <2>1, <2>2
<1> QED  BY <1>3, <1>4 DEF DeliveryInStep, InStep, Settled, Live

LEMMA EventRowsKept ==
  ASSUME DeliveryInStep, UNCHANGED dlv,
         \A i \in Ids : i[1] \in Events => /\ item'[i].st = item[i].st
                                           /\ item'[i].why = item[i].why
                                           /\ item'[i].started = item[i].started
  PROVE  DeliveryInStep'
<1>1. \A i \in Ids : i[1] \in Events => DeliveryOf(i)' = DeliveryOf(i)
  BY DEF DeliveryOf
<1> QED  BY <1>1 DEF DeliveryInStep, Live

\* The sweeps move the deliveries of all the rows they park.
LEMMA SweepsInStep ==
  ASSUME TypeInv, SingleRow, DeliveryInStep, SweepTransaction
  PROVE  DeliveryInStep'
<1>0. /\ item \in [Ids -> Rows] /\ dlv \in [Events -> DeliveryStates]
      /\ \A i \in Ids : item[i] \in Rows
  BY DEF TypeInv, StoreTypeOK
<1>1. CASE ObserveTerminal \/ \E stale \in SUBSET Events : RecoverInterrupts(stale)
  BY <1>1, EventRowsKept DEF ObserveTerminal, RecoverInterrupts
<1>2. (\A i \in Ids : InStep(i)) /\ (\A e \in Events : Settled(e))
  BY InStepOpen
<1>3. ASSUME \A i \in Ids : item[i].st = "absent" <=> item'[i].st = "absent",
             \A i \in Ids : i[1] \in Events /\ item[i].st # "absent"
                              => dlv'[i[1]] \in DeliveryOf(i)',
             \A e \in Events : dlv[e] \in {"none", "embedded"} => dlv'[e] = dlv[e]
      PROVE  DeliveryInStep'
  <2>1. \A i \in Ids : InStep(i)'  BY <1>3 DEF InStep
  <2>2. \A e \in Events : Settled(e)'  BY <1>2, <1>3 DEF Settled
  <2> QED  BY <2>1, <2>2 DEF DeliveryInStep, InStep, Settled, Live
<1>4. CASE RecoverExpiredClaims
  <2> DEFINE uncertain == {i \in ExpiredClaims : item[i].started}
  <2>1. /\ item' = [i \in Ids |->
                      IF i \notin ExpiredClaims THEN item[i]
                      ELSE IF i \in uncertain THEN Parked(item[i], "unknown")
                      ELSE Row("queued", item[i].pos, item[i].why)]
        /\ DeliveriesFail(Origins(uncertain))
    BY <1>4 DEF RecoverExpiredClaims
  <2>2. \A e \in Events : dlv'[e] = IF e \in Origins(uncertain) /\ dlv[e] \in {"queued", "embedding"}
                                    THEN "failed" ELSE dlv[e]
    BY <2>1 DEF DeliveriesFail, DeliveryFollows
  <2>3. ASSUME NEW i \in Ids
        PROVE  /\ i \in uncertain => item'[i].st = "paused" /\ item'[i].why = "unknown"
               /\ i \in ExpiredClaims \ uncertain
                    => item'[i].st = "queued" /\ item[i].st = "claimed" /\ ~item[i].started
               /\ i \notin ExpiredClaims => item'[i] = item[i]
    <3>1. Parked(item[i], "unknown").st = "paused" /\ Parked(item[i], "unknown").why = "unknown"
      BY <1>0 DEF Parked, Rows
    <3> QED  BY <2>1, <3>1 DEF ExpiredClaims, Row
  <2>4. ASSUME NEW i \in Ids  PROVE item[i].st = "absent" <=> item'[i].st = "absent"
    BY <2>3 DEF ExpiredClaims
  <2>5. ASSUME NEW i \in Ids, i[1] \in Events, item[i].st # "absent"
        PROVE  dlv'[i[1]] \in DeliveryOf(i)'
    <3>0. dlv[i[1]] \in DeliveryOf(i)  BY <1>2, <2>5 DEF InStep
    <3>1. i[1] \in Origins(uncertain) <=> i \in uncertain
      BY <2>5 DEF Origins, SingleRow, Live, ExpiredClaims
    <3>2. CASE i \in uncertain
      <4>1. dlv[i[1]] = "embedding"  BY <3>0, <3>2 DEF DeliveryOf, ExpiredClaims
      <4>2. dlv'[i[1]] = "failed"  BY <2>2, <2>5, <3>1, <3>2, <4>1
      <4> QED  BY <2>3, <3>2, <4>2 DEF DeliveryOf
    <3>3. CASE i \notin uncertain
      <4>1. dlv'[i[1]] = dlv[i[1]]  BY <2>2, <2>5, <3>1, <3>3
      <4>2. CASE i \in ExpiredClaims
        <5>1. dlv[i[1]] = "queued"  BY <2>3, <3>0, <3>3, <4>2 DEF DeliveryOf
        <5> QED  BY <2>3, <3>3, <4>1, <4>2, <5>1 DEF DeliveryOf
      <4>3. CASE i \notin ExpiredClaims
        BY <2>3, <3>0, <4>1, <4>3 DEF DeliveryOf
      <4> QED  BY <4>2, <4>3
    <3> QED  BY <3>2, <3>3
  <2> QED  BY <1>3, <2>2, <2>4, <2>5
<1>5. ASSUME NEW b \in BOOLEAN, Reconcile(b)  PROVE DeliveryInStep'
  <2> DEFINE S == IF b THEN Frozen ELSE Freezable
  <2>1. ASSUME NEW i \in Ids
        PROVE  IF i \in S THEN item'[i] = Row("queued", item[i].pos, "none")
                               \/ item'[i] = Row("paused", item[i].pos, "policy")
                          ELSE item'[i] = item[i]
    BY <1>5 DEF Reconcile
  <2>2. dlv' = dlv  BY <1>5 DEF Reconcile
  <2>3. ASSUME NEW i \in Ids, i \in S  PROVE item[i].st # "absent" /\ DeliveryOf(i) = {"queued"}
    BY <2>3 DEF Frozen, Freezable, DeliveryOf
  <2>4. ASSUME NEW i \in Ids, i \in S  PROVE item'[i].st # "absent" /\ DeliveryOf(i)' = {"queued"}
    <3> HIDE DEF S
    <3>0. item'[i] = Row("queued", item[i].pos, "none")
            \/ item'[i] = Row("paused", item[i].pos, "policy")
      BY <2>1, <2>4
    <3>1. /\ item'[i].st \in {"queued", "paused"}
          /\ item'[i].st # "claimed" /\ item'[i].why \notin {"unknown", "failed"}
      BY <3>0 DEF Row
    <3> QED  BY <3>1 DEF DeliveryOf
  <2>5. ASSUME NEW i \in Ids  PROVE item[i].st = "absent" <=> item'[i].st = "absent"
    BY <2>1, <2>3, <2>4
  <2>6. ASSUME NEW i \in Ids, i[1] \in Events, item[i].st # "absent"
        PROVE  dlv'[i[1]] \in DeliveryOf(i)'
    <3>1. dlv[i[1]] \in DeliveryOf(i)  BY <1>2, <2>6 DEF InStep
    <3>2. CASE i \in S
      BY <2>2, <2>3, <2>4, <3>1, <3>2
    <3>3. CASE i \notin S
      BY <2>1, <2>2, <3>1, <3>3 DEF DeliveryOf
    <3> QED  BY <3>2, <3>3
  <2> QED  BY <1>3, <2>2, <2>5, <2>6
<1> QED  BY <1>1, <1>4, <1>5 DEF SweepTransaction

LEMMA ClientsInStep ==
  ASSUME ~LateResends, TypeInv, SingleRow, SingleRow', RowsHonest, DeliveryInStep,
         ClientTransaction
  PROVE  DeliveryInStep'
<1>0. item \in [Ids -> Rows] /\ dlv \in [Events -> DeliveryStates]
  BY DEF TypeInv, StoreTypeOK
<1>1. (\A i \in Ids : InStep(i)) /\ (\A e \in Events : Settled(e))
  BY InStepOpen
<1>2. CASE \/ \E i \in Ids : Edit(i)
           \/ PauseQueueIfPending \/ ResumeQueue \/ Refresh
           \/ \E b \in BOOLEAN : UpsertPolicy(b)
  BY <1>2, EventRowsKept DEF Edit, PauseQueueIfPending, ResumeQueue, Refresh, UpsertPolicy
<1>3. CASE Reorder
  <2>1. \A i \in Ids : i[1] \in Events => item'[i] = item[i]
    BY <1>3, SubjectsAssumption DEF Reorder, Ordinary
  <2> QED  BY <1>3, <2>1, EventRowsKept DEF Reorder
<1>4. ASSUME NEW m \in Msgs, Enqueue(m)  PROVE DeliveryInStep'
  <2>1. \A i \in Ids : i[1] \in Events => item'[i] = item[i]
    BY <1>0, <1>4, SubjectsAssumption DEF Enqueue, Append
  <2> QED  BY <1>4, <2>1, EventRowsKept DEF Enqueue
<1>5. ASSUME NEW k \in Ids, Delete(k)  PROVE DeliveryInStep'
  <2>1. \A i \in Ids : i[1] \in Events => item'[i] = item[i]
    BY <1>0, <1>5, SubjectsAssumption DEF Delete, Ordinary, Live
  <2> QED  BY <1>5, <2>1, EventRowsKept DEF Delete
\* A row of e is queued after the step, with its delivery, and no other changes.
<1>6. ASSUME NEW k \in Ids, item'[k].st # "absent",
             k[1] \in Events => dlv'[k[1]] \in DeliveryOf(k)',
             \A i \in Ids : i[1] # k[1] => item'[i] = item[i],
             \A e \in Events : e # k[1] => dlv'[e] = dlv[e]
      PROVE  DeliveryInStep'
  <2>1. ASSUME NEW i \in Ids  PROVE InStep(i)'
    <3>1. CASE i = k
      BY <1>6, <3>1 DEF InStep
    <3>2. CASE i # k /\ i[1] = k[1]
      BY <1>6, <3>2 DEF SingleRow, Live, InStep
    <3>3. CASE i[1] # k[1]
      BY <1>1, <1>6, <3>3 DEF InStep, DeliveryOf
    <3> QED  BY <3>1, <3>2, <3>3
  <2>2. ASSUME NEW e \in Events  PROVE Settled(e)'
    BY <1>1, <1>6 DEF Settled
  <2> QED  BY <2>1, <2>2 DEF DeliveryInStep, InStep, Settled, Live
<1>7. ASSUME NEW e \in Events, NEW b \in BOOLEAN, SendEvent(e, b)  PROVE DeliveryInStep'
  <2> DEFINE k == <<e, 0>>
  <2>1. k \in Ids  BY BoundsAssumption DEF Ids, Subjects
  <2>2. PICK st \in {"queued", "paused"}, why \in {"none", "inactive"}, p \in Positions :
          item' = [item EXCEPT ![k] = Row(st, p, why)]
    BY <1>7 DEF SendEvent, Append
  <2>3. item'[k].st = st /\ item'[k].why = why /\ ~item'[k].started
    BY <1>0, <2>1, <2>2 DEF Row
  <2>4. dlv'[e] = "queued" /\ \A d \in Events : d # e => dlv'[d] = dlv[d]
    BY <1>0, <1>7 DEF SendEvent
  <2>5. dlv'[e] \in DeliveryOf(k)'
    <3>1. item'[k].st # "claimed" /\ item'[k].why \notin {"unknown", "failed"}
      BY <2>3
    <3>2. \A i \in Ids : item'[i].st # "claimed" /\ item'[i].why \notin {"unknown", "failed"}
                           => "queued" \in DeliveryOf(i)'
      BY DEF DeliveryOf
    <3> QED  BY <2>1, <2>4, <3>1, <3>2
  <2>6. \A i \in Ids : i[1] # e => item'[i] = item[i]  BY <1>0, <2>1, <2>2
  <2> QED  BY <1>6, <2>1, <2>2, <2>3, <2>4, <2>5, <2>6
<1>8. ASSUME NEW j \in Ids, RetryItem(j)  PROVE DeliveryInStep'
  <2> DEFINE s == j[1]
  <2>1. PICK k \in Ids : k = <<s, gen[s] + 1>>
    <3>1. s \in Subjects /\ gen[s] \in 0..MaxGen /\ gen[s] < MaxGen
      BY <1>8 DEF RetryItem, Retryable, Ids, TypeInv, StoreTypeOK
    <3>2. gen[s] + 1 \in 0..MaxGen  BY <3>1, BoundsAssumption
    <3>3. <<s, gen[s] + 1>> \in Ids  BY <3>1, <3>2 DEF Ids
    <3> QED  BY <3>3
  <2>2. /\ item' = [item EXCEPT ![j] = AbsentRow, ![k] = Row("queued", item[j].pos, "none")]
        /\ DeliveryFollows({s}, {"failed"}, "queued")
        /\ s \in Events => dlv[s] \in {"failed", "queued"}
    BY <1>8, <2>1 DEF RetryItem, Retryable, IsOrigin
  <2>3. item'[k].st = "queued" /\ ~item'[k].started  BY <1>0, <2>1, <2>2 DEF Row
  <2>4. /\ s \in Events => dlv'[s] = "queued"
        /\ \A d \in Events : d # s => dlv'[d] = dlv[d]
    BY <2>2 DEF DeliveryFollows
  <2>5. s \in Events => dlv'[s] \in DeliveryOf(k)'
    <3>1. \A i \in Ids : item'[i].st = "queued" => "queued" \in DeliveryOf(i)'
      BY DEF DeliveryOf
    <3> QED  BY <2>1, <2>3, <2>4, <3>1
  <2>6. \A i \in Ids : i[1] # s => item'[i] = item[i]
    BY <1>0, <2>1, <2>2
  <2>7. item'[k].st # "absent"  BY <2>3
  <2>8. k[1] = s  BY <2>1
  <2> QED  BY <1>6, <2>1, <2>4, <2>5, <2>6, <2>7, <2>8
<1> QED
  BY <1>2, <1>3, <1>4, <1>5, <1>7, <1>8 DEF ClientTransaction

LEMMA DeliveryStep ==
  ASSUME ~LateResends, TypeInv, SingleRow, SingleRow', RowsHonest, DeliveryInStep, Transaction
  PROVE  DeliveryInStep'
<1>1. CASE UNCHANGED storeVars
  BY <1>1, EventRowsKept DEF storeVars
<1>2. CASE Lapse
  BY <1>2, EventRowsKept DEF Lapse
<1> QED  BY <1>1, <1>2, WorkersInStep, SweepsInStep, ClientsInStep DEF Transaction

RowInv == IInv /\ SingleRow /\ DeliveryInStep

LEMMA RowInvInit == Init => RowInv
<1>1. Init => IInv  BY InvInit
<1>2. Init => SingleRow /\ DeliveryInStep
  BY DEF Init, StoreInit, SingleRow, DeliveryInStep, Live, AbsentRow, Row
<1> QED  BY <1>1, <1>2 DEF RowInv

LEMMA RowInvStep ==
  ASSUME ~LateResends
  PROVE  RowInv /\ [Next]_vars => RowInv'
<1> SUFFICES ASSUME RowInv, [Next]_vars  PROVE RowInv'  OBVIOUS
<1>1. IInv'  BY InvStep DEF RowInv
<1>2. TypeInv /\ RowsHonest /\ Transaction  BY StepIsTransaction DEF RowInv, IInv
<1>3. SingleRow'  BY <1>2, SingleRowStep DEF RowInv
<1>4. DeliveryInStep'  BY <1>2, <1>3, DeliveryStep DEF RowInv
<1> QED  BY <1>1, <1>3, <1>4 DEF RowInv

\* Renaming by a retry, a repeated enqueue and recovery never leave two rows of
\* one message in the queue.
THEOREM OneRowPerMessage ==
  ASSUME ~LateResends
  PROVE  Spec => []SingleRow
<1>1. Init => RowInv  BY RowInvInit
<1>2. RowInv /\ [Next]_vars => RowInv'  BY RowInvStep
<1>3. RowInv => SingleRow  BY DEF RowInv
<1> QED  BY <1>1, <1>2, <1>3, PTL DEF Spec

\* The sender's view of a collaboration message follows its row: whoever parks,
\* releases, accepts or retries the row moves the delivery with it.
THEOREM DeliveryFollowsRow ==
  ASSUME ~LateResends
  PROVE  Spec => []DeliveryInStep
<1>1. Init => RowInv  BY RowInvInit
<1>2. RowInv /\ [Next]_vars => RowInv'  BY RowInvStep
<1>3. RowInv => DeliveryInStep  BY DEF RowInv
<1> QED  BY <1>1, <1>2, <1>3, PTL DEF Spec

-------------------------------------------------------------------------------
(* What becomes of a prompt.                                                   *)

\* What the transport or a channel was given stays given.
LEMMA HistoryGrows ==
  ASSUME TypeInv, [Next]_vars
  PROVE  /\ \A i \in Ids : handed[i] > 0 => handed'[i] > 0
         /\ onWire \subseteq onWire'
<1>1. ASSUME NEW i \in Ids, handed[i] > 0  PROVE handed'[i] > 0
  <2>1. CASE handed'[i] = handed[i]
    BY <1>1, <2>1
  <2>2. CASE handed'[i] # handed[i]
    <3>1. Hand(i)  BY <2>2, HandedBy DEF HandOver, SteerInjected
    <3> QED  BY <1>1, <3>1 DEF Hand, TypeInv, RuntimeTypeOK
  <2> QED  BY <2>1, <2>2
<1>2. ASSUME NEW w \in Workers, WorkerStep(w)  PROVE onWire \subseteq onWire'
  BY <1>2, WorkersLeaveRuntimes DEF runtimeVars, HandOver, SteerInjected
<1>3. CASE ~\E w \in Workers : WorkerStep(w)
  BY <1>3 DEF Next, RuntimeStep, ConnStarts, ConnDies, LoopDequeue, TurnEnds, AdHocAdmit,
     AdHocSend, Crash, Expire, ClientStep, EditQueue, ResumeOrRetry, CancelPauses,
     CancelTurn, Send, SavePolicy, ApplyPolicy, ClientUnchanged, runtimeVars, vars
<1> QED  BY <1>1, <1>2, <1>3

\* A worker waits for a confirmation, or accepts, only what it handed over; it
\* accepts a collaboration prompt only when the transport took it.
HandedFirst(w) == pc[w] \in {"ack", "accept"} => handed[held[w]] > 0
OnWireFirst(w) == pc[w] = "accept" /\ IsOrigin(held[w]) => held[w] \in onWire

LEMMA ToAccept ==
  ASSUME TypeInv, NEW w \in Workers, WorkerStep(w), pc'[w] \in {"ack", "accept"}
  PROVE  HandOver(w) \/ SteerInjected(w)
<1>1. ASSUME NEW l \in Steps \ {"ack", "accept"}, Goto(w, l)  PROVE FALSE
  BY <1>1 DEF Goto, TypeInv, WorkerTypeOK
<1>2. ~Done(w)  BY <1>1 DEF Done, Steps
<1>3. ~(\/ Observe(w) \/ TellInterrupt(w) \/ ObserveBusy(w) \/ Claim(w) \/ FreezeCheck(w)
        \/ Recheck(w) \/ Mark(w) \/ Admit(w) \/ SendFails(w) \/ SteerNotTaken(w)
        \/ AcceptFails(w) \/ ReadPolicy(w) \/ SweepInterrupts(w))
  <2>1. ASSUME \/ Observe(w) \/ TellInterrupt(w) \/ ObserveBusy(w) \/ Claim(w) \/ FreezeCheck(w)
               \/ Recheck(w) \/ Mark(w) \/ Admit(w) \/ SendFails(w) \/ SteerNotTaken(w)
               \/ AcceptFails(w) \/ ReadPolicy(w) \/ SweepInterrupts(w)
        PROVE  \E l \in Steps \ {"ack", "accept"} : Goto(w, l)
    BY <2>1 DEF Observe, TellInterrupt, ObserveBusy, Claim, FreezeCheck, Recheck, Mark, Admit,
       SendFails, SteerNotTaken, AcceptFails, ReadPolicy, SweepInterrupts, Step, Steps
  <2> QED  BY <1>1, <2>1
<1>4. ~(Accept(w) \/ ReconcilePolicy(w))
  BY <1>1, <1>2 DEF Accept, ReconcilePolicy, Steps
<1> QED
  BY <1>2, <1>3, <1>4 DEF WorkerStep, ClaimOrphaned, ClaimNothing, PolicyUnreadable,
     PauseUnknown, Release, Fail, GiveUp, SweepClaims

LEMMA HandedFirstStep ==
  ASSUME TypeInv, [Next]_vars, NEW w \in Workers, HandedFirst(w), OnWireFirst(w)
  PROVE  HandedFirst(w)' /\ OnWireFirst(w)'
<1> SUFFICES ASSUME pc'[w] \in {"ack", "accept"}
             PROVE  /\ handed'[held'[w]] > 0
                    /\ pc'[w] = "accept" /\ IsOrigin(held[w])' => held'[w] \in onWire'
  BY DEF HandedFirst, OnWireFirst
<1>1. /\ \A i \in Ids : handed[i] > 0 => handed'[i] > 0
      /\ onWire \subseteq onWire'
  BY HistoryGrows
<1>2. CASE WorkerStep(w)
  <2>1. HandOver(w) \/ SteerInjected(w)  BY <1>2, ToAccept
  <2>2. held[w] \in Ids /\ held' = held
    BY <2>1 DEF HandOver, SteerInjected, At, Carrying, TypeInv, WorkerTypeOK, CarriesId
  <2>3. handed'[held[w]] > 0
    BY <2>1, <2>2 DEF HandOver, SteerInjected, Hand, TypeInv, RuntimeTypeOK
  <2>4. pc'[w] = "accept" /\ IsOrigin(held[w]) => held[w] \in onWire'
    BY <2>1 DEF HandOver, SteerInjected, Goto, TypeInv, WorkerTypeOK
  <2> QED  BY <2>2, <2>3, <2>4 DEF IsOrigin
<1>3. CASE ConnDies(w) \/ LoopDequeue(w)
  <2>1. held' = held /\ pc[w] \in {"ack", "accept"} /\ held[w] \in Ids
    BY <1>3 DEF ConnDies, LoopDequeue, TypeInv, WorkerTypeOK, CarriesId, Carrying
  <2>2. pc'[w] = "accept" => pc[w] = "accept" \/ held[w] \in onWire'
    BY <1>3 DEF ConnDies, LoopDequeue, At, TypeInv, WorkerTypeOK
  <2>3. handed[held[w]] > 0  BY <2>1 DEF HandedFirst
  <2>4. handed'[held'[w]] > 0  BY <1>1, <2>1, <2>3
  <2>5. pc[w] = "accept" /\ IsOrigin(held[w]) => held[w] \in onWire'
    BY <1>1 DEF OnWireFirst
  <2>6. IsOrigin(held[w])' = IsOrigin(held[w])  BY <2>1 DEF IsOrigin
  <2> QED  BY <2>1, <2>2, <2>4, <2>5, <2>6
<1>4. ~Crash(w)  BY DEF Crash, Done, Goto, TypeInv, WorkerTypeOK
<1>5. CASE pc'[w] = pc[w] /\ held'[w] = held[w]
  <2>1. held[w] \in Ids  BY <1>5 DEF TypeInv, WorkerTypeOK, CarriesId, Carrying
  <2> QED  BY <1>1, <1>5, <2>1 DEF HandedFirst, OnWireFirst, IsOrigin
<1> QED  BY <1>2, <1>3, <1>4, <1>5, MovesAlone

\* The sender is told "embedded" by the acceptance of a row of the event.
LEMMA OnlyAcceptEmbeds ==
  ASSUME StoreTypeOK, Transaction, NEW e \in Events,
         dlv'[e] = "embedded", dlv[e] # "embedded"
  PROVE  \E w \in Workers, i \in Ids :
           pc[w] = "accept" /\ held[w] = i /\ AcceptClaim(w, i) /\ i[1] = e
<1>1. ASSUME NEW S, NEW from, NEW to, DeliveryFollows(S, from, to)
      PROVE  to = "embedded" /\ e \in S
  BY <1>1 DEF DeliveryFollows
<1>2. ~UNCHANGED dlv  OBVIOUS
<1>3. ASSUME NEW w \in Workers, NEW i \in Ids, RowTransaction(w, i)
      PROVE  pc[w] = "accept" /\ held[w] = i /\ AcceptClaim(w, i) /\ i[1] = e
  <2>1. ~ClaimHead(w, i)  BY <1>2 DEF ClaimHead
  <2>2. ~MarkDispatchStarted(w, i) /\ ~ReleaseClaimBusy(w, i)
    BY <1>1 DEF MarkDispatchStarted, ReleaseClaimBusy
  <2>3. ~FailClaim(w, i) /\ ~PauseDispatchUnknown(i)
    BY <1>1 DEF FailClaim, PauseDispatchUnknown, DeliveriesFail
  <2>4. AcceptClaim(w, i) => i[1] = e  BY <1>1 DEF AcceptClaim, Origins
  <2> QED  BY <1>3, <2>1, <2>2, <2>3, <2>4 DEF RowTransaction
<1>4. ~(UNCHANGED storeVars \/ Lapse)  BY <1>2 DEF storeVars, Lapse
<1>5. ~SweepTransaction
  BY <1>1, <1>2 DEF SweepTransaction, RecoverExpiredClaims, Reconcile, ObserveTerminal,
     RecoverInterrupts, DeliveriesFail
<1>6. ~ClientTransaction
  <2>1. ~\E d \in Events, b \in BOOLEAN : SendEvent(d, b)
    BY DEF SendEvent, StoreTypeOK
  <2>2. ~\E i \in Ids : RetryItem(i)
    <3>1. ASSUME NEW S, NEW from, DeliveryFollows(S, from, "queued")  PROVE FALSE
      BY <1>1, <3>1
    <3> QED  BY <3>1 DEF RetryItem
  <2> QED
    BY <1>2, <2>1, <2>2 DEF ClientTransaction, Enqueue, Edit, Delete, Reorder,
       PauseQueueIfPending, ResumeQueue, Refresh, UpsertPolicy
<1> QED  BY <1>3, <1>4, <1>5, <1>6 DEF Transaction

\* A subject is submitted by the call that appends its first row.
LEMMA SubmittedBySend ==
  ASSUME StoreTypeOK, Transaction, NEW s \in Subjects,
         fate'[s] = "submitted", fate[s] # "submitted"
  PROVE  item'[<<s, 0>>].st # "absent"
<1>1. ~UNCHANGED fate  OBVIOUS
<1>2. ASSUME NEW w \in Workers, NEW i \in Ids, RowTransaction(w, i)  PROVE FALSE
  BY <1>1, <1>2 DEF RowTransaction, ClaimHead, MarkDispatchStarted, AcceptClaim,
     ReleaseClaimBusy, FailClaim, PauseDispatchUnknown
<1>3. ~(UNCHANGED storeVars \/ Lapse)  BY <1>1 DEF storeVars, Lapse
<1>4. ~SweepTransaction
  BY <1>1 DEF SweepTransaction, RecoverExpiredClaims, Reconcile, ObserveTerminal, RecoverInterrupts
<1>5. ClientTransaction  BY <1>2, <1>3, <1>4 DEF Transaction
<1>6. ~\E i \in Ids : Delete(i)  BY DEF Delete, StoreTypeOK
<1>7. ASSUME NEW t \in Subjects, NEW st \in {"queued", "paused"}, NEW why, Append(<<t, 0>>, st, why)
      PROVE  item'[<<s, 0>>].st # "absent"
  <2>1. t = s  BY <1>7 DEF Append, StoreTypeOK
  <2>2. <<s, 0>> \in Ids  BY BoundsAssumption DEF Ids
  <2> QED  BY <1>7, <2>1, <2>2 DEF Append, Row, StoreTypeOK
<1>8. CASE \/ \E m \in Msgs : Enqueue(m)
           \/ \E e \in Events, b \in BOOLEAN : SendEvent(e, b)
  <2>1. \E t \in Subjects, st \in {"queued", "paused"}, why \in Whys : Append(<<t, 0>>, st, why)
    BY <1>8 DEF Enqueue, SendEvent, Subjects, Whys
  <2> QED  BY <2>1, <1>7
<1> QED
  BY <1>1, <1>5, <1>6, <1>8 DEF ClientTransaction, Edit, RetryItem, Reorder,
     PauseQueueIfPending, ResumeQueue, Refresh, UpsertPolicy

\* A row disappears without a trace for no message that is still wanted.
LEMMA NoSilentLossStep ==
  ASSUME TypeInv, [Next]_vars, NoSilentLoss, \A w \in Workers : HandedFirst(w)
  PROVE  NoSilentLoss'
<1> SUFFICES ASSUME NEW s \in Subjects, fate'[s] = "submitted",
                    \A i \in Ids : i[1] = s => item'[i].st = "absent"
             PROVE  \E i \in Ids : i[1] = s /\ handed'[i] > 0
  BY DEF NoSilentLoss, Live
<1>1. Transaction /\ StoreTypeOK  BY StepIsTransaction DEF TypeInv
<1>2. \A i \in Ids : handed[i] > 0 => handed'[i] > 0  BY HistoryGrows
<1>3. fate[s] = "submitted"
  <2>1. <<s, 0>> \in Ids  BY BoundsAssumption DEF Ids
  <2>2. <<s, 0>>[1] = s  OBVIOUS
  <2>3. item'[<<s, 0>>].st = "absent"  BY <2>1, <2>2
  <2> QED  BY <1>1, <2>3, SubmittedBySend
<1>4. CASE \A i \in Ids : i[1] = s => item[i].st = "absent"
  <2>1. \E i \in Ids : i[1] = s /\ handed[i] > 0  BY <1>3, <1>4 DEF NoSilentLoss, Live
  <2> QED  BY <1>2, <2>1
<1>5. ASSUME NEW i \in Ids, i[1] = s, item[i].st # "absent"  PROVE handed[i] > 0
  <2>1. item'[i].st = "absent"  BY <1>5
  <2>2. ~Delete(i)  BY <1>1, <1>5 DEF Delete, StoreTypeOK
  <2>3. ASSUME RetryItem(i)  PROVE FALSE
    <3>1. gen[s] \in 0..MaxGen /\ gen[s] < MaxGen
      BY <1>1, <1>5, <2>3 DEF RetryItem, Retryable, StoreTypeOK
    <3>2. gen[s] + 1 \in 0..MaxGen  BY <3>1, BoundsAssumption
    <3>3. PICK k \in Ids : k = <<s, gen[s] + 1>>  BY <3>2 DEF Ids
    <3>4. item'[k] = Row("queued", item[i].pos, "none")
      BY <1>1, <1>5, <2>3, <3>3 DEF RetryItem, StoreTypeOK
    <3>5. item'[k].st = "queued" /\ k[1] = s  BY <3>3, <3>4 DEF Row
    <3> QED  BY <3>5
  <2>4. \E w \in Workers : pc[w] = "accept" /\ held[w] = i
    BY <1>1, <1>5, <2>1, <2>2, <2>3, RowLeaves
  <2> QED  BY <2>4 DEF HandedFirst
<1> QED  BY <1>2, <1>4, <1>5

TraceInv == /\ TypeInv
            /\ \A w \in Workers : HandedFirst(w) /\ OnWireFirst(w)
            /\ EmbeddedWasOnWire
            /\ NoSilentLoss

LEMMA TraceInit == Init => TraceInv
<1>1. Init => TypeInv  BY InitType
<1>2. Init => \A w \in Workers : HandedFirst(w) /\ OnWireFirst(w)
  BY DEF Init, HandedFirst, OnWireFirst
<1>3. Init => EmbeddedWasOnWire /\ NoSilentLoss
  BY DEF Init, StoreInit, EmbeddedWasOnWire, NoSilentLoss
<1> QED  BY <1>1, <1>2, <1>3 DEF TraceInv

LEMMA TraceStep == TraceInv /\ [Next]_vars => TraceInv'
<1> SUFFICES ASSUME TraceInv, [Next]_vars  PROVE TraceInv'  OBVIOUS
<1> USE DEF TraceInv
<1>1. TypeInv'  BY TypeStep
<1>2. \A w \in Workers : HandedFirst(w)' /\ OnWireFirst(w)'  BY HandedFirstStep
<1>3. NoSilentLoss'  BY NoSilentLossStep
<1>4. ASSUME NEW e \in Events, dlv'[e] = "embedded"
      PROVE  \E i \in onWire' : i[1] = e
  <2>1. onWire \subseteq onWire'  BY HistoryGrows
  <2>2. CASE dlv[e] = "embedded"
    BY <2>1, <2>2 DEF EmbeddedWasOnWire
  <2>3. CASE dlv[e] # "embedded"
    <3>1. PICK w \in Workers, i \in Ids : pc[w] = "accept" /\ held[w] = i /\ i[1] = e
      BY <1>4, <2>3, StepIsTransaction, OnlyAcceptEmbeds DEF TypeInv
    <3> QED  BY <2>1, <3>1 DEF OnWireFirst, IsOrigin
  <2> QED  BY <2>2, <2>3
<1> QED  BY <1>1, <1>2, <1>3, <1>4 DEF EmbeddedWasOnWire

\* The sender of a collaboration message is told "embedded" only for a prompt
\* that the Harness transport took, whatever acceptances are retried or lost.
THEOREM EmbeddedIsHonest == Spec => []EmbeddedWasOnWire
<1>1. TraceInv => EmbeddedWasOnWire  BY DEF TraceInv
<1> QED  BY <1>1, TraceInit, TraceStep, PTL DEF Spec

\* A message that was submitted and has no row was handed over, or its user
\* deleted it: neither recovery nor a crash nor a late resend loses one.
THEOREM NothingIsLost == Spec => []NoSilentLoss
<1>1. TraceInv => NoSilentLoss  BY DEF TraceInv
<1> QED  BY <1>1, TraceInit, TraceStep, PTL DEF Spec

-------------------------------------------------------------------------------
(* The text that is dispatched.                                                *)

Reading == BeforeMark \cup {"send", "admitted"}

\* From its claim to the hand-over, a worker that owns a follow-up carries the
\* text that is saved for it.
CarriesSaved(w) ==
  pc[w] \in Reading /\ Owns(w, held[w]) /\ held[w][1] \in Msgs
    => text[w] = draft[held[w][1]]

\* A worker comes to own a row by its claim only.
LEMMA OwnsByClaim ==
  ASSUME TypeInv, Transaction, NEW w \in Workers, NEW i \in Ids,
         Owns(w, i)', ~Owns(w, i)
  PROVE  pc[w] = "seen" /\ ClaimHead(w, i)
<1>0. item[i] \in Rows /\ item \in [Ids -> Rows]  BY DEF TypeInv, StoreTypeOK
<1>1. ASSUME UNCHANGED item \/ Lapse  PROVE FALSE
  BY <1>1, NullAssumption DEF Lapse, Owns
<1>2. ASSUME NEW v \in Workers, NEW k \in Ids, RowTransaction(v, k)
      PROVE  pc[w] = "seen" /\ ClaimHead(w, i)
  <2>1. k = i
    BY <1>0, <1>2 DEF RowTransaction, ClaimHead, MarkDispatchStarted, AcceptClaim,
       ReleaseClaimBusy, FailClaim, PauseDispatchUnknown, Owns
  <2>2. ~MarkDispatchStarted(v, i)
    BY <1>0 DEF MarkDispatchStarted, MayStart, Owns, Rows
  <2>3. ~AcceptClaim(v, i) /\ ~ReleaseClaimBusy(v, i)
    BY <1>0 DEF AcceptClaim, ReleaseClaimBusy, AbsentRow, Row, Owns
  <2>4. ~FailClaim(v, i) /\ ~PauseDispatchUnknown(i)
    <3>1. \A why : Parked(item[i], why).st = "paused"  BY <1>0 DEF Parked, Rows
    <3> QED  BY <1>0, <3>1 DEF FailClaim, PauseDispatchUnknown, Owns
  <2>5. pc[v] = "seen" /\ ClaimHead(v, i)
    BY <1>2, <2>1, <2>2, <2>3, <2>4 DEF RowTransaction
  <2>6. item'[i].owner = v  BY <1>0, <2>5 DEF ClaimHead, Rows
  <2> QED  BY <2>5, <2>6 DEF Owns
<1>3. ASSUME SweepTransaction  PROVE FALSE
  <2>1. item'[i] = item[i] \/ item'[i].st # "claimed"
    <3>1. CASE RecoverExpiredClaims
      BY <1>0, <3>1 DEF RecoverExpiredClaims, Parked, Row, Rows
    <3>2. CASE \E b \in BOOLEAN : Reconcile(b)
      BY <3>2 DEF Reconcile, Row
    <3>3. CASE ObserveTerminal \/ \E stale \in SUBSET Events : RecoverInterrupts(stale)
      BY <3>3 DEF ObserveTerminal, RecoverInterrupts
    <3> QED  BY <1>3, <3>1, <3>2, <3>3 DEF SweepTransaction
  <2> QED  BY <2>1 DEF Owns
<1>4. ASSUME ClientTransaction  PROVE FALSE
  <2>1. CASE \/ \E m \in Msgs : Enqueue(m)
             \/ \E e \in Events, b \in BOOLEAN : SendEvent(e, b)
    <3>1. PICK s \in Subjects, st \in {"queued", "paused"}, why \in Whys : Append(<<s, 0>>, st, why)
      BY <2>1 DEF Enqueue, SendEvent, Subjects, Whys
    <3>2. PICK p \in Positions : item' = [item EXCEPT ![<<s, 0>>] = Row(st, p, why)]
      BY <3>1 DEF Append
    <3>3. Row(st, p, why).st # "claimed"  BY <3>1 DEF Row
    <3> QED  BY <1>0, <3>2, <3>3 DEF Owns
  <2>2. CASE \E k \in Ids : Delete(k) \/ RetryItem(k)
    <3>1. item'[i] = item[i] \/ item'[i].st # "claimed"
      BY <1>0, <2>2 DEF Delete, RetryItem, AbsentRow, Row
    <3> QED  BY <3>1 DEF Owns
  <2>3. CASE Reorder
    BY <1>0, <2>3 DEF Reorder, Owns, Rows
  <2>4. ~UNCHANGED item  BY <1>1
  <2> QED
    BY <1>4, <2>1, <2>2, <2>3, <2>4
    DEF ClientTransaction, Edit, PauseQueueIfPending, ResumeQueue, Refresh, UpsertPolicy
<1> QED  BY <1>1, <1>2, <1>3, <1>4 DEF Transaction, storeVars

\* The saved text of a message changes by an edit of its row.
LEMMA DraftByEdit ==
  ASSUME StoreTypeOK, Transaction, NEW m \in Msgs, draft'[m] # draft[m]
  PROVE  \E k \in Ids : Edit(k) /\ k[1] = m
<1>1. ~UNCHANGED draft  OBVIOUS
<1>2. ASSUME NEW w \in Workers, NEW i \in Ids, RowTransaction(w, i)  PROVE FALSE
  BY <1>1, <1>2 DEF RowTransaction, ClaimHead, MarkDispatchStarted, AcceptClaim,
     ReleaseClaimBusy, FailClaim, PauseDispatchUnknown
<1>3. ~(UNCHANGED storeVars \/ Lapse)  BY <1>1 DEF storeVars, Lapse
<1>4. ~SweepTransaction
  BY <1>1 DEF SweepTransaction, RecoverExpiredClaims, Reconcile, ObserveTerminal, RecoverInterrupts
<1>5. ClientTransaction  BY <1>2, <1>3, <1>4 DEF Transaction
<1>6. PICK k \in Ids : Edit(k)
  BY <1>1, <1>5 DEF ClientTransaction, Enqueue, SendEvent, Append, Delete, RetryItem, Reorder,
     PauseQueueIfPending, ResumeQueue, Refresh, UpsertPolicy
<1> QED  BY <1>6 DEF Edit, StoreTypeOK

\* A worker that reads its prompt has just claimed it, or goes on reading it.
LEMMA ToReading ==
  ASSUME TypeInv, NEW w \in Workers, WorkerStep(w), pc'[w] \in Reading
  PROVE  Claim(w) \/ (pc[w] \in Reading /\ held'[w] = held[w] /\ text'[w] = text[w])
<1> USE DEF Reading, BeforeMark
<1>1. ASSUME NEW l \in Steps \ Reading, Goto(w, l)  PROVE FALSE
  BY <1>1 DEF Goto, TypeInv, WorkerTypeOK
<1>2. ~Done(w)  BY <1>1 DEF Done, Steps
<1>3. ~(\/ Observe(w) \/ TellInterrupt(w) \/ ObserveBusy(w) \/ HandOver(w) \/ SendFails(w)
        \/ SteerInjected(w) \/ SteerNotTaken(w) \/ AcceptFails(w) \/ ReadPolicy(w)
        \/ SweepInterrupts(w))
  <2>1. ASSUME \/ Observe(w) \/ TellInterrupt(w) \/ ObserveBusy(w) \/ HandOver(w)
               \/ SendFails(w) \/ SteerInjected(w) \/ SteerNotTaken(w) \/ AcceptFails(w)
               \/ ReadPolicy(w) \/ SweepInterrupts(w)
        PROVE  \E l \in Steps \ Reading : Goto(w, l)
    BY <2>1 DEF Observe, TellInterrupt, ObserveBusy, HandOver, SendFails, SteerInjected,
       SteerNotTaken, AcceptFails, ReadPolicy, SweepInterrupts, Step, Steps
  <2> QED  BY <1>1, <2>1
<1>4. ~(Accept(w) \/ ReconcilePolicy(w))
  BY <1>1, <1>2 DEF Accept, ReconcilePolicy, Steps
<1>5. CASE FreezeCheck(w) \/ Recheck(w) \/ Mark(w) \/ Admit(w)
  BY <1>5 DEF FreezeCheck, Recheck, Mark, Admit, At
<1> QED
  BY <1>2, <1>3, <1>4, <1>5 DEF WorkerStep, ClaimOrphaned, ClaimNothing, PolicyUnreadable,
     PauseUnknown, Release, Fail, GiveUp, SweepClaims

LEMMA CarriesSavedStep ==
  ASSUME TypeInv, SingleRow, [Next]_vars, NEW w \in Workers, CarriesSaved(w)
  PROVE  CarriesSaved(w)'
<1> DEFINE i == held'[w]
<1> SUFFICES ASSUME pc'[w] \in Reading, item'[i].st = "claimed", item'[i].owner = w, i[1] \in Msgs
             PROVE  text'[w] = draft'[i[1]]
  BY DEF CarriesSaved, Owns
<1>1. Transaction /\ StoreTypeOK  BY StepIsTransaction DEF TypeInv
<1>2. CASE Claim(w)
  <2>1. PICK k \in Ids : /\ ClaimHead(w, k)
                         /\ held' = [held EXCEPT ![w] = k]
                         /\ text' = [text EXCEPT ![w] = IF IsOrigin(k) THEN 0 ELSE draft[k[1]]]
    BY <1>2 DEF Claim
  <2>2. i = k /\ ~IsOrigin(k)
    BY <2>1, SubjectsAssumption DEF TypeInv, WorkerTypeOK, IsOrigin
  <2> QED  BY <2>1, <2>2 DEF TypeInv, WorkerTypeOK, ClaimHead
<1>3. CASE pc[w] \in Reading /\ held'[w] = held[w] /\ text'[w] = text[w]
  <2>1. PICK k \in Ids : k = held[w]
    BY <1>3 DEF Reading, BeforeMark, TypeInv, WorkerTypeOK, CarriesId, Carrying
  <2>2. Owns(w, k)
    <3>1. Owns(w, k)'  BY <1>3, <2>1 DEF Owns
    <3>2. pc[w] # "seen"  BY <1>3 DEF Reading, BeforeMark
    <3> QED  BY <1>1, <3>1, <3>2, OwnsByClaim
  <2>3. text[w] = draft[k[1]]  BY <1>3, <2>1, <2>2 DEF CarriesSaved
  <2>4. draft'[k[1]] = draft[k[1]]
    <3>1. ASSUME NEW j \in Ids, Edit(j), j[1] = k[1]  PROVE FALSE
      <4>1. j \in Live /\ item[j].st # "claimed"  BY <3>1 DEF Edit, Ordinary
      <4>2. k \in Live  BY <2>2 DEF Owns, Live
      <4> QED  BY <2>2, <3>1, <4>1, <4>2 DEF SingleRow, Owns
    <3> QED  BY <1>1, <1>3, <2>1, <3>1, DraftByEdit
  <2> QED  BY <1>3, <2>1, <2>3, <2>4
<1>4. CASE ConnDies(w) \/ LoopDequeue(w)
  <2>1. pc[w] \in Reading /\ held'[w] = held[w] /\ text'[w] = text[w]
    BY <1>4 DEF ConnDies, LoopDequeue, Reading, BeforeMark, TypeInv, WorkerTypeOK
  <2> QED  BY <1>3, <2>1
<1>5. ~Crash(w)  BY DEF Crash, Done, Goto, Reading, BeforeMark, TypeInv, WorkerTypeOK
<1>6. CASE pc'[w] = pc[w] /\ held'[w] = held[w] /\ text'[w] = text[w]
  BY <1>3, <1>6
<1> QED  BY <1>2, <1>3, <1>4, <1>5, <1>6, ToReading, MovesAlone

\* A prompt about to be dispatched carries the text its user saved last: no edit
\* slips in between the claim and the hand-over, even of a claim that was lost,
\* recovered, edited and claimed again.
THEOREM SavedTextIsDispatched ==
  ASSUME ~LateResends
  PROVE  Spec => []DispatchesSavedText
<1> DEFINE TextInv == RowInv /\ \A w \in Workers : CarriesSaved(w)
<1>1. Init => TextInv
  <2>1. Init => \A w \in Workers : CarriesSaved(w)
    BY DEF Init, CarriesSaved, Reading, BeforeMark
  <2> QED  BY <2>1, RowInvInit
<1>2. TextInv /\ [Next]_vars => TextInv'
  BY RowInvStep, CarriesSavedStep DEF RowInv, IInv
<1>3. TextInv => DispatchesSavedText
  BY DEF CarriesSaved, DispatchesSavedText, Beyond, Reading
<1> QED  BY <1>1, <1>2, <1>3, PTL DEF Spec

-------------------------------------------------------------------------------
(* PromptQueue implements DispatchLedger, for every value of the constants:    *)
(* seen through PlaceOf and OfferOf, every step of the workers, the runtimes,   *)
(* the sweeps and the clients is a move of the ledger, for every id at once.    *)

(* The mapping.                                                                *)

Places == {"out", "waiting", "boundary", "held", "gone"}
Given(i) == fate[i[1]] # "unsent" /\ i[2] <= gen[i[1]]

\* Where a row stands, case by case.
LEMMA PlaceIs ==
  ASSUME NEW i \in Ids, StoreTypeOK
  PROVE  /\ PlaceOf(i) \in Places
         /\ item[i].st = "paused" => PlaceOf(i) = "held"
         /\ item[i].st = "queued" => PlaceOf(i) = "waiting"
         /\ item[i].st = "claimed" /\ item[i].started => PlaceOf(i) = "boundary"
         /\ item[i].st = "claimed" /\ ~item[i].started => PlaceOf(i) = "waiting"
         /\ item[i].st = "absent" /\ Given(i) => PlaceOf(i) = "gone"
         /\ item[i].st = "absent" /\ ~Given(i) => PlaceOf(i) = "out"
<1>1. item[i] \in Rows  BY DEF StoreTypeOK
<1>2. item[i].st \in {"absent", "queued", "claimed", "paused"} /\ item[i].started \in BOOLEAN
  BY <1>1 DEF Rows
<1> QED  BY <1>2 DEF PlaceOf, Places, Given

LEMMA NextPlaceIs ==
  ASSUME NEW i \in Ids, StoreTypeOK'
  PROVE  /\ PlaceOf(i)' \in Places
         /\ item'[i].st = "paused" => PlaceOf(i)' = "held"
         /\ item'[i].st = "queued" => PlaceOf(i)' = "waiting"
         /\ item'[i].st = "claimed" /\ item'[i].started => PlaceOf(i)' = "boundary"
         /\ item'[i].st = "claimed" /\ ~item'[i].started => PlaceOf(i)' = "waiting"
         /\ item'[i].st = "absent" /\ Given(i)' => PlaceOf(i)' = "gone"
         /\ item'[i].st = "absent" /\ ~Given(i)' => PlaceOf(i)' = "out"
<1>1. item'[i] \in Rows  BY DEF StoreTypeOK
<1>2. item'[i].st \in {"absent", "queued", "claimed", "paused"} /\ item'[i].started \in BOOLEAN
  BY <1>1 DEF Rows
<1> QED  BY <1>2 DEF PlaceOf, Places, Given

LEMMA PlaceKept ==
  ASSUME NEW i \in Ids, StoreTypeOK, StoreTypeOK',
         item'[i].st = item[i].st, item'[i].started = item[i].started,
         item[i].st = "absent" => (Given(i)' <=> Given(i))
  PROVE  PlaceOf(i)' = PlaceOf(i)
<1>1. item[i] \in Rows  BY DEF StoreTypeOK
<1>2. item[i].st \in {"absent", "queued", "claimed", "paused"} /\ item[i].started \in BOOLEAN
  BY <1>1 DEF Rows
<1> QED  BY <1>2, PlaceIs, NextPlaceIs

\* An id that somebody hands over, or has, is spent; an offer is one of three.
LEMMA OfferIs ==
  ASSUME IInv, NEW i \in Ids
  PROVE  /\ OfferOf(i) \in {"none", "open", "used"}
         /\ OfferOf(i) # "none" => Spent(i)
         /\ handed[i] > 0 => OfferOf(i) = "used"
         /\ handed[i] = 0 => OfferOf(i) = IF Handing(i) THEN "open" ELSE "none"
         /\ OfferOf(i) = "open" <=> Handing(i)
<1>1. handed[i] \in 0..2  BY DEF IInv, TypeInv, RuntimeTypeOK
<1>2. Handing(i) => handed[i] = 0 /\ Spent(i)  BY DEF IInv, HoldsOffer, Handing
<1>3. handed[i] > 0 => Spent(i)  BY DEF IInv, HandedOnce
<1> QED  BY <1>1, <1>2, <1>3 DEF OfferOf

-------------------------------------------------------------------------------
(* Places: what a transaction does to an id.                                   *)

LedgerInv == RowInv /\ TraceInv

PlaceMove(i) ==
  \/ PlaceOf(i)' = PlaceOf(i)
  \/ PlaceOf(i) = "out" /\ PlaceOf(i)' \in {"waiting", "held"} /\ OfferOf(i) = "none"
  \/ PlaceOf(i) \in {"boundary", "held"} /\ PlaceOf(i)' = "waiting" /\ OfferOf(i) = "none"
  \/ PlaceOf(i) \in {"waiting", "boundary"} /\ PlaceOf(i)' = "held"
  \/ PlaceOf(i) = "boundary" /\ PlaceOf(i)' = "gone" /\ OfferOf(i) = "used"
  \/ PlaceOf(i) \in {"out", "waiting", "held"} /\ PlaceOf(i)' = "gone"
  \/ PlaceOf(i) = "waiting" /\ PlaceOf(i)' = "boundary"

\* A subject whose first row is appended had no id before: one comes in.
LEMMA AppendMoves ==
  ASSUME LedgerInv, StoreTypeOK', NEW s \in Subjects, fate[s] = "unsent",
         NEW st \in {"queued", "paused"}, NEW why \in Whys,
         Append(<<s, 0>>, st, why), UNCHANGED gen, NEW i \in Ids
  PROVE  PlaceMove(i)
<1> USE DEF LedgerInv, RowInv, IInv
<1>0. StoreTypeOK  BY DEF TypeInv
<1>1. PICK p \in Positions : item' = [item EXCEPT ![<<s, 0>>] = Row(st, p, why)]
  BY DEF Append
<1>2. fate' = [fate EXCEPT ![s] = "submitted"]  BY DEF Append
<1>3. CASE i[1] # s
  <2>1. i # <<s, 0>>  BY <1>3
  <2>2. item'[i] = item[i]  BY <1>0, <1>1, <2>1 DEF StoreTypeOK
  <2>3. fate'[i[1]] = fate[i[1]]  BY <1>0, <1>2, <1>3 DEF StoreTypeOK, Ids
  <2> QED  BY <1>0, <2>2, <2>3, PlaceKept DEF PlaceMove, Given
<1>4. CASE i[1] = s
  <2>1. item[i].st = "absent"  BY <1>4 DEF RowsHonest, RowHonest
  <2>2. PlaceOf(i) = "out"  BY <1>0, <1>4, <2>1, PlaceIs DEF Given
  <2>3. OfferOf(i) = "none"  BY <1>4, OfferIs DEF Spent
  <2>4. CASE i = <<s, 0>>
    <3>1. item'[i].st \in {"queued", "paused"}  BY <1>0, <1>1, <2>4 DEF StoreTypeOK, Row
    <3> QED  BY <2>2, <2>3, <3>1, NextPlaceIs DEF PlaceMove
  <2>5. CASE i # <<s, 0>>
    <3>1. item'[i].st = "absent"  BY <1>0, <1>1, <2>1, <2>5 DEF StoreTypeOK
    <3> QED  BY <2>2, <3>1, NextPlaceIs DEF PlaceMove
  <2> QED  BY <2>4, <2>5
<1> QED  BY <1>3, <1>4

\* A deleted row was not at the boundary.
LEMMA DeleteMoves ==
  ASSUME LedgerInv, StoreTypeOK', NEW j \in Ids, Delete(j), NEW i \in Ids
  PROVE  PlaceMove(i)
<1> USE DEF LedgerInv, RowInv, IInv
<1>0. StoreTypeOK /\ item[j] \in Rows  BY DEF TypeInv, StoreTypeOK
<1>1. /\ item[j].st \in {"queued", "paused"} /\ ~IsOrigin(j)
      /\ item' = [item EXCEPT ![j] = AbsentRow]
      /\ fate' = [fate EXCEPT ![j[1]] = "deleted"]
      /\ gen' = gen
  BY <1>0, SubjectsAssumption DEF Delete, Ordinary, Live, IsOrigin, Rows
<1>2. fate[j[1]] # "unsent" /\ j[2] <= gen[j[1]]
  <2>1. j[2] \in Nat /\ gen[j[1]] \in Nat  BY <1>0 DEF Ids, StoreTypeOK
  <2> QED  BY <1>1, <2>1 DEF RowsHonest, RowHonest
<1>3. fate'[i[1]] = "unsent" <=> fate[i[1]] = "unsent"
  BY <1>0, <1>1, <1>2 DEF StoreTypeOK, Ids
<1>4. CASE i = j
  <2>1. item'[i].st = "absent"  BY <1>0, <1>1, <1>4 DEF StoreTypeOK, AbsentRow, Row
  <2>2. Given(i)'  BY <1>1, <1>2, <1>3, <1>4 DEF Given
  <2>3. PlaceOf(i) \in {"waiting", "held"}  BY <1>0, <1>1, <1>4, PlaceIs
  <2> QED  BY <2>1, <2>2, <2>3, NextPlaceIs DEF PlaceMove
<1>5. CASE i # j
  <2>1. item'[i] = item[i]  BY <1>0, <1>1, <1>5 DEF StoreTypeOK
  <2> QED  BY <1>0, <1>1, <1>3, <2>1, PlaceKept DEF PlaceMove, Given
<1> QED  BY <1>4, <1>5

\* A retry drops the old identity and submits the next one, or requeues the same
\* one if it was never given to a dispatch.
LEMMA RetryMoves ==
  ASSUME LedgerInv, StoreTypeOK', NEW j \in Ids, RetryItem(j), NEW i \in Ids
  PROVE  PlaceMove(i)
<1> USE DEF LedgerInv, RowInv, IInv
<1> DEFINE s == j[1]
<1>0. /\ StoreTypeOK /\ s \in Subjects /\ gen[s] \in 0..MaxGen /\ gen[s] < MaxGen
      /\ item[j].st = "paused"
  BY DEF TypeInv, StoreTypeOK, RetryItem, Retryable, Ids
<1>1. PICK k \in Ids : k = <<s, gen[s] + 1>>
  <2>1. gen[s] + 1 \in 0..MaxGen  BY <1>0, BoundsAssumption
  <2> QED  BY <1>0, <2>1 DEF Ids
<1>2. /\ item' = [item EXCEPT ![j] = AbsentRow, ![k] = Row("queued", item[j].pos, "none")]
      /\ gen' = [gen EXCEPT ![s] = IF s \in Msgs THEN @ + 1 ELSE @]
      /\ fate' = fate
  BY <1>1 DEF RetryItem
<1>3. /\ item'[k].st = "queued"
      /\ j # k => item'[j].st = "absent"
      /\ \A h \in Ids : h # j /\ h # k => item'[h] = item[h]
  BY <1>0, <1>1, <1>2 DEF StoreTypeOK, AbsentRow, Row
<1>4. fate[s] # "unsent" /\ j[2] <= gen[s] + (IF IsOrigin(j) THEN 1 ELSE 0)
  BY <1>0 DEF RowsHonest, RowHonest
<1>5. /\ s \in Msgs => gen'[s] = gen[s] + 1
      /\ s \notin Msgs => gen'[s] = gen[s]
      /\ \A t \in Subjects : t # s => gen'[t] = gen[t]
  BY <1>0, <1>2 DEF StoreTypeOK
<1>6. j[2] \in Nat /\ i[2] \in Nat /\ k[2] = gen[s] + 1 /\ k[1] = s /\ gen[s] \in Nat
  BY <1>0, <1>1 DEF Ids
<1>7. OfferOf(k) = "none"  BY <1>6, OfferIs DEF Spent
<1>8. CASE i = k
  <2>1. CASE k = j
    BY <1>0, <1>3, <1>7, <1>8, <2>1, PlaceIs, NextPlaceIs DEF PlaceMove
  <2>2. CASE k # j
    <3>1. item[k].st = "absent"
      BY <1>0, <1>1, <1>6, <2>2 DEF SingleRow, Live
    <3>2. PlaceOf(k) = "out"  BY <1>0, <1>6, <3>1, PlaceIs DEF Given
    <3> QED  BY <1>3, <1>7, <1>8, <3>2, NextPlaceIs DEF PlaceMove
  <2> QED  BY <2>1, <2>2
<1>9. CASE i = j /\ i # k
  <2>1. j[2] # gen[s] + 1
    BY <1>1, <1>9 DEF Ids
  <2>2. j[2] <= gen[s]  BY <1>4, <1>6, <2>1 DEF IsOrigin
  <2>3. Given(j)'  BY <1>2, <1>4, <1>5, <1>6, <2>2 DEF Given
  <2> QED  BY <1>0, <1>3, <1>9, <2>3, PlaceIs, NextPlaceIs DEF PlaceMove
<1>10. CASE i # j /\ i # k
  <2>1. item'[i] = item[i]  BY <1>3, <1>10
  <2>2. Given(i)' <=> Given(i)
    <3>1. CASE i[1] # s
      BY <1>2, <1>5, <3>1 DEF Given, Ids
    <3>2. CASE i[1] = s
      <4>1. i[2] # gen[s] + 1  BY <1>1, <1>10, <3>2 DEF Ids
      <4> QED  BY <1>2, <1>5, <1>6, <3>2, <4>1 DEF Given
    <3> QED  BY <3>1, <3>2
  <2> QED  BY <1>0, <2>1, <2>2, PlaceKept DEF PlaceMove
<1> QED  BY <1>8, <1>9, <1>10

\* A worker's transaction moves its own row; a mark may skip identities of the
\* same message that nobody was given.
LEMMA RowMoves ==
  ASSUME LedgerInv, StoreTypeOK', NEW w \in Workers, NEW k \in Ids, RowTransaction(w, k),
         NEW i \in Ids
  PROVE  PlaceMove(i)
<1> USE DEF LedgerInv, RowInv, IInv
<1>0. /\ StoreTypeOK /\ item \in [Ids -> Rows]
      /\ item[k] \in Rows /\ item[k].st \in {"absent", "queued", "claimed", "paused"}
      /\ item[k].started \in BOOLEAN
  BY DEF TypeInv, StoreTypeOK, Rows
<1>1. /\ fate' = fate
      /\ \A h \in Ids : h # k => item'[h] = item[h]
  BY <1>0 DEF RowTransaction, ClaimHead, MarkDispatchStarted, AcceptClaim, ReleaseClaimBusy,
     FailClaim, PauseDispatchUnknown
<1>2. item[k].started => Given(k)
  BY <1>0 DEF RowsHonest, RowHonest, Given
<1>3. CASE MarkDispatchStarted(w, k)
  <2>1. /\ Owns(w, k) /\ Owns(w, k)' /\ item'[k].started
        /\ \A s \in Subjects : gen[s] <= gen'[s] /\ (s # k[1] => gen'[s] = gen[s])
    <3>1. Owns(w, k) /\ Owns(w, k)' /\ item'[k].started
      BY <1>0, <1>3, MarkHonest
    <3>2. \A s \in Subjects : gen[s] <= gen'[s]  BY <1>0, <1>3, MarkHonest
    <3>3. \A s \in Subjects : s # k[1] => gen'[s] = gen[s]
      BY <1>0, <1>3 DEF MarkDispatchStarted, StoreTypeOK
    <3> QED  BY <3>1, <3>2, <3>3
  <2>2. CASE i = k
    <3>1. ~item[k].started
      <4>1. pc[w] = "mark" /\ held[w] = k
        <5>1. ~ClaimHead(w, k)  BY <2>1 DEF ClaimHead, NextToClaim, IsFirst, QueuedRows, Owns
        <5>2. ~AcceptClaim(w, k) /\ ~ReleaseClaimBusy(w, k)
          BY <1>0, <2>1 DEF AcceptClaim, ReleaseClaimBusy, AbsentRow, Row
        <5>3. ~FailClaim(w, k) /\ ~PauseDispatchUnknown(k)
          <6>1. \A why : Parked(item[k], why).st = "paused"  BY <1>0 DEF Parked, Rows
          <6> QED  BY <1>0, <2>1, <6>1 DEF FailClaim, PauseDispatchUnknown, Owns
        <5> QED  BY <5>1, <5>2, <5>3 DEF RowTransaction
      <4> QED  BY <2>1, <4>1 DEF NotYetMarked, BeforeMark
    <3>2. PlaceOf(k) = "waiting"  BY <1>0, <2>1, <3>1, PlaceIs DEF Owns
    <3>3. PlaceOf(k)' = "boundary"  BY <2>1, NextPlaceIs DEF Owns
    <3> QED  BY <2>2, <3>2, <3>3 DEF PlaceMove
  <2>3. CASE i # k
    <3>1. item'[i] = item[i]  BY <1>1, <2>3
    <3>2. CASE item[i].st = "absent" /\ ~Given(i) /\ Given(i)'
      BY <1>0, <3>1, <3>2, PlaceIs, NextPlaceIs DEF PlaceMove
    <3>3. CASE Given(i) => Given(i)'
      BY <1>0, <3>1, <3>2, <3>3, PlaceKept DEF PlaceMove
    <3>4. Given(i) => Given(i)'
      <4>1. i[1] \in Subjects /\ i[2] \in Nat  BY DEF Ids
      <4>2. gen[i[1]] \in Nat /\ gen'[i[1]] \in Nat  BY <1>0, <4>1 DEF StoreTypeOK
      <4> QED  BY <1>1, <2>1, <4>1, <4>2 DEF Given
    <3> QED  BY <3>3, <3>4
  <2> QED  BY <2>2, <2>3
<1>4. CASE i # k /\ ~MarkDispatchStarted(w, k)
  <2>1. gen' = gen
    BY <1>4 DEF RowTransaction, ClaimHead, AcceptClaim, ReleaseClaimBusy, FailClaim,
       PauseDispatchUnknown
  <2> QED  BY <1>0, <1>1, <1>4, <2>1, PlaceKept DEF PlaceMove, Given
<1>5. CASE ClaimHead(w, k)
  <2>1. item[k].st = "queued" /\ item'[k].st = "claimed" /\ ~item'[k].started
    BY <1>0, <1>5, ClaimHonest
  <2>2. CASE i = k
    BY <1>0, <2>1, <2>2, PlaceIs, NextPlaceIs DEF PlaceMove
  <2> QED  BY <1>3, <1>4, <2>2
<1>6. CASE pc[w] = "accept" /\ held[w] = k /\ AcceptClaim(w, k)
  <2>1. item[k].st = "claimed" /\ item'[k].st = "absent" /\ gen' = gen
    BY <1>0, <1>6 DEF AcceptClaim, MayFinish, Owns, AbsentRow, Row
  <2>2. handed[k] > 0  BY <1>6 DEF TraceInv, HandedFirst
  <2>3. item[k].started /\ Given(k)  BY <2>1, <2>2 DEF HandedOnce, Spent, Given
  <2>4. Given(k)'  BY <1>1, <2>1, <2>3 DEF Given
  <2>5. OfferOf(k) = "used"  BY <2>2, OfferIs
  <2>6. CASE i = k
    BY <1>0, <2>1, <2>3, <2>4, <2>5, <2>6, PlaceIs, NextPlaceIs DEF PlaceMove
  <2> QED  BY <1>3, <1>4, <2>6
<1>7. CASE pc[w] = "release" /\ held[w] = k /\ ReleaseClaimBusy(w, k)
  <2>1. Owns(w, k) /\ item'[k].st = "queued"  BY <1>0, <1>7, ReleaseHonest
  <2>2. OfferOf(k) = "none"
    <3>1. handed[k] = 0  BY <1>7, <2>1 DEF NotYetMarked
    <3>2. ASSUME NEW v \in Workers, Beyond(v), held[v] = k  PROVE FALSE
      <4>1. v = w  BY <2>1, <3>2, NullAssumption DEF HoldsOffer, Owns
      <4> QED  BY <1>7, <3>2, <4>1 DEF Beyond
    <3> QED  BY <3>1, <3>2, OfferIs DEF Handing
  <2>3. PlaceOf(k) \in {"waiting", "boundary"}  BY <1>0, <2>1, PlaceIs DEF Owns
  <2>4. CASE i = k
    BY <2>1, <2>2, <2>3, <2>4, NextPlaceIs DEF PlaceMove
  <2> QED  BY <1>3, <1>4, <2>4
<1>8. CASE FailClaim(w, k) \/ PauseDispatchUnknown(k)
  <2>1. item'[k].st = "paused"
    <3>1. \A why : Parked(item[k], why).st = "paused"  BY <1>0 DEF Parked, Rows
    <3> QED  BY <1>0, <1>8, <3>1 DEF FailClaim, PauseDispatchUnknown
  <2>2. item[k].st \in {"claimed", "paused"}
    BY <1>8 DEF FailClaim, PauseDispatchUnknown, Owns, RowsHonest, RowHonest
  <2>3. PlaceOf(k) \in {"waiting", "boundary", "held"}  BY <1>0, <2>2, PlaceIs
  <2>4. CASE i = k
    BY <2>1, <2>3, <2>4, NextPlaceIs DEF PlaceMove
  <2> QED  BY <1>3, <1>4, <2>4
<1> QED  BY <1>3, <1>5, <1>6, <1>7, <1>8 DEF RowTransaction

\* The sweeps park marked rows and requeue unmarked ones, which nobody has and
\* nobody is handing over.
LEMMA SweepMoves ==
  ASSUME LedgerInv, StoreTypeOK', SweepTransaction, NEW i \in Ids
  PROVE  PlaceMove(i)
<1> USE DEF LedgerInv, RowInv, IInv
<1>0. /\ StoreTypeOK /\ item[i] \in Rows
      /\ item[i].st \in {"absent", "queued", "claimed", "paused"}
      /\ item[i].started \in BOOLEAN
  BY DEF TypeInv, StoreTypeOK, Rows
<1>1. gen' = gen /\ fate' = fate
  BY DEF SweepTransaction, RecoverExpiredClaims, Reconcile, ObserveTerminal, RecoverInterrupts
<1>2. CASE item'[i] = item[i]
  BY <1>0, <1>1, <1>2, PlaceKept DEF PlaceMove, Given
<1>3. CASE RecoverExpiredClaims /\ item'[i] # item[i]
  <2>1. /\ item[i].st = "claimed"
        /\ IF item[i].started THEN item'[i] = Parked(item[i], "unknown")
                              ELSE item'[i] = Row("queued", item[i].pos, item[i].why)
    BY <1>3 DEF RecoverExpiredClaims, ExpiredClaims
  <2>2. IF item[i].started THEN item'[i].st = "paused" ELSE item'[i].st = "queued"
    <3>1. Parked(item[i], "unknown").st = "paused"  BY <1>0 DEF Parked, Rows
    <3> QED  BY <2>1, <3>1 DEF Row
  <2> QED  BY <1>0, <2>1, <2>2, PlaceIs, NextPlaceIs DEF PlaceMove
<1>4. ASSUME NEW b \in BOOLEAN, Reconcile(b), item'[i] # item[i]  PROVE PlaceMove(i)
  <2>1. CASE b
    <3>1. item[i].st = "paused" /\ item[i].why = "policy" /\ item'[i].st = "queued"
      BY <1>4, <2>1 DEF Reconcile, Frozen, Row
    <3>2. OfferOf(i) = "none"
      BY <3>1, OfferIs DEF Spent, RowsHonest, RowHonest
    <3> QED  BY <1>0, <3>1, <3>2, PlaceIs, NextPlaceIs DEF PlaceMove
  <2>2. CASE ~b
    <3>1. /\ item[i].st = "queued" \/ (item[i].st = "claimed" /\ ~item[i].started)
          /\ item'[i].st = "paused"
      BY <1>4, <2>2 DEF Reconcile, Freezable, Row
    <3> QED  BY <1>0, <3>1, PlaceIs, NextPlaceIs DEF PlaceMove
  <2> QED  BY <2>1, <2>2
<1>5. CASE ObserveTerminal \/ \E stale \in SUBSET Events : RecoverInterrupts(stale)
  BY <1>2, <1>5 DEF ObserveTerminal, RecoverInterrupts
<1> QED  BY <1>2, <1>3, <1>4, <1>5 DEF SweepTransaction

LEMMA ClientMoves ==
  ASSUME ~LateResends, LedgerInv, StoreTypeOK', ClientTransaction, NEW i \in Ids
  PROVE  PlaceMove(i)
<1>0. StoreTypeOK /\ item[i] \in Rows  BY DEF LedgerInv, RowInv, IInv, TypeInv, StoreTypeOK
<1>1. ASSUME UNCHANGED <<gen, fate>>, item'[i].st = item[i].st, item'[i].started = item[i].started
      PROVE  PlaceMove(i)
  BY <1>0, <1>1, PlaceKept DEF PlaceMove, Given
<1>2. CASE \E m \in Msgs : Enqueue(m)
  BY <1>2, AppendMoves DEF Enqueue, Subjects, Whys
<1>3. CASE \E e \in Events, b \in BOOLEAN : SendEvent(e, b)
  BY <1>3, AppendMoves DEF SendEvent, Subjects, Whys
<1>4. CASE \E j \in Ids : Delete(j) \/ RetryItem(j)
  BY <1>4, DeleteMoves, RetryMoves
<1>5. CASE Reorder
  <2>1. item'[i].st = item[i].st /\ item'[i].started = item[i].started
    BY <1>0, <1>5 DEF Reorder, Rows
  <2> QED  BY <1>1, <1>5, <2>1 DEF Reorder
<1>6. CASE \/ \E j \in Ids : Edit(j)
           \/ PauseQueueIfPending \/ ResumeQueue \/ Refresh
           \/ \E b \in BOOLEAN : UpsertPolicy(b)
  BY <1>1, <1>6 DEF Edit, PauseQueueIfPending, ResumeQueue, Refresh, UpsertPolicy
<1> QED  BY <1>2, <1>3, <1>4, <1>5, <1>6 DEF ClientTransaction

LEMMA PlaceStep ==
  ASSUME ~LateResends, LedgerInv, TypeInv', Transaction, NEW i \in Ids
  PROVE  PlaceMove(i)
<1>0. StoreTypeOK /\ StoreTypeOK'  BY DEF LedgerInv, RowInv, IInv, TypeInv
<1>1. CASE UNCHANGED storeVars \/ Lapse
  BY <1>0, <1>1, PlaceKept DEF storeVars, Lapse, PlaceMove, Given
<1> QED
  BY <1>0, <1>1, ClientMoves, SweepMoves, RowMoves DEF Transaction

-------------------------------------------------------------------------------
(* Offers: who may put a prompt on a channel.                                  *)

\* A row is marked by the worker that owns it, which goes on to send it.
LEMMA MarkedByWorker ==
  ASSUME ~LateResends, IInv, [Next]_vars, NEW i \in Ids,
         item'[i].started, ~item[i].started
  PROVE  \E w \in Workers : /\ held[w] = i /\ pc[w] = "mark" /\ MarkDispatchStarted(w, i)
                            /\ Goto(w, "send") /\ UNCHANGED <<held, handed>>
<1> USE DEF IInv
<1>0. StoreTypeOK /\ item[i] \in Rows  BY DEF TypeInv, StoreTypeOK
<1>1. ~Quiet  BY DEF Quiet, QuietRow
<1>2. ~UNCHANGED storeVars /\ ~Lapse  BY DEF storeVars, Lapse
<1>3. ~SweepTransaction  BY <1>0, <1>1, WorkerQuiet DEF SweepTransaction
<1>4. ~ClientTransaction  BY <1>0, <1>1, ClientQuiet DEF ClientTransaction
<1>5. ASSUME NEW w \in Workers, NEW k \in Ids, RowTransaction(w, k)
      PROVE  held[w] = i /\ pc[w] = "mark" /\ MarkDispatchStarted(w, i)
  <2>1. ~(AcceptClaim(w, k) \/ FailClaim(w, k) \/ PauseDispatchUnknown(k))
    BY <1>0, <1>1, WorkerQuiet
  <2>2. ~ClaimHead(w, k)
    BY <1>0, ClaimHonest
  <2>3. ~ReleaseClaimBusy(w, k)
    BY <1>0, ReleaseHonest
  <2>4. held[w] = k /\ pc[w] = "mark" /\ MarkDispatchStarted(w, k)
    BY <1>5, <2>1, <2>2, <2>3 DEF RowTransaction
  <2>5. k = i  BY <1>0, <2>4, MarkHonest
  <2> QED  BY <2>4, <2>5
<1>6. ASSUME NEW w \in Workers, WorkerStep(w)
      PROVE  /\ held[w] = i /\ pc[w] = "mark" /\ MarkDispatchStarted(w, i)
             /\ Goto(w, "send") /\ UNCHANGED <<held, handed>>
  <2>1. held[w] = i /\ pc[w] = "mark" /\ MarkDispatchStarted(w, i)
    BY <1>2, <1>3, <1>5, <1>6, WorkerTransaction
  <2>2. Mark(w)
    BY <1>6, <2>1 DEF WorkerStep, Observe, TellInterrupt, ObserveBusy, Claim, ClaimOrphaned,
       ClaimNothing, FreezeCheck, PolicyUnreadable, Recheck, Admit, HandOver, SendFails,
       SteerInjected, SteerNotTaken, Accept, AcceptFails, PauseUnknown, Release, Fail, GiveUp,
       ReadPolicy, ReconcilePolicy, SweepInterrupts, SweepClaims, Step, At
  <2> QED  BY <1>2, <2>1, <2>2 DEF Mark, runtimeVars
<1>7. \E w \in Workers : WorkerStep(w)
  <2>1. ASSUME NEW w \in Workers, RuntimeStep(w)  PROVE UNCHANGED storeVars \/ Lapse
    BY <2>1, LapseStep DEF RuntimeStep, ConnStarts, ConnDies, LoopDequeue, TurnEnds,
       AdHocAdmit, AdHocSend
  <2>2. (\E j \in Ids : Expire(j)) => Lapse  BY LapseStep
  <2>3. ClientStep => ClientTransaction \/ SweepTransaction \/ UNCHANGED storeVars
    <3>1. ASSUME NEW e \in Events, NEW w \in Workers, Send(e, w)
          PROVE  \E b \in BOOLEAN : SendEvent(e, b)
      BY <3>1 DEF Send, SessionRuntimeActive, StatusConnected
    <3>2. ASSUME EditQueue \/ ResumeOrRetry \/ \E w \in Workers : CancelPauses(w) \/ CancelTurn(w)
          PROVE  ClientTransaction \/ UNCHANGED storeVars
      BY <3>2 DEF EditQueue, ResumeOrRetry, CancelPauses, CancelTurn, ClientTransaction
    <3>3. ASSUME (\E b \in BOOLEAN : SavePolicy(b)) \/ ApplyPolicy
          PROVE  (\E b \in BOOLEAN : UpsertPolicy(b)) \/ (\E b \in BOOLEAN : Reconcile(b))
      BY <3>3 DEF SavePolicy, ApplyPolicy
    <3> QED  BY <3>1, <3>2, <3>3 DEF ClientStep, ClientTransaction, SweepTransaction
  <2>4. ~UNCHANGED vars  BY <1>2 DEF vars
  <2> QED  BY <1>2, <1>3, <1>4, <2>1, <2>2, <2>3, <2>4 DEF Next
<1> QED  BY <1>6, <1>7

\* An offer is opened by a mark, and used or withdrawn while its row stays where
\* it is.
LEMMA OfferStep ==
  ASSUME ~LateResends, IInv, IInv', [Next]_vars, NEW i \in Ids, OfferOf(i)' # OfferOf(i)
  PROVE  \/ /\ OfferOf(i) = "none" /\ OfferOf(i)' = "open"
            /\ \E w \in Workers : pc[w] = "mark" /\ held[w] = i /\ MarkDispatchStarted(w, i)
         \/ /\ OfferOf(i) = "open" /\ OfferOf(i)' \in {"used", "none"}
            /\ PlaceOf(i)' = PlaceOf(i)
<1> USE DEF IInv
<1>0. /\ StoreTypeOK /\ StoreTypeOK' /\ TypeInv /\ TypeInv'
      /\ handed[i] \in 0..2 /\ handed'[i] \in 0..2
  BY DEF TypeInv, RuntimeTypeOK
<1>1. ASSUME UNCHANGED storeVars \/ Lapse  PROVE PlaceOf(i)' = PlaceOf(i)
  BY <1>0, <1>1, PlaceKept DEF storeVars, Lapse, Given
<1>2. CASE handed'[i] # handed[i]
  <2>1. PICK w \in Workers : (HandOver(w) \/ SteerInjected(w)) /\ held[w] = i
    BY <1>0, <1>2, HandedBy
  <2>2. Handing(i)  BY <2>1 DEF HandOver, SteerInjected, At, Beyond, Handing
  <2>3. UNCHANGED storeVars  BY <2>1 DEF HandOver, SteerInjected
  <2>4. handed'[i] > 0
    BY <1>0, <2>1 DEF HandOver, SteerInjected, Hand, TypeInv, RuntimeTypeOK
  <2>5. OfferOf(i) = "open"  BY <2>2, OfferIs
  <2>6. OfferOf(i)' = "used"  BY <2>4 DEF OfferOf
  <2> QED  BY <1>1, <2>3, <2>5, <2>6
<1>3. CASE handed'[i] = handed[i]
  <2>1. handed[i] = 0 /\ ~(Handing(i)' <=> Handing(i))
    BY <1>0, <1>3 DEF OfferOf
  <2>2. CASE Handing(i)' /\ ~Handing(i)
    <3>1. PICK w \in Workers : Beyond(w)' /\ held'[w] = i  BY <2>2 DEF Handing
    <3>2. held[w] = i /\ pc[w] = "mark" /\ MarkDispatchStarted(w, i)
      BY <1>0, <2>2, <3>1, BeyondStep DEF Handing
    <3> QED  BY <1>3, <2>1, <2>2, <3>2 DEF OfferOf
  <2>3. CASE Handing(i) /\ ~Handing(i)'
    <3>1. PICK w \in Workers : Beyond(w) /\ held[w] = i  BY <2>3 DEF Handing
    <3>2. ~(Beyond(w)' /\ held'[w] = i)  BY <2>3 DEF Handing
    <3>3. ~(ConnDies(w) \/ LoopDequeue(w))
      BY <1>0, <3>1, <3>2 DEF ConnDies, LoopDequeue, Beyond, TypeInv, WorkerTypeOK
    <3>4. WorkerStep(w) \/ Crash(w)
      BY <1>0, <3>1, <3>2, <3>3, MovesAlone DEF Beyond
    <3>5. UNCHANGED storeVars \/ Lapse
      <4>1. CASE Crash(w)
        BY <1>0, <4>1, LapseStep
      <4>2. CASE WorkerStep(w)
        <5>1. \/ Admit(w) \/ HandOver(w) \/ SendFails(w) \/ SteerInjected(w) \/ SteerNotTaken(w)
              \/ GiveUp(w)
          BY <3>1, <4>2 DEF Beyond, WorkerStep, Observe, TellInterrupt, ObserveBusy, Claim,
             ClaimOrphaned, ClaimNothing, FreezeCheck, PolicyUnreadable, Recheck, Mark, Accept,
             AcceptFails, PauseUnknown, Release, Fail, ReadPolicy, ReconcilePolicy,
             SweepInterrupts, SweepClaims, Step, At
        <5> QED  BY <5>1 DEF Admit, HandOver, SendFails, SteerInjected, SteerNotTaken, GiveUp
      <4> QED  BY <3>4, <4>1, <4>2
    <3>6. PlaceOf(i)' = PlaceOf(i)  BY <1>1, <3>5
    <3>7. OfferOf(i) = "open"  BY <2>3, OfferIs
    <3>8. OfferOf(i)' = "none"
      <4>1. ~(handed'[i] > 0)  BY <1>3, <2>1
      <4>2. ~Handing(i)'  BY <2>3
      <4> QED  BY <4>1, <4>2 DEF OfferOf
    <3> QED  BY <3>6, <3>7, <3>8
  <2> QED  BY <2>1, <2>2, <2>3
<1> QED  BY <1>2, <1>3

-------------------------------------------------------------------------------
(* The refinement.                                                             *)

\* The moves of the ledger, told by the values before and after.
Moves(p, o, q, r) ==
  \/ q = p /\ r = o
  \/ p = "out" /\ q \in {"waiting", "held"} /\ r = "none"
  \/ p \in {"boundary", "held"} /\ o = "none" /\ q = "waiting" /\ r = "none"
  \/ p = "waiting" /\ q = "boundary" /\ r = "open"
  \/ o = "open" /\ q = p /\ r \in {"used", "none"}
  \/ p \in {"waiting", "boundary"} /\ q = "held" /\ r = o
  \/ p = "boundary" /\ o = "used" /\ q = "gone" /\ r = "used"
  \/ p \in {"out", "waiting", "held"} /\ q = "gone" /\ r = o

LEMMA MoveStep ==
  ASSUME ~LateResends, LedgerInv, IInv', [Next]_vars, NEW i \in Ids
  PROVE  Moves(PlaceOf(i), OfferOf(i), PlaceOf(i)', OfferOf(i)')
<1>0. IInv /\ TypeInv /\ TypeInv' /\ StoreTypeOK /\ StoreTypeOK' /\ item[i] \in Rows
  BY DEF LedgerInv, RowInv, IInv, TypeInv, StoreTypeOK
<1>1. Transaction  BY <1>0, StepIsTransaction
<1>2. CASE OfferOf(i)' # OfferOf(i)
  <2>1. CASE \E w \in Workers : pc[w] = "mark" /\ held[w] = i /\ MarkDispatchStarted(w, i)
    <3>1. PICK w \in Workers : pc[w] = "mark" /\ held[w] = i /\ MarkDispatchStarted(w, i)
      BY <2>1
    <3>2. Owns(w, i) /\ Owns(w, i)' /\ item'[i].started
      BY <1>0, <3>1, MarkHonest DEF IInv
    <3>3. ~item[i].started  BY <1>0, <3>1, <3>2 DEF IInv, NotYetMarked, BeforeMark
    <3>4. PlaceOf(i) = "waiting"  BY <1>0, <3>2, <3>3, PlaceIs DEF Owns
    <3>5. PlaceOf(i)' = "boundary"  BY <1>0, <3>2, NextPlaceIs DEF Owns
    <3>6. OfferOf(i) = "none"  BY <1>0, <3>2, <3>3, OfferIs DEF Spent, Owns
    <3>7. OfferOf(i)' = "open"  BY <1>0, <1>2, <3>6, OfferStep
    <3> QED  BY <3>4, <3>5, <3>6, <3>7 DEF Moves
  <2> QED  BY <1>0, <1>2, <2>1, OfferStep DEF Moves
<1>3. CASE OfferOf(i)' = OfferOf(i)
  <2>1. PlaceMove(i)  BY <1>0, <1>1, PlaceStep
  <2>2. ~(PlaceOf(i) = "waiting" /\ PlaceOf(i)' = "boundary")
    <3> SUFFICES ASSUME PlaceOf(i) = "waiting", PlaceOf(i)' = "boundary"  PROVE FALSE
      OBVIOUS
    <3>1. ~item[i].started /\ item[i].st # "absent"
      <4>1. item[i].st \in {"absent", "queued", "claimed", "paused"} /\ item[i].started \in BOOLEAN
        BY <1>0 DEF Rows
      <4>2. item[i].st \in {"queued", "claimed"} /\ ~(item[i].st = "claimed" /\ item[i].started)
        BY <1>0, <4>1, PlaceIs
      <4> QED  BY <1>0, <4>2 DEF IInv, RowsHonest, RowHonest
    <3>2. item'[i].started
      <4>1. item'[i] \in Rows  BY <1>0 DEF StoreTypeOK
      <4>2. item'[i].st \in {"absent", "queued", "claimed", "paused"} /\ item'[i].started \in BOOLEAN
        BY <4>1 DEF Rows
      <4> QED  BY <1>0, <4>2, NextPlaceIs
    <3>3. PICK w \in Workers : /\ held[w] = i /\ Goto(w, "send") /\ UNCHANGED <<held, handed>>
      BY <1>0, <3>1, <3>2, MarkedByWorker
    <3>4. Handing(i)'
      BY <1>0, <3>3 DEF Handing, Beyond, Goto, TypeInv, WorkerTypeOK
    <3>5. OfferOf(i) = "none"  BY <1>0, <3>1, OfferIs DEF Spent
    <3>6. OfferOf(i)' # "none"  BY <3>4 DEF OfferOf
    <3> QED  BY <1>3, <3>5, <3>6
  <2> QED  BY <1>3, <2>1, <2>2 DEF PlaceMove, Moves
<1> QED  BY <1>2, <1>3

LEMMA LedgerStarts == Init => Ledger!Init
<1> SUFFICES ASSUME Init  PROVE Ledger!Init  OBVIOUS
<1>1. IInv /\ StoreTypeOK  BY InvInit DEF IInv, TypeInv
<1>2. ASSUME NEW i \in Ids  PROVE PlaceOf(i) = "out" /\ OfferOf(i) = "none"
  <2>1. item[i].st = "absent" /\ ~Given(i)
    BY DEF Init, StoreInit, AbsentRow, Row, Given, Ids
  <2>2. ~Handing(i) /\ handed[i] = 0  BY DEF Init, Handing, Beyond
  <2> QED  BY <1>1, <2>1, <2>2, PlaceIs, OfferIs
<1> QED  BY <1>2 DEF Ledger!Init

LEMMA LedgerMoves ==
  ASSUME ~LateResends, LedgerInv, LedgerInv', [Next]_vars
  PROVE  Ledger!Next
<1>1. IInv /\ IInv' /\ StoreTypeOK'  BY DEF LedgerInv, RowInv, IInv, TypeInv
<1>2. ASSUME NEW i \in Ids
      PROVE  /\ PlaceOf(i)' \in Places /\ OfferOf(i)' \in {"none", "open", "used"}
             /\ Moves(PlaceOf(i), OfferOf(i), PlaceOf(i)', OfferOf(i)')
  <2>1. OfferOf(i)' \in {"none", "open", "used"}  BY DEF OfferOf
  <2> QED  BY <1>1, <2>1, NextPlaceIs, MoveStep
<1>3. ASSUME NEW i \in Ids  PROVE Ledger!Move(i)
  BY <1>2 DEF Moves, Ledger!Move, Ledger!Keep, Ledger!Submit, Ledger!Requeue, Ledger!Start,
     Ledger!HandOver, Ledger!Withdraw, Ledger!Park, Ledger!Settle, Ledger!Drop, Ledger!To
<1> QED  BY <1>2, <1>3 DEF Ledger!Next, Places

\* Whatever the workers, runtimes, sweeps and clients do, each prompt id keeps
\* to its ledger: it crosses the dispatch boundary with one offer, returns to
\* the FIFO only while nobody can hand it over and nobody has, and once it is
\* accepted, deleted or renamed it does not come back.
THEOREM QueueKeepsLedger ==
  ASSUME ~LateResends
  PROVE  Spec => ImplementsLedger
<1>1. Init => LedgerInv
  BY RowInvInit, TraceInit DEF LedgerInv
<1>2. LedgerInv /\ [Next]_vars => LedgerInv'
  BY RowInvStep, TraceStep DEF LedgerInv
<1>3. LedgerInv /\ LedgerInv' /\ [Next]_vars => [Ledger!Next]_(Ledger!ledger)
  BY LedgerMoves
<1> QED  BY <1>1, <1>2, <1>3, LedgerStarts, PTL DEF Spec, ImplementsLedger, Ledger!Spec

-------------------------------------------------------------------------------
(* Interrupts: the pause of an operation is lifted with it, the message it saves *)
(* stays at the head, and the queue still keeps what it promises without them.   *)

CommandTypeOK == /\ cmd \in [Events -> Commands]
                 /\ proc \in [Events -> Workers \cup {None}]
                 /\ link \in [Events -> BOOLEAN]
                 /\ ended \in [Workers -> BOOLEAN]
                 /\ turnOf \in [Workers -> Ids \cup {None}]

\* A step of the interrupts themselves moves one row to the front, or changes
\* operations and the pause only.
OpTransaction ==
  \/ \E e \in Events : PrepareLate(e) \/ MarkCancelEnqueued(e) \/ MarkCancelFailed(e)
  \/ ObserveTerminal
OwnStep ==
  /\ UNCHANGED <<workerVars, runtimeVars>>
  /\ UNCHANGED storeVars \/ OpTransaction \/ \E e \in Events : PrepareQueued(e)

LEMMA StepOrOwn ==
  ASSUME [InterruptNext]_allVars
  PROVE  [Next]_vars \/ OwnStep
<1>1. CASE Base
  BY <1>1 DEF Base, Next, RuntimeStep
<1>2. ASSUME NEW e \in Events, InterruptStep(e)  PROVE [Next]_vars \/ OwnStep
  <2>1. CASE \E w \in Workers : StartInterrupt(e, w)
    BY <2>1 DEF StartInterrupt
  <2>2. CASE Prepare(e)
    BY <2>2 DEF Prepare, InterruptUnchanged, OwnStep, OpTransaction, PrepareRefused
  <2>3. CASE ObserveNow(e)
    BY <2>3 DEF ObserveNow, InterruptUnchanged, OwnStep, OpTransaction
  <2>4. CASE CheckTurn(e) \/ CancelRunningTurn(e) \/ Abandon(e)
    BY <2>4 DEF CheckTurn, CancelRunningTurn, Abandon, InterruptUnchanged, OwnStep
  <2>5. CASE MarkCancelEnqueued(e) \/ MarkCancelFailed(e)
    <3>1. UNCHANGED <<workerVars, runtimeVars>>
      BY <2>5 DEF MarkCancelEnqueued, MarkCancelFailed, InterruptUnchanged
    <3> QED  BY <2>5, <3>1 DEF OwnStep, OpTransaction
  <2> QED  BY <1>2, <2>1, <2>2, <2>3, <2>4, <2>5 DEF InterruptStep
<1>3. ASSUME NEW w \in Workers, OnTurnComplete(w)  PROVE OwnStep
  BY <1>3 DEF OnTurnComplete, OwnStep, OpTransaction
<1>4. ASSUME NEW w \in Workers, BusLags(w)  PROVE Next
  BY <1>4 DEF BusLags, Next, WorkerStep
<1>5. CASE UNCHANGED allVars
  BY <1>5 DEF allVars
<1> QED  BY <1>1, <1>2, <1>3, <1>4, <1>5 DEF InterruptNext

\* What an own step leaves alone in the tables.
RowsStay ==
  /\ UNCHANGED <<draft, gen, fate, dlv, policy>>
  /\ \A i \in Ids : /\ item'[i].st = item[i].st /\ item'[i].owner = item[i].owner
                    /\ item'[i].started = item[i].started /\ item'[i].why = item[i].why

LEMMA OwnStepTypes ==
  ASSUME TypeInv, OwnStep
  PROVE  TypeInv' /\ RowsStay
<1>1. /\ StoreTypeOK /\ WorkerTypeOK' /\ RuntimeTypeOK'
      /\ \A i \in Ids : item[i] \in Rows
  <2>1. UNCHANGED <<pc, held, text, steer, bound>> /\ UNCHANGED runtimeVars
    BY DEF OwnStep, workerVars
  <2> QED  BY <2>1 DEF TypeInv, WorkerTypeOK, CarriesId, RuntimeTypeOK, runtimeVars, StoreTypeOK
<1>2. CASE UNCHANGED storeVars
  BY <1>1, <1>2, StoreUnchanged DEF TypeInv, RowsStay, storeVars
<1>3. NotPaused \in Pauses /\ \A e \in Events, kind \in Kinds : Pause(kind, e) \in Pauses
  BY PauseType DEF NotPaused, Kinds
<1>4. ASSUME OpTransaction  PROVE StoreTypeOK' /\ RowsStay
  <2>1. UNCHANGED <<item, draft, gen, fate, dlv, policy>>
    BY <1>4 DEF OpTransaction, PrepareLate, MarkCancelEnqueued, MarkCancelFailed, ObserveTerminal
  <2>2. op' \in [Events -> OpStates]
    BY <1>1, <1>4 DEF OpTransaction, PrepareLate, MarkCancelEnqueued, MarkCancelFailed,
       ObserveTerminal, OpStates, StoreTypeOK
  <2>3. pause' \in Pauses /\ fresh' \in BOOLEAN
    <3>1. ASSUME NEW e \in Events, ClearOwnedPause(e)  PROVE pause' \in Pauses /\ fresh' \in BOOLEAN
      BY <1>1, <1>3, <3>1 DEF ClearOwnedPause, Bump, StoreTypeOK
    <3>2. ASSUME NEW e \in Events, MarkCancelFailed(e)
          PROVE  pause' \in Pauses /\ fresh' \in BOOLEAN
      BY <1>1, <1>3, <3>2 DEF MarkCancelFailed, Bump, StoreTypeOK, Kinds
    <3>3. ASSUME UNCHANGED <<pause, fresh>>  PROVE pause' \in Pauses /\ fresh' \in BOOLEAN
      BY <1>1, <3>3 DEF StoreTypeOK
    <3>4. ASSUME NEW e \in Events, MarkCancelEnqueued(e)
          PROVE  UNCHANGED <<pause, fresh>> \/ ClearOwnedPause(e)
      BY <3>4 DEF MarkCancelEnqueued
    <3>5. ASSUME ObserveTerminal
          PROVE  UNCHANGED <<pause, fresh>> \/ \E e \in Events : ClearOwnedPause(e)
      BY <3>5 DEF ObserveTerminal
    <3>6. ASSUME NEW e \in Events, PrepareLate(e)  PROVE UNCHANGED <<pause, fresh>>
      BY <3>6 DEF PrepareLate
    <3> QED  BY <1>4, <3>1, <3>2, <3>3, <3>4, <3>5, <3>6 DEF OpTransaction
  <2> QED  BY <1>1, <2>1, <2>2, <2>3 DEF StoreTypeOK, RowsStay
<1>5. ASSUME NEW e \in Events, PrepareQueued(e)  PROVE StoreTypeOK' /\ RowsStay
  <2>1. PICK k \in Ids, p \in Positions :
          /\ item' = [item EXCEPT ![k].pos = p]
          /\ \/ op' = [op EXCEPT ![e] = "cancelling"] /\ pause' = Pause("interrupt", e)
             \/ op' = [op EXCEPT ![e] = "ready"] /\ UNCHANGED pause
          /\ Bump
          /\ UNCHANGED <<draft, gen, fate, dlv, policy>>
    BY <1>5 DEF PrepareQueued
  <2>2. item' = [item EXCEPT ![k] = [item[k] EXCEPT !.pos = p]]
    BY <2>1
  <2>3. [item[k] EXCEPT !.pos = p] \in Rows
    BY <1>1 DEF Rows
  <2>4. item' \in [Ids -> Rows]  BY <1>1, <2>2, <2>3 DEF StoreTypeOK
  <2>5. op' \in [Events -> OpStates] /\ pause' \in Pauses /\ fresh' \in BOOLEAN
    BY <1>1, <1>3, <2>1 DEF StoreTypeOK, OpStates, Kinds, Bump
  <2>6. StoreTypeOK'  BY <1>1, <2>1, <2>4, <2>5 DEF StoreTypeOK
  <2>7. RowsStay
    <3>1. ASSUME NEW i \in Ids
          PROVE  /\ item'[i].st = item[i].st /\ item'[i].owner = item[i].owner
                 /\ item'[i].started = item[i].started /\ item'[i].why = item[i].why
      BY <1>1, <2>2 DEF StoreTypeOK, Rows
    <3> QED  BY <2>1, <3>1 DEF RowsStay
  <2> QED  BY <2>6, <2>7
<1> QED  BY <1>1, <1>2, <1>4, <1>5 DEF OwnStep, TypeInv

\* An own step keeps what the queue keeps.
LEMMA OwnStepKeeps ==
  ASSUME LedgerInv, OwnStep
  PROVE  LedgerInv'
<1> USE DEF LedgerInv, RowInv, IInv
<1>1. TypeInv' /\ RowsStay  BY OwnStepTypes
<1>2. UNCHANGED <<pc, held, text, steer, bound>> /\ UNCHANGED <<handed, onWire>>
  BY DEF OwnStep, workerVars, runtimeVars
<1>3. RowsHonest'
  BY <1>1 DEF RowsStay, RowsHonest, RowHonest, IsOrigin
<1>4. Quiet
  <2>1. \A s \in Subjects : gen[s] <= gen[s]  BY DEF TypeInv, StoreTypeOK
  <2> QED  BY <1>1, <2>1 DEF RowsStay, Quiet, QuietRow
<1>5. \A w \in Workers : QuietWorker(w)
  BY <1>2 DEF QuietWorker, Beyond
<1>6. IInv'  BY <1>1, <1>2, <1>3, <1>4, <1>5, QuietStep
<1>7. SingleRow'  BY <1>1 DEF RowsStay, SingleRow, Live
<1>8. DeliveryInStep'  BY <1>1, EventRowsKept DEF RowsStay
<1>9. \A w \in Workers : HandedFirst(w)' /\ OnWireFirst(w)'
  BY <1>2 DEF TraceInv, HandedFirst, OnWireFirst, IsOrigin
<1>10. EmbeddedWasOnWire' /\ NoSilentLoss'
  BY <1>1, <1>2 DEF TraceInv, RowsStay, EmbeddedWasOnWire, NoSilentLoss, Live
<1> QED  BY <1>1, <1>6, <1>7, <1>8, <1>9, <1>10 DEF TraceInv

LEMMA InterruptKeeps ==
  ASSUME ~LateResends
  PROVE  LedgerInv /\ [InterruptNext]_allVars => LedgerInv'
<1>1. LedgerInv /\ [Next]_vars => LedgerInv'
  BY RowInvStep, TraceStep DEF LedgerInv
<1> QED  BY <1>1, StepOrOwn, OwnStepKeeps

\* Moving messages to the front and cancelling turns for them costs the queue
\* none of its promises: at most once, one row, deliveries in step, no loss.
THEOREM InterruptSparesQueue ==
  ASSUME ~LateResends
  PROVE  InterruptSpec => [](/\ AtMostOnce /\ HandedIsMarked /\ SingleRow /\ DeliveryInStep
                             /\ EmbeddedWasOnWire /\ NoSilentLoss)
<1>1. InterruptInit => LedgerInv
  BY RowInvInit, TraceInit DEF LedgerInv, InterruptInit
<1>2. LedgerInv /\ [InterruptNext]_allVars => LedgerInv'  BY InterruptKeeps
<1>3. LedgerInv => /\ AtMostOnce /\ HandedIsMarked /\ SingleRow /\ DeliveryInStep
                   /\ EmbeddedWasOnWire /\ NoSilentLoss
  BY InvImplies DEF LedgerInv, RowInv, TraceInv
<1> QED  BY <1>1, <1>2, <1>3, PTL DEF InterruptSpec
-------------------------------------------------------------------------------
(* The pause of an operation is lifted with it.                                *)

Awaiting == {"cancelling", "observed", "waiting"}
PauseInv == pause.kind = "interrupt" => pause.by \in Events /\ op[pause.by] \in Awaiting

\* The end of a turn clears the pause of the operation it makes ready.
LEMMA ObservePause ==
  ASSUME StoreTypeOK, PauseInv, ObserveTerminal
  PROVE  PauseInv'
<1>1. PICK e \in Events :
        \/ op[e] = "cancelling" /\ op' = [op EXCEPT ![e] = "observed"] /\ UNCHANGED pause
        \/ op[e] = "waiting" /\ op' = [op EXCEPT ![e] = "ready"] /\ ClearOwnedPause(e)
  BY DEF ObserveTerminal
<1>2. SUFFICES ASSUME pause'.kind = "interrupt"
               PROVE  pause'.by \in Events /\ op'[pause'.by] \in Awaiting
  BY DEF PauseInv
<1>3. UNCHANGED pause
  BY <1>1, <1>2 DEF ClearOwnedPause, NotPaused, Pause
<1>4. pause.by \in Events /\ op[pause.by] \in Awaiting  BY <1>2, <1>3 DEF PauseInv
<1>5. CASE pause.by # e
  BY <1>1, <1>3, <1>4, <1>5 DEF StoreTypeOK
<1>6. CASE pause.by = e
  <2>1. pause = Pause("interrupt", e)
    BY <1>2, <1>3, <1>6 DEF StoreTypeOK, Pauses, Pause
  <2>2. op' = [op EXCEPT ![e] = "observed"]
    BY <1>1, <1>2, <1>3, <2>1 DEF ClearOwnedPause, NotPaused, Pause
  <2> QED  BY <1>3, <1>4, <1>6, <2>2 DEF StoreTypeOK, Awaiting
<1> QED  BY <1>5, <1>6

LEMMA PauseInvStep ==
  ASSUME StoreTypeOK, PauseInv, Transaction
  PROVE  PauseInv'
<1>1. CASE UNCHANGED storeVars \/ Lapse
  BY <1>1 DEF storeVars, Lapse, PauseInv
<1>2. ASSUME NEW S, NEW to, OpFollows(S, {"ready", "dispatching"}, to),
             NEW e \in Events, op[e] \in Awaiting
      PROVE  op'[e] = op[e]
  BY <1>2 DEF OpFollows, Awaiting
<1>3. ASSUME NEW w \in Workers, NEW i \in Ids, RowTransaction(w, i)  PROVE PauseInv'
  <2>1. pause' = pause \/ pause'.kind # "interrupt"
    BY <1>3 DEF RowTransaction, ClaimHead, PauseDispatchUnknown, MarkDispatchStarted,
       AcceptClaim, ReleaseClaimBusy, FailClaim, Pause
  <2>2. ASSUME NEW e \in Events, op[e] \in Awaiting  PROVE op'[e] = op[e]
    BY <1>3, <2>2 DEF RowTransaction, ClaimHead, PauseDispatchUnknown, MarkDispatchStarted,
       AcceptClaim, ReleaseClaimBusy, FailClaim, DeliveriesFail, OpFollows, Awaiting
  <2> QED  BY <2>1, <2>2 DEF PauseInv
<1>4. CASE ClientTransaction
  <2>1. op' = op
    BY <1>4 DEF ClientTransaction, Enqueue, SendEvent, Edit, Delete, RetryItem, Reorder,
       PauseQueueIfPending, ResumeQueue, Refresh, UpsertPolicy
  <2>2. pause' = pause \/ pause' = NotPaused \/ pause' = Pause("user", None)
    BY <1>4 DEF ClientTransaction, Enqueue, SendEvent, Edit, Delete, RetryItem, Reorder,
       PauseQueueIfPending, ResumeQueue, Refresh, UpsertPolicy
  <2>3. pause' = pause \/ pause'.kind # "interrupt"
    BY <2>2 DEF Pause, NotPaused
  <2> QED  BY <2>1, <2>3 DEF PauseInv
<1>5. CASE RecoverExpiredClaims
  <2>1. pause' = pause \/ pause'.kind # "interrupt"
    BY <1>5 DEF RecoverExpiredClaims, Pause
  <2>2. PICK S : OpFollows(S, {"ready", "dispatching"}, "failed")
    BY <1>5 DEF RecoverExpiredClaims, DeliveriesFail
  <2> QED  BY <1>2, <2>1, <2>2 DEF PauseInv
<1>6. CASE \E b \in BOOLEAN : Reconcile(b)
  BY <1>6 DEF Reconcile, PauseInv
<1>7. ASSUME NEW stale \in SUBSET Events, RecoverInterrupts(stale)  PROVE PauseInv'
  <2>1. SUFFICES ASSUME pause'.kind = "interrupt"
                 PROVE  pause'.by \in Events /\ op'[pause'.by] \in Awaiting
    BY DEF PauseInv
  <2>2. /\ pause' = pause
        /\ pause.kind = "interrupt" => op'[pause.by] = op[pause.by]
    BY <1>7, <2>1 DEF RecoverInterrupts, NotPaused, Pause
  <2> QED  BY <2>1, <2>2 DEF PauseInv
<1> QED
  BY <1>1, <1>3, <1>4, <1>5, <1>6, <1>7, ObservePause DEF Transaction, SweepTransaction

LEMMA PauseInvOwnStep ==
  ASSUME StoreTypeOK, PauseInv, OwnStep
  PROVE  PauseInv'
<1> SUFFICES ASSUME pause'.kind = "interrupt"
             PROVE  pause'.by \in Events /\ op'[pause'.by] \in Awaiting
  BY DEF PauseInv
<1>1. CASE UNCHANGED storeVars
  BY <1>1 DEF storeVars, PauseInv
<1>2. CASE ObserveTerminal
  BY <1>2, ObservePause DEF PauseInv
<1>3. ASSUME NEW e \in Events, PrepareQueued(e)
      PROVE  pause'.by \in Events /\ op'[pause'.by] \in Awaiting
  BY <1>3 DEF PrepareQueued, Preparable, NotPaused, Pause, StoreTypeOK, Awaiting
<1>4. ASSUME NEW e \in Events, PrepareLate(e)
      PROVE  pause'.by \in Events /\ op'[pause'.by] \in Awaiting
  BY <1>4 DEF PrepareLate, PauseInv, StoreTypeOK, Awaiting
<1>5. ASSUME NEW e \in Events, MarkCancelEnqueued(e) \/ MarkCancelFailed(e)
      PROVE  pause'.by \in Events /\ op'[pause'.by] \in Awaiting
  <2>1. \A x \in Events : x # e => op'[x] = op[x]
    BY <1>5 DEF MarkCancelEnqueued, MarkCancelFailed, StoreTypeOK
  <2>2. pause' = pause
    BY <1>5 DEF MarkCancelEnqueued, MarkCancelFailed, ClearOwnedPause, NotPaused, Pause
  <2>3. pause.by \in Events /\ op[pause.by] \in Awaiting  BY <2>2 DEF PauseInv
  <2>4. CASE pause.by = e
    <3>1. pause = Pause("interrupt", e)
      BY <2>2, <2>4 DEF StoreTypeOK, Pauses, Pause
    <3>2. op'[e] = "waiting"
      BY <1>5, <2>2, <2>3, <2>4, <3>1 DEF MarkCancelEnqueued, MarkCancelFailed,
         ClearOwnedPause, NotPaused, Pause, StoreTypeOK, Awaiting
    <3> QED  BY <2>2, <2>3, <2>4, <3>2 DEF Awaiting
  <2> QED  BY <2>1, <2>2, <2>3, <2>4
<1> QED  BY <1>1, <1>2, <1>3, <1>4, <1>5 DEF OwnStep, OpTransaction

\* A queue that is paused for an interrupt is paused for one that still waits for
\* its turn to end, whatever order failures, recovery and the end of that turn
\* come in: prepare, observe_terminal, mark_cancel_enqueued, mark_cancel_failed
\* and recover_after_process_loss never leave a pause that nobody will lift.
THEOREM PauseIsOwned == InterruptSpec => []PauseOwned
<1> DEFINE Inv == TypeInv /\ PauseInv
<1>1. InterruptInit => Inv
  <2>1. Init => PauseInv  BY DEF Init, StoreInit, PauseInv, NotPaused, Pause
  <2> QED  BY <2>1, InitType DEF InterruptInit
<1>2. ASSUME Inv, [InterruptNext]_allVars  PROVE Inv'
  <2>1. StoreTypeOK  BY <1>2 DEF TypeInv
  <2>2. CASE [Next]_vars
    BY <1>2, <2>1, <2>2, TypeStep, StepIsTransaction, PauseInvStep
  <2>3. CASE OwnStep
    BY <1>2, <2>1, <2>3, OwnStepTypes, PauseInvOwnStep
  <2> QED  BY <1>2, <2>2, <2>3, StepOrOwn
<1>3. Inv => PauseOwned  BY DEF PauseInv, PauseOwned, Awaiting
<1> QED
  <2> HIDE DEF Inv
  <2> QED  BY <1>1, <1>2, <1>3, PTL DEF InterruptSpec
-------------------------------------------------------------------------------
(* The saved message stays at the head.                                        *)

LEMMA NoNewWait ==
  ASSUME StoreTypeOK, Transaction, NEW e \in Events, op'[e] \in Awaiting
  PROVE  op[e] \in Awaiting
<1> USE DEF StoreTypeOK, Awaiting
<1>1. CASE UNCHANGED storeVars \/ Lapse
  BY <1>1 DEF storeVars, Lapse
<1>2. ASSUME NEW w \in Workers, NEW i \in Ids, RowTransaction(w, i)  PROVE op[e] \in Awaiting
  BY <1>2 DEF RowTransaction, ClaimHead, PauseDispatchUnknown, MarkDispatchStarted,
     AcceptClaim, ReleaseClaimBusy, FailClaim, DeliveriesFail, OpFollows
<1>3. CASE ClientTransaction
  BY <1>3 DEF ClientTransaction, Enqueue, SendEvent, Edit, Delete, RetryItem, Reorder,
     PauseQueueIfPending, ResumeQueue, Refresh, UpsertPolicy
<1>4. CASE RecoverExpiredClaims
  BY <1>4 DEF RecoverExpiredClaims, DeliveriesFail, OpFollows
<1>5. CASE \E b \in BOOLEAN : Reconcile(b)
  BY <1>5 DEF Reconcile
<1>6. CASE ObserveTerminal
  BY <1>6 DEF ObserveTerminal
<1>7. ASSUME NEW stale \in SUBSET Events, RecoverInterrupts(stale)  PROVE op[e] \in Awaiting
  BY <1>7 DEF RecoverInterrupts
<1> QED  BY <1>1, <1>2, <1>3, <1>4, <1>5, <1>6, <1>7 DEF Transaction, SweepTransaction

LEMMA SentOnce ==
  ASSUME StoreTypeOK, Transaction, NEW s \in Subjects, fate[s] # "unsent"
  PROVE  fate'[s] # "unsent"
<1>1. CASE UNCHANGED fate
  BY <1>1
<1>2. ASSUME NEW i, fate' = [fate EXCEPT ![i[1]] = "submitted"]
              \/ fate' = [fate EXCEPT ![i[1]] = "deleted"]
      PROVE  fate'[s] # "unsent"
  BY <1>2 DEF StoreTypeOK
<1>3. ASSUME NEW i, NEW st, NEW why, Append(i, st, why)  PROVE fate'[s] # "unsent"
  BY <1>2, <1>3 DEF Append
<1>4. CASE ClientTransaction
  <2>1. ASSUME NEW m \in Msgs, Enqueue(m)  PROVE fate'[s] # "unsent"
    BY <1>3, <2>1 DEF Enqueue
  <2>2. ASSUME NEW e \in Events, NEW b \in BOOLEAN, SendEvent(e, b)  PROVE fate'[s] # "unsent"
    BY <1>3, <2>2 DEF SendEvent
  <2>3. ASSUME NEW i \in Ids, Delete(i)  PROVE fate'[s] # "unsent"
    BY <1>2, <2>3 DEF Delete
  <2> QED
    BY <1>1, <1>4, <2>1, <2>2, <2>3 DEF ClientTransaction, Edit, RetryItem, Reorder,
       PauseQueueIfPending, ResumeQueue, Refresh, UpsertPolicy
<1>5. ASSUME NEW w \in Workers, NEW i \in Ids, RowTransaction(w, i)  PROVE UNCHANGED fate
  BY <1>5 DEF RowTransaction, ClaimHead, PauseDispatchUnknown, MarkDispatchStarted,
     AcceptClaim, ReleaseClaimBusy, FailClaim
<1>6. SweepTransaction \/ UNCHANGED storeVars \/ Lapse => UNCHANGED fate
  BY DEF SweepTransaction, RecoverExpiredClaims, Reconcile, ObserveTerminal, RecoverInterrupts,
     storeVars, Lapse
<1> QED  BY <1>1, <1>4, <1>5, <1>6 DEF Transaction
\* A row of the next state stands where a row stood before it, the same message's
\* if it is a collaboration message; or it is new, and behind all others.
Inherits(k) == \E j \in Live : item'[k].pos = item[j].pos /\ (IsOrigin(k) => j[1] = k[1])
Joins(k)    == fate[k[1]] = "unsent" /\ \A j \in Live : item[j].pos < item'[k].pos

LEMMA AppendJoins ==
  ASSUME StoreTypeOK, NEW s \in Subjects, NEW st, NEW why, Append(<<s, 0>>, st, why)
  PROVE  \A j \in Live : item[j].pos < item'[<<s, 0>>].pos
<1>1. <<s, 0>> \in Ids  BY BoundsAssumption DEF Ids
<1>2. PICK p \in Positions :
        IsNextPos(p) /\ item' = [item EXCEPT ![<<s, 0>>] = Row(st, p, why)]
  BY DEF Append
<1>3. item'[<<s, 0>>].pos = p  BY <1>1, <1>2 DEF Row, StoreTypeOK
<1> QED  BY <1>2, <1>3 DEF IsNextPos

\* A row that stays keeps its position, but for a reordering of ordinary rows.
LEMMA RowStands ==
  ASSUME TypeInv, SingleRow, Transaction, ~Reorder, NEW k \in Ids,
         item[k].st # "absent", item'[k].st # "absent"
  PROVE  item'[k].pos = item[k].pos
<1> USE DEF TypeInv, StoreTypeOK
<1>0. item \in [Ids -> Rows] /\ item[k] \in Rows  OBVIOUS
<1>1. \A why, p, st : Row(st, p, why).pos = p /\ Parked(item[k], why).pos = item[k].pos
  BY <1>0 DEF Row, Parked, Rows
<1>2. CASE UNCHANGED storeVars \/ Lapse
  BY <1>2 DEF storeVars, Lapse
<1>3. ASSUME NEW w \in Workers, NEW i \in Ids, RowTransaction(w, i)
      PROVE  item'[k].pos = item[k].pos
  <2>1. CASE i # k
    BY <1>3, <2>1 DEF RowTransaction, ClaimHead, PauseDispatchUnknown, MarkDispatchStarted,
       AcceptClaim, ReleaseClaimBusy, FailClaim
  <2>2. CASE ClaimHead(w, k) \/ MarkDispatchStarted(w, k)
    <3>1. CASE ClaimHead(w, k)  BY <1>0, <3>1, SMTT(30) DEF ClaimHead, Rows
    <3>2. CASE MarkDispatchStarted(w, k)  BY <1>0, <3>2, SMTT(30) DEF MarkDispatchStarted, Rows
    <3> QED  BY <2>2, <3>1, <3>2
  <2>3. CASE PauseDispatchUnknown(k) \/ FailClaim(w, k) \/ ReleaseClaimBusy(w, k)
    BY <1>0, <1>1, <2>3 DEF PauseDispatchUnknown, FailClaim, ReleaseClaimBusy
  <2>4. ~AcceptClaim(w, k)
    BY <1>0 DEF AcceptClaim, AbsentRow, Row
  <2> QED  BY <1>3, <2>1, <2>2, <2>3, <2>4 DEF RowTransaction
<1>4. ASSUME SweepTransaction  PROVE item'[k].pos = item[k].pos
  <2>1. CASE RecoverExpiredClaims
    BY <1>0, <1>1, <2>1 DEF RecoverExpiredClaims
  <2>2. CASE \E b \in BOOLEAN : Reconcile(b)
    BY <1>0, <1>1, <2>2 DEF Reconcile
  <2>3. CASE UNCHANGED item
    BY <2>3
  <2> QED  BY <1>4, <2>1, <2>2, <2>3 DEF SweepTransaction, ObserveTerminal, RecoverInterrupts
<1>5. ASSUME NEW i, NEW st, NEW why, Append(i, st, why)  PROVE item'[k].pos = item[k].pos
  BY <1>5 DEF Append
<1>6. ASSUME NEW i \in Ids, RetryItem(i)  PROVE item'[k].pos = item[k].pos
  <2>1. PICK h \in Ids : h = <<i[1], gen[i[1]] + 1>>
    BY <1>6, BoundsAssumption DEF RetryItem, Retryable, Ids
  <2>2. item' = [item EXCEPT ![i] = AbsentRow, ![h] = Row("queued", item[i].pos, "none")]
    BY <1>6, <2>1 DEF RetryItem
  <2>3. CASE k = h
    <3>1. item[i].st # "absent"  BY <1>6 DEF RetryItem, Retryable
    <3>2. i = k  BY <2>1, <2>3, <3>1 DEF SingleRow, Live
    <3> QED  BY <1>0, <1>1, <2>2, <2>3, <3>2
  <2>4. CASE k # h
    BY <1>0, <2>2, <2>4 DEF AbsentRow, Row
  <2> QED  BY <2>3, <2>4
<1>7. ASSUME NEW i \in Ids, Delete(i)  PROVE item'[k].pos = item[k].pos
  BY <1>0, <1>7 DEF Delete, AbsentRow, Row
<1>8. CASE ClientTransaction
  <2>1. ASSUME NEW m \in Msgs, Enqueue(m)  PROVE item'[k].pos = item[k].pos
    BY <1>5, <2>1 DEF Enqueue
  <2>2. ASSUME NEW e \in Events, NEW b \in BOOLEAN, SendEvent(e, b)
        PROVE  item'[k].pos = item[k].pos
    BY <1>5, <2>2 DEF SendEvent
  <2> QED
    BY <1>6, <1>7, <1>8, <2>1, <2>2 DEF ClientTransaction, Edit, PauseQueueIfPending,
       ResumeQueue, Refresh, UpsertPolicy
<1> QED  BY <1>2, <1>3, <1>4, <1>8 DEF Transaction

LEMMA RowsInherit ==
  ASSUME ~LateResends, IInv, SingleRow, Transaction, NEW k \in Ids, item'[k].st # "absent"
  PROVE  Inherits(k) \/ Joins(k)
<1> USE DEF IInv, TypeInv, StoreTypeOK
<1>1. CASE item[k].st # "absent" /\ ~Reorder
  BY <1>1, RowStands DEF Inherits, Live
<1>2. CASE Reorder
  <2>1. PICK to \in [Ordinary -> Ordinary] :
          item' = [i \in Ids |-> IF i \in Ordinary
                                 THEN [item[i] EXCEPT !.pos = item[to[i]].pos]
                                 ELSE item[i]]
    BY <1>2 DEF Reorder, Bijection, Injection, Surjection
  <2>2. CASE k \in Ordinary
    <3>1. to[k] \in Live /\ ~IsOrigin(k)
      BY <2>2, SubjectsAssumption DEF Ordinary, IsOrigin
    <3>2. item'[k] = [item[k] EXCEPT !.pos = item[to[k]].pos]  BY <2>1, <2>2
    <3>3. item'[k].pos = item[to[k]].pos  BY <3>2 DEF Rows
    <3> QED  BY <3>1, <3>3 DEF Inherits
  <2>3. CASE k \notin Ordinary
    <3>1. item'[k] = item[k]  BY <2>1, <2>3
    <3> QED  BY <3>1 DEF Inherits, Live
  <2> QED  BY <2>2, <2>3
<1>3. CASE item[k].st = "absent"
  <2>1. CASE \E j \in Ids : RetryItem(j) /\ k = <<j[1], gen[j[1]] + 1>>
    <3>1. PICK j \in Ids : RetryItem(j) /\ k = <<j[1], gen[j[1]] + 1>>  BY <2>1
    <3>2. item'[k] = Row("queued", item[j].pos, "none")  BY <3>1 DEF RetryItem
    <3>3. j \in Live /\ j[1] = k[1]  BY <3>1 DEF RetryItem, Retryable, Live
    <3> QED  BY <3>2, <3>3 DEF Inherits, Row
  <2>2. CASE k[2] = 0 /\ (Enqueue(k[1]) \/ \E b \in BOOLEAN : SendEvent(k[1], b))
    <3>1. k = <<k[1], 0>> /\ k[1] \in Subjects  BY <2>2 DEF Ids
    <3>2. PICK st, why : Append(<<k[1], 0>>, st, why)
      BY <2>2 DEF Enqueue, SendEvent
    <3>3. \A j \in Live : item[j].pos < item'[k].pos  BY <3>1, <3>2, AppendJoins
    <3>4. CASE fate[k[1]] = "unsent"
      BY <3>3, <3>4 DEF Joins
    <3>5. CASE fate[k[1]] # "unsent"
      BY <2>2, <3>5 DEF Enqueue, SendEvent
    <3> QED  BY <3>4, <3>5
  <2> QED  BY <1>3, <2>1, <2>2, RowAppears
<1> QED  BY <1>1, <1>2, <1>3
WaitInv == /\ SavedMessageIsNext
           /\ \A e \in Events : op[e] \in Awaiting => fate[e] # "unsent"

LEMMA WaitInvStep ==
  ASSUME ~LateResends, RowInv, WaitInv, [Next]_vars
  PROVE  WaitInv'
<1> USE DEF RowInv, IInv, TypeInv
<1>0. StoreTypeOK /\ StoreTypeOK' /\ Transaction
  BY TypeStep, StepIsTransaction
<1>1. \A e \in Events : op'[e] \in Awaiting => op[e] \in Awaiting /\ fate'[e] # "unsent"
  <2>1. ASSUME NEW e \in Events, op'[e] \in Awaiting
        PROVE  op[e] \in Awaiting /\ fate'[e] # "unsent"
    <3>1. op[e] \in Awaiting  BY <1>0, <2>1, NoNewWait
    <3> QED  BY <1>0, <3>1, SentOnce DEF WaitInv, Subjects
  <2> QED  BY <2>1
<1>2. ASSUME NEW i \in Live', IsOrigin(i), op'[i[1]] \in Awaiting, NEW k \in Live'
      PROVE  item'[i].pos <= item'[k].pos
  <2>1. i \in Ids /\ k \in Ids /\ item'[i].st # "absent" /\ item'[k].st # "absent"
    BY DEF Live
  <2>2. i[1] \in Events /\ op[i[1]] \in Awaiting  BY <1>1, <1>2 DEF IsOrigin
  <2>3. ~Joins(i)  BY <2>2 DEF WaitInv, Joins
  <2>4. PICK j \in Live : item'[i].pos = item[j].pos /\ j[1] = i[1]
    BY <1>0, <1>2, <2>1, <2>3, RowsInherit DEF Inherits
  <2>5. \A h \in Live : item[j].pos <= item[h].pos
    BY <2>2, <2>4 DEF WaitInv, SavedMessageIsNext, Head, IsFirst, IsOrigin, Awaiting
  <2>6. item[j].pos \in Int /\ item'[k].pos \in Int
    BY <1>0, <2>1, BoundsAssumption DEF StoreTypeOK, Rows, Live, Positions
  <2> QED  BY <1>0, <2>1, <2>4, <2>5, <2>6, RowsInherit DEF Inherits, Joins
<1>3. SavedMessageIsNext'
  BY <1>2 DEF SavedMessageIsNext, Head, IsFirst, IsOrigin, Awaiting
<1> QED  BY <1>1, <1>3 DEF WaitInv

\* A prepared message is the only one that waits, and goes in front of all rows.
LEMMA PrepareGoesFirst ==
  ASSUME RowInv, NEW e \in Events, PrepareQueued(e)
  PROVE  WaitInv'
<1> USE DEF RowInv, IInv, TypeInv, StoreTypeOK
<1>1. PICK i \in Ids, p \in Positions :
        /\ op[e] = "none" /\ i[1] = e /\ item[i].st = "queued" /\ ActiveOps = {}
        /\ IsFrontPos(p)
        /\ item' = [item EXCEPT ![i].pos = p]
        /\ \/ op' = [op EXCEPT ![e] = "cancelling"]
           \/ op' = [op EXCEPT ![e] = "ready"]
        /\ fate' = fate
  BY DEF PrepareQueued, Preparable
<1>2. \A x \in Events : op'[x] \in Awaiting => x = e
  BY <1>1 DEF ActiveOps, Awaiting
<1>3. fate[e] # "unsent"  BY <1>1 DEF RowsHonest, RowHonest
<1>4. \A k \in Ids : /\ item'[k].st = item[k].st
                     /\ item'[k].pos = IF k = i THEN p ELSE item[k].pos
  BY <1>1 DEF Rows
<1>5. \A k \in Live : p <= item'[k].pos
  BY <1>1, <1>4, BoundsAssumption DEF IsFrontPos, Live, Rows, Positions
<1>6. Live' = Live  BY <1>4 DEF Live
<1>7. i \in Live /\ \A k \in Live : k[1] = e => k = i
  BY <1>1 DEF Live, SingleRow
<1>8. Head(i)'  BY <1>4, <1>5, <1>6, <1>7 DEF Head, IsFirst
<1>9. ASSUME NEW k \in Live', IsOrigin(k), op'[k[1]] \in Awaiting  PROVE Head(k)'
  <2>1. k = i  BY <1>2, <1>6, <1>7, <1>9 DEF IsOrigin
  <2> QED  BY <1>8, <2>1
<1>10. SavedMessageIsNext'  BY <1>9 DEF SavedMessageIsNext, IsOrigin, Awaiting
<1> QED  BY <1>1, <1>2, <1>3, <1>10 DEF WaitInv

LEMMA WaitInvOwnStep ==
  ASSUME RowInv, WaitInv, OwnStep
  PROVE  WaitInv'
<1> USE DEF RowInv, IInv, TypeInv, StoreTypeOK
<1>1. ASSUME UNCHANGED <<item, fate>>, \A e \in Events : op'[e] \in Awaiting => op[e] \in Awaiting
      PROVE  WaitInv'
  BY <1>1 DEF WaitInv, SavedMessageIsNext, Awaiting, Live, Head, IsFirst, IsOrigin
<1>2. CASE UNCHANGED storeVars
  BY <1>1, <1>2 DEF storeVars
<1>3. CASE OpTransaction
  <2>1. UNCHANGED <<item, fate>>
    BY <1>3 DEF OpTransaction, PrepareLate, MarkCancelEnqueued, MarkCancelFailed, ObserveTerminal
  <2>2. \A e \in Events : op'[e] \in Awaiting => op[e] \in Awaiting
    BY <1>3 DEF OpTransaction, PrepareLate, MarkCancelEnqueued, MarkCancelFailed,
       ObserveTerminal, Awaiting
  <2> QED  BY <1>1, <2>1, <2>2
<1> QED  BY <1>2, <1>3, PrepareGoesFirst DEF OwnStep

\* The message an interrupt has saved for the end of the turn stands at the head
\* of the queue until then: appended messages go behind it, a reordering permutes
\* the ordinary rows over their own positions, a retry keeps its own, and a second
\* interrupt is refused while the first is active.
THEOREM SavedMessageStaysNext ==
  ASSUME ~LateResends
  PROVE  InterruptSpec => []SavedMessageIsNext
<1> DEFINE Inv == LedgerInv /\ WaitInv
<1>1. InterruptInit => Inv
  <2>1. Init => WaitInv
    BY DEF Init, StoreInit, WaitInv, SavedMessageIsNext, Live, AbsentRow, Row, Awaiting
  <2> QED  BY <2>1, RowInvInit, TraceInit DEF InterruptInit, LedgerInv
<1>2. ASSUME Inv, [InterruptNext]_allVars  PROVE Inv'
  <2>1. LedgerInv'  BY <1>2, InterruptKeeps
  <2>2. WaitInv'
    BY <1>2, StepOrOwn, WaitInvStep, WaitInvOwnStep DEF LedgerInv
  <2> QED  BY <2>1, <2>2
<1>3. Inv => SavedMessageIsNext  BY DEF WaitInv
<1> QED
  <2> HIDE DEF Inv
  <2> QED  BY <1>1, <1>2, <1>3, PTL DEF InterruptSpec
-------------------------------------------------------------------------------
(* Types, and the ledger.                                                      *)

LEMMA CommandTypes ==
  ASSUME TypeInv, TypeInv', CommandTypeOK, [InterruptNext]_allVars
  PROVE  CommandTypeOK'
<1> USE DEF CommandTypeOK
<1>1. CASE UNCHANGED interruptVars
  BY <1>1 DEF interruptVars
<1>2. ASSUME NEW e \in Events, InterruptStep(e)  PROVE CommandTypeOK'
  <2>1. ASSUME NEW c \in Commands, cmd' = [cmd EXCEPT ![e] = c]
        PROVE  cmd' \in [Events -> Commands]
    BY <2>1
  <2>2. ASSUME NEW from, NEW to \in Commands, Continue(e, from, to)
        PROVE  cmd' \in [Events -> Commands]
    BY <2>1, <2>2 DEF Continue
  <2>3. {"none", "idle", "busy", "check", "observe", "cancel", "enqueued", "failing", "done"}
          \subseteq Commands
    BY DEF Commands
  <2>4. ASSUME NEW w \in Workers, StartInterrupt(e, w)  PROVE CommandTypeOK'
    BY <2>2, <2>3, <2>4 DEF StartInterrupt
  <2>5. CASE Prepare(e)
    <3>1. cmd' \in [Events -> Commands]
      BY <2>1, <2>2, <2>3, <2>5 DEF Prepare, PrepareQueued
    <3> QED  BY <2>5, <3>1 DEF Prepare, InterruptUnchanged
  <2>6. CASE CheckTurn(e) \/ ObserveNow(e) \/ CancelRunningTurn(e)
    <3>1. cmd' \in [Events -> Commands]
      BY <2>2, <2>3, <2>6 DEF CheckTurn, ObserveNow, CancelRunningTurn
    <3> QED  BY <2>6, <3>1 DEF CheckTurn, ObserveNow, CancelRunningTurn, InterruptUnchanged
  <2>7. CASE MarkCancelEnqueued(e) \/ MarkCancelFailed(e) \/ Abandon(e)
    <3>1. cmd' \in [Events -> Commands]
      BY <2>1, <2>2, <2>3, <2>7 DEF MarkCancelEnqueued, MarkCancelFailed, Abandon
    <3> QED  BY <2>7, <3>1 DEF MarkCancelEnqueued, MarkCancelFailed, Abandon, InterruptUnchanged
  <2> QED  BY <1>2, <2>4, <2>5, <2>6, <2>7 DEF InterruptStep
<1>3. ASSUME NEW w \in Workers, OnTurnComplete(w) \/ BusLags(w)  PROVE CommandTypeOK'
  BY <1>3 DEF OnTurnComplete, BusLags
<1>4. CASE Base
  <2>1. cmd' \in [Events -> Commands]
    BY <1>4 DEF Base, Lose, Commands
  <2>2. ended' \in [Workers -> BOOLEAN] /\ link' \in [Events -> BOOLEAN] /\ proc' = proc
    BY <1>4 DEF Base, Follow, TurnInFlight
  <2>3. held \in [Workers -> Ids \cup {None}]  BY DEF TypeInv, WorkerTypeOK
  <2>4. turnOf' \in [Workers -> Ids \cup {None}]
    BY <1>4, <2>3 DEF Base, Follow
  <2> QED  BY <2>1, <2>2, <2>4
<1> QED  BY <1>1, <1>2, <1>3, <1>4 DEF InterruptNext, allVars

\* The tables, the workers and the commands of the interrupts stay well typed.
THEOREM InterruptTypeCorrect == InterruptSpec => []InterruptTypeOK
<1> DEFINE Inv == TypeInv /\ CommandTypeOK
<1>1. InterruptInit => Inv
  BY InitType DEF InterruptInit, CommandTypeOK, Commands
<1>2. ASSUME Inv, [InterruptNext]_allVars  PROVE Inv'
  <2>1. TypeInv'  BY <1>2, StepOrOwn, TypeStep, OwnStepTypes
  <2> QED  BY <1>2, <2>1, CommandTypes
<1>3. Inv => InterruptTypeOK
  BY DEF TypeInv, WorkerTypeOK, RuntimeTypeOK, TypeOK, CommandTypeOK, InterruptTypeOK
<1> QED
  <2> HIDE DEF Inv
  <2> QED  BY <1>1, <1>2, <1>3, PTL DEF InterruptSpec

\* An own step moves no id in the ledger and makes or takes back no offer.
LEMMA OwnStepKeepsLedger ==
  ASSUME LedgerInv, OwnStep
  PROVE  UNCHANGED Ledger!ledger
<1>1. TypeInv /\ TypeInv' /\ RowsStay
  BY OwnStepTypes DEF LedgerInv, RowInv, IInv
<1>2. ASSUME NEW i \in Ids  PROVE PlaceOf(i)' = PlaceOf(i) /\ OfferOf(i)' = OfferOf(i)
  <2>1. PlaceOf(i)' = PlaceOf(i)
    BY <1>1, PlaceKept DEF TypeInv, RowsStay, Given
  <2>2. UNCHANGED <<pc, held, handed>>
    BY DEF OwnStep, workerVars, runtimeVars
  <2>3. Handing(i)' <=> Handing(i)  BY <2>2 DEF Handing, Beyond
  <2> QED  BY <2>1, <2>2, <2>3 DEF OfferOf
<1> QED  BY <1>2 DEF Ledger!ledger

\* With interrupts the queue still implements the ledger of its message ids: a
\* message that jumps the queue crosses the dispatch boundary like any other.
THEOREM InterruptKeepsLedger ==
  ASSUME ~LateResends
  PROVE  InterruptSpec => ImplementsLedger
<1>1. InterruptInit => LedgerInv /\ Ledger!Init
  BY RowInvInit, TraceInit, LedgerStarts DEF LedgerInv, InterruptInit
<1>2. LedgerInv /\ [InterruptNext]_allVars => LedgerInv'  BY InterruptKeeps
<1>3. LedgerInv /\ LedgerInv' /\ [InterruptNext]_allVars => [Ledger!Next]_(Ledger!ledger)
  BY StepOrOwn, LedgerMoves, OwnStepKeepsLedger
<1> QED  BY <1>1, <1>2, <1>3, PTL DEF InterruptSpec, ImplementsLedger, Ledger!Spec
===============================================================================
