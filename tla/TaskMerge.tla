------------------------------ MODULE TaskMerge ------------------------------
(* How reviewed tasks of one project folder land on its base branch: the merge *)
(* of work_task/engine.rs.  Clicks, the queue of parked merges and the         *)
(* unattended train share one slot; an agent lands the work, and a settle or a *)
(* recovery reads from git whether it did.                                     *)
EXTENDS TaskRow, Integers, Sequences, FiniteSets

CONSTANTS
  Tasks,         \* numbers: the id breaks ties in the queue
  User,          \* the user, as the owner of what is staged
  Changed,       \* tasks with something to land
  Uncommitted,   \* of those, tasks whose agent may leave its work uncommitted
  Jobs,          \* calls and spawned jobs at one time: numbers
  Conns,         \* agent connections at one time
  Squash,        \* merge_strategy of the folder is "squash", else "merge"
  AutoMerge,     \* auto_merge of the folder
  MaxSeq,        \* bound on the generations of a task
  MaxCommits,    \* bound on commits on the base
  MaxAsks,       \* bound on merges the user asks for
  MaxLost,       \* bound on events dropped and agents that die
  MaxRestarts,   \* bound on restarts
  Sends,         \* results of a prompt that may occur: subset of {"sent", "refused"}
  UserCalls      \* user actions that may occur

TasksAssumption  == Tasks \cup Jobs \subseteq Nat \ {0} /\ Changed \subseteq Tasks
                                                                    /\ Uncommitted \subseteq Changed
FlagsAssumption  == {Squash, AutoMerge} \subseteq BOOLEAN
BoundsAssumption == {MaxSeq, MaxCommits, MaxAsks, MaxLost, MaxRestarts} \subseteq Nat

VARIABLES
  row,       \* row[t]: the work_task row
  state,     \* state[t]: merge_state, reduced to pre_merge_head
  merging,   \* merging: tasks whose dispatch is under way in this process
  lock,      \* the folder lock: its holder, then those who wait
  job, ev,   \* the jobs; the event loop
  index, conn, bus,
  base,      \* the base branch: number of commits, what is on it, what HEAD is
  committed, \* committed[t]: the work is committed to the work branch
  staged,    \* whose changes are staged in the project folder
  asks, lost, restarts

vars == <<row, state, merging, lock, job, ev, index, conn, bus, base, committed,
          staged, asks, lost, restarts>>
git  == <<base, committed, staged>>
acp  == <<index, conn, bus>>
used == <<asks, lost, restarts>>

NoGen == [t |-> 0, seq |-> 0]
NoJob == [kind |-> None, pc |-> "idle", t |-> 0, seq |-> 0, pend |-> None, at |-> None,
          pre |-> 0, c |-> None, res |-> "ok", todo |-> {}, tries |-> 0]
NoEv  == [pc |-> "idle", c |-> None, t |-> 0, seq |-> 0, pre |-> 0, stop |-> None]
Gone  == {"free", "gone"}

Init ==
  /\ row = [t \in Tasks |-> [NewRow EXCEPT !.st = "review", !.seq = 1, !.conv = TRUE, !.wt = TRUE]]
  /\ state = [t \in Tasks |-> 0] /\ merging = {} /\ lock = <<>>
  /\ job = [j \in Jobs |-> NoJob] /\ ev = NoEv
  /\ index = [c \in Conns |-> NoGen] /\ conn = [c \in Conns |-> [s |-> "free", t |-> 0]]
  /\ bus = <<>> /\ base = [head |-> 0, has |-> {}, top |-> 0]
  /\ committed \in [Tasks -> BOOLEAN] /\ (\A t \in Tasks \ Uncommitted : committed[t])
  /\ staged = None /\ asks = 0 /\ lost = 0 /\ restarts = 0

J(j)       == job[j]
Put(t, r)  == row' = [row EXCEPT ![t] = r]
To(j, r)   == job' = [job EXCEPT ![j] = r]
At(j, pc)  == To(j, [J(j) EXCEPT !.pc = pc])
Idle       == {j \in Jobs : job[j].pc = "idle"}
Spawn(r)   == job' = [job EXCEPT ![CHOOSE j \in Idle : TRUE] = r]
Join(x)    == lock' = Append(lock, x)
Holds(x)   == lock # <<>> /\ Head(lock) = x
Leave      == lock' = Tail(lock)
OneMerges  == \E t \in Tasks : In(row[t], {"merging"})
Hangup(c)  == conn' = [conn EXCEPT ![c] = [s |-> "gone", t |-> 0]]

(* The work of an uncommitted task is not on its branch, whose tip is then an  *)
(* old commit of the base.                                                     *)
is_ancestor(t) == ~committed[t] \/ (~Squash /\ t \in base.has)
trees_equal(t) == base.top = t
merge_landed_by_tree(t, pre) == base.head # pre /\ trees_equal(t)   \* faulty: squashes only
merge_landed_commit(t, pre) == base.head # pre /\ (is_ancestor(t) \/ trees_equal(t))
------------------------------------------------------------------------------
(* A merge, from the click, from the queue or from the train.                  *)
Merge(kind, t, claim) == [NoJob EXCEPT !.kind = kind, !.pc = "read", !.t = t, !.pend = claim]

Click(t) ==
  /\ asks < MaxAsks /\ asks' = asks + 1 /\ Idle # {} /\ Spawn(Merge("click", t, None))
  /\ UNCHANGED <<row, state, merging, lock, ev, acp, git, lost, restarts>>

Unqueue(t) ==
  /\ CanUnqueue(row[t]) /\ Put(t, Unqueued(row[t]))
  /\ UNCHANGED <<state, merging, lock, job, ev, acp, git, used>>

(* A follow-up, up to the review that it ends in (see TaskRun), with new work    *)
(* committed or none.                                                          *)
Rework(t) ==
  /\ CanClaim(row[t], "review", FALSE) /\ row[t].seq < MaxSeq /\ t \in Changed
  /\ \A c \in Conns : conn[c].t # t
  /\ Put(t, Settled(Claimed(row[t])))
  /\ \/ UNCHANGED <<base, committed>>
     \/ /\ committed' = [committed EXCEPT ![t] = TRUE]
        /\ base' = [base EXCEPT !.has = @ \ {t}, !.top = IF @ = t THEN 0 ELSE @]
  /\ UNCHANGED <<state, merging, lock, job, ev, acp, staged, used>>

Cancel(t) ==
  /\ CanCancel(row[t]) /\ Put(t, Canceled(row[t]))
  /\ UNCHANGED <<state, merging, lock, job, ev, acp, git, used>>

(* The end of merge_task_inner: the lock is released with its result.          *)
Finish(j, res) == To(j, [J(j) EXCEPT !.pc = "done", !.res = res]) /\ Leave
Missed(j)      == IF J(j).pend = None THEN "benign" ELSE "stale"

MergeRead(j) ==
  LET r == row[J(j).t] IN
  /\ J(j).pc = "read"
  /\ IF In(r, {"review"}) /\ r.seq < MaxSeq
       THEN To(j, [J(j) EXCEPT !.pc = "wait", !.seq = r.seq,
                     !.at = IF @ # None \/ r.pend = None THEN @ ELSE r.pend.at])
       ELSE To(j, [J(j) EXCEPT !.pc = "done", !.res = "benign"])
  /\ UNCHANGED <<row, state, merging, lock, ev, acp, git, used>>

MergeWait(j) ==
  /\ J(j).pc = "wait" /\ At(j, "slot") /\ Join(j)
  /\ UNCHANGED <<row, state, merging, ev, acp, git, used>>

Intent(j) == [at |-> IF J(j).at # None THEN J(j).at ELSE asks, v |-> IF J(j).pend # None THEN J(j).pend.v ELSE asks]
MergeSlotSeenBefore(j) ==          \* faulty: the slot was looked at before the lock
  /\ J(j).pc = "slot" /\ Holds(j) /\ At(j, "check")
  /\ UNCHANGED <<row, lock, state, merging, ev, acp, git, used>>

MergeSlot(j) ==
  LET t == J(j).t IN
  /\ J(j).pc = "slot" /\ Holds(j)
  /\ \/ ~OneMerges /\ At(j, "check") /\ UNCHANGED <<row, lock>>
     \/ OneMerges /\ J(j).kind = "auto" /\ Finish(j, "benign") /\ UNCHANGED row
     \/ /\ OneMerges /\ J(j).kind # "auto" /\ CanQueueMerge(row[t], J(j).seq, J(j).pend)
        /\ Put(t, MergeQueued(row[t], Intent(j))) /\ Finish(j, "ok")
     \/ /\ OneMerges /\ J(j).kind # "auto" /\ ~CanQueueMerge(row[t], J(j).seq, J(j).pend)
        /\ Finish(j, Missed(j)) /\ UNCHANGED row
  /\ UNCHANGED <<state, merging, ev, acp, git, used>>

MergeCheck(j) ==
  /\ J(j).pc = "check"
  /\ IF staged = None THEN To(j, [J(j) EXCEPT !.pc = "enter", !.pre = base.head]) /\ UNCHANGED lock
     ELSE Finish(j, "error")
  /\ UNCHANGED <<row, state, merging, ev, acp, git, used>>

MergeEnter(j) ==
  /\ J(j).pc = "enter" /\ At(j, "begin") /\ merging' = merging \cup {J(j).t}
  /\ UNCHANGED <<row, state, lock, ev, acp, git, used>>

(* The last step of a dispatch: it leaves the set with the lock.               *)
Exit(j, res) == Finish(j, res) /\ merging' = merging \ {J(j).t}

MergeBegin(j) ==
  LET t == J(j).t IN
  /\ J(j).pc = "begin"
  /\ IF CanBeginMerge(row[t], J(j).seq, J(j).kind = "auto", J(j).pend)
       THEN Put(t, MergeBegun(row[t])) /\ state' = [state EXCEPT ![t] = J(j).pre]
            /\ At(j, "spawn") /\ UNCHANGED <<lock, merging>>
       ELSE Exit(j, Missed(j)) /\ UNCHANGED <<row, state>>
  /\ UNCHANGED <<ev, acp, git, used>>

(* back_to_review binds to the status, not to the generation. *)
Back(t) == IF CanGoBack(row[t]) THEN Put(t, BackToReview(row[t])) /\ state' = [state EXCEPT ![t] = 0]
           ELSE UNCHANGED <<row, state>>

(* The launch of the merge generation, see TaskRun.  The session is resumed in  *)
(* the connection that it has, if that is open.  A name of a connection that is *)
(* gone stands for a new one.                                                  *)
Unused(c) == conn[c].s \in Gone /\ \A i \in 1..Len(bus) : bus[i].c # c
MergeSpawn(j) ==
  LET t == J(j).t
      open == {c \in Conns : conn[c].t = t}
  IN
  /\ J(j).pc = "spawn"
  /\ \/ /\ open = {} /\ \E c \in Conns : /\ Unused(c) /\ To(j, [J(j) EXCEPT !.pc = "live", !.c = c])
                                         /\ conn' = [conn EXCEPT ![c] = [s |-> "idle", t |-> t]]
        /\ UNCHANGED <<row, state, lock, merging>>
     \/ /\ \E c \in open : To(j, [J(j) EXCEPT !.pc = "live", !.c = c])
        /\ UNCHANGED <<row, state, lock, merging, conn>>
     \/ "refused" \in Sends /\ Back(t) /\ Exit(j, "error") /\ UNCHANGED conn
  /\ UNCHANGED <<ev, index, bus, git, used>>

(* A launch that finds its row settled meanwhile hangs up and reports success.  *)
MergeLive(j) ==
  LET t == J(j).t
      c == J(j).c
      seq == J(j).seq + 1
  IN
  /\ J(j).pc = "live"
  /\ IF CanMarkMerging(row[t], seq)
       THEN Put(t, MarkedMerging(row[t], c)) /\ At(j, "send")
            /\ index' = [index EXCEPT ![c] = [t |-> t, seq |-> seq]] /\ UNCHANGED <<merging, lock, conn>>
       ELSE index' = [index EXCEPT ![c] = NoGen] /\ Hangup(c) /\ Exit(j, "ok") /\ UNCHANGED row
  /\ UNCHANGED <<state, ev, bus, git, used>>

MergeSend(j) ==
  LET c == J(j).c IN
  /\ J(j).pc = "send"
  /\ \/ /\ "sent" \in Sends /\ conn[c].s = "idle" /\ conn' = [conn EXCEPT ![c].s = "turn"]
        /\ Exit(j, "ok") /\ UNCHANGED <<row, state, index>>
     \/ /\ "refused" \in Sends \/ conn[c].s # "idle"
        /\ index' = [index EXCEPT ![c] = NoGen] /\ Hangup(c)
        /\ Back(J(j).t) /\ Exit(j, "error")
  /\ UNCHANGED <<ev, bus, git, used>>

Dispatch(j) ==
  \/ MergeRead(j) \/ MergeWait(j) \/ MergeSlot(j) \/ MergeCheck(j) \/ MergeEnter(j)
  \/ MergeBegin(j) \/ MergeSpawn(j) \/ MergeLive(j) \/ MergeSend(j)
------------------------------------------------------------------------------
(* The merge pump: the queue first, then the train.  It is started by settles,  *)
(* by fresh reviews and by the reconcile tick, that is, at any time: several may *)
(* run at once, and meet at the slot.                                          *)
MERGE_QUEUE_DRAIN_ATTEMPTS == 3

StartPump ==
  /\ Idle # {}
  /\ \E t \in Tasks : In(row[t], {"review"}) /\ (row[t].pend # None \/ AutoMerge)
  /\ Spawn([NoJob EXCEPT !.kind = "drain", !.pc = "scan"])
  /\ UNCHANGED <<row, state, merging, lock, ev, acp, git, used>>

PumpScan(j) ==
  /\ J(j).pc = "scan"
  /\ IF OneMerges \/ J(j).tries = MERGE_QUEUE_DRAIN_ATTEMPTS THEN To(j, NoJob) ELSE At(j, "list")
  /\ UNCHANGED <<row, state, merging, lock, ev, acp, git, used>>

Parked(t) == In(row[t], {"review"}) /\ row[t].pend # None
PumpList(j) ==
  /\ J(j).pc = "list"
  /\ To(j, [J(j) EXCEPT !.pc = "pick", !.tries = @ + 1,
              !.todo = {[t |-> t, pend |-> row[t].pend, seq |-> row[t].seq] : t \in {u \in Tasks : Parked(u)}}])
  /\ UNCHANGED <<row, state, merging, lock, ev, acp, git, used>>

Before(a, b) == a.pend.at < b.pend.at \/ (a.pend.at = b.pend.at /\ a.t < b.t)
FirstById(S) == CHOOSE a \in S : \A b \in S : a.t <= b.t          \* faulty: not the oldest
First(S)     == CHOOSE a \in S : \A b \in S \ {a} : Before(a, b)

(* The claim of a merge is the exact intent that the scan saw.                 *)
PumpPick(j) ==
  LET a == First(J(j).todo) IN
  /\ J(j).pc = "pick"
  /\ IF J(j).todo = {} THEN To(j, [NoJob EXCEPT !.kind = "auto", !.pc = "train"])
     ELSE To(j, [J(j) EXCEPT !.pc = "read", !.t = a.t, !.seq = a.seq, !.pend = a.pend,
                             !.at = a.pend.at, !.todo = @ \ {a}])
  /\ UNCHANGED <<row, state, merging, lock, ev, acp, git, used>>

PumpDone(j) ==
  /\ J(j).pc = "done"
  /\ CASE J(j).kind = "drain" /\ J(j).res = "stale"  -> At(j, "scan")
       [] J(j).kind = "drain" /\ J(j).res = "benign" -> At(j, "pick")
       [] J(j).kind = "drain" /\ J(j).res = "error"  -> At(j, "refuse")
       [] J(j).kind = "auto"  /\ J(j).res = "error"  -> At(j, "banner")
       [] OTHER -> To(j, NoJob)
  /\ UNCHANGED <<row, state, merging, lock, ev, acp, git, used>>

PumpRefuseKeeps(j) ==              \* faulty: the refused merge stays queued
  /\ J(j).pc = "refuse" /\ At(j, "banner")
  /\ UNCHANGED <<row, state, merging, lock, ev, acp, git, used>>

PumpRefuse(j) ==
  LET t == J(j).t IN
  /\ J(j).pc = "refuse"
  /\ IF CanClearQueued(row[t], J(j).pend) THEN Put(t, Unqueued(row[t])) /\ At(j, "banner")
     ELSE UNCHANGED row /\ At(j, "scan")
  /\ UNCHANGED <<state, merging, lock, ev, acp, git, used>>

PumpBanner(j) ==
  LET t == J(j).t IN
  /\ J(j).pc = "banner" /\ To(j, NoJob)
  /\ IF CanSetError(row[t], J(j).seq) THEN Put(t, WithError(row[t])) ELSE UNCHANGED row
  /\ UNCHANGED <<state, merging, lock, ev, acp, git, used>>

auto_merge_candidate(r) == In(r, {"review"}) /\ ~r.err /\ r.pend = None
Trains == {t \in Changed : auto_merge_candidate(row[t])}
PumpTrain(j) ==
  /\ J(j).pc = "train"
  /\ \/ (OneMerges \/ ~AutoMerge \/ Trains = {}) /\ To(j, NoJob)
     \/ ~OneMerges /\ AutoMerge /\ \E t \in Trains : To(j, Merge("auto", t, None))
  /\ UNCHANGED <<row, state, merging, lock, ev, acp, git, used>>

Pump(j) ==
  \/ PumpScan(j) \/ PumpList(j) \/ PumpPick(j) \/ PumpDone(j) \/ PumpRefuse(j)
  \/ PumpBanner(j) \/ PumpTrain(j)
------------------------------------------------------------------------------
(* What settles a merge: its landing is done, anything else goes back to review *)
(* once the project folder is clean.                                           *)
Land(t)  == IF CanLand(row[t]) THEN Put(t, Landed(row[t])) ELSE UNCHANGED row
Bounce(t) == staged' = None /\ Back(t)

(* The event loop takes the end of a turn.                                     *)
EvPop ==
  LET e == Head(bus)
      g == index[e.c]
  IN
  /\ ev.pc = "idle" /\ bus # <<>> /\ bus' = Tail(bus)
  /\ IF g = NoGen THEN UNCHANGED <<ev, index, conn>>
     ELSE /\ ev' = [NoEv EXCEPT !.pc = "read", !.c = e.c, !.t = g.t, !.seq = g.seq, !.stop = e.stop]
          /\ index' = [index EXCEPT ![e.c] = NoGen] /\ Hangup(e.c)
  /\ UNCHANGED <<row, state, merging, lock, job, git, used>>

EvRead ==
  LET t == ev.t IN
  /\ ev.pc = "read"
  /\ IF Is(row[t], {"merging"}, ev.seq)
       THEN ev' = [ev EXCEPT !.pc = "wait", !.pre = state[t]] /\ UNCHANGED row
       ELSE /\ ev' = NoEv
            /\ IF ev.stop = "cancelled" /\ CanCancel(row[t]) THEN Put(t, Canceled(row[t])) ELSE UNCHANGED row
  /\ UNCHANGED <<state, merging, lock, job, acp, git, used>>

EvWait ==
  /\ ev.pc = "wait" /\ ev' = [ev EXCEPT !.pc = "judge"] /\ Join(0)
  /\ UNCHANGED <<row, state, merging, job, acp, git, used>>

EvJudge ==
  /\ ev.pc = "judge" /\ Holds(0)
  /\ ev' = [ev EXCEPT !.pc = IF merge_landed_commit(ev.t, ev.pre) THEN "land" ELSE "bounce"]
  /\ UNCHANGED <<row, state, merging, lock, job, acp, git, used>>

EvSettle ==
  /\ ev.pc \in {"land", "bounce"} /\ ev' = NoEv /\ Leave
  /\ \/ ev.pc = "land" /\ Land(ev.t) /\ UNCHANGED <<state, staged>>
     \/ ev.pc = "bounce" /\ Bounce(ev.t)
  /\ UNCHANGED <<merging, job, acp, base, committed, used>>

Event == EvPop \/ EvRead \/ EvWait \/ EvJudge \/ EvSettle

(* Recovery, spawned by the reconcile tick for every row it lists as merging.  *)
Recovers(t) == \E j \in Jobs : job[j].kind = "recover" /\ job[j].t = t
StartRecover(t) ==
  /\ Idle # {} /\ In(row[t], {"merging"}) /\ ~Recovers(t)     \* bound: one of a task
  /\ Spawn([NoJob EXCEPT !.kind = "recover", !.pc = "rcheck", !.t = t])
  /\ UNCHANGED <<row, state, merging, lock, ev, acp, git, used>>

RecoverUnchecked(j) ==             \* faulty: a dispatch under way does not stop it
  /\ J(j).pc = "rcheck" /\ At(j, "rread")
  /\ UNCHANGED <<row, state, merging, lock, ev, acp, git, used>>

RecoverCheck(j) ==
  /\ J(j).pc = "rcheck"
  /\ IF J(j).t \in merging THEN To(j, NoJob) ELSE At(j, "rread")
  /\ UNCHANGED <<row, state, merging, lock, ev, acp, git, used>>

RecoverRead(j) ==
  LET r == row[J(j).t] IN
  /\ J(j).pc = "rread"
  /\ IF In(r, {"merging"})
       THEN To(j, [J(j) EXCEPT !.pc = "rconn", !.seq = r.seq, !.c = r.conn, !.pre = state[J(j).t]])
       ELSE To(j, NoJob)
  /\ UNCHANGED <<row, state, merging, lock, ev, acp, git, used>>

RecoverTrustsRow(j) ==             \* faulty: a recorded connection counts as a live one
  /\ J(j).pc = "rconn" /\ (IF J(j).c # None THEN To(j, NoJob) ELSE At(j, "rwait"))
  /\ UNCHANGED <<row, state, merging, lock, ev, acp, git, used>>

RecoverConn(j) ==
  /\ J(j).pc = "rconn"
  /\ IF \E c \in Conns : c = J(j).c /\ conn[c].s \notin Gone /\ conn[c].t = J(j).t THEN To(j, NoJob) ELSE At(j, "rwait")
  /\ UNCHANGED <<row, state, merging, lock, ev, acp, git, used>>

RecoverWait(j) ==
  /\ J(j).pc = "rwait" /\ At(j, "rlook") /\ Join(j)
  /\ UNCHANGED <<row, state, merging, ev, acp, git, used>>

RecoverLook(j) ==
  LET t == J(j).t IN
  /\ J(j).pc = "rlook" /\ Holds(j)
  /\ IF Is(row[t], {"merging"}, J(j).seq)
       THEN At(j, IF merge_landed_commit(t, J(j).pre) THEN "rland" ELSE "rbounce") /\ UNCHANGED lock
       ELSE To(j, NoJob) /\ Leave
  /\ UNCHANGED <<row, state, merging, ev, acp, git, used>>

RecoverSettle(j) ==
  /\ J(j).pc \in {"rland", "rbounce"} /\ To(j, NoJob) /\ Leave
  /\ \/ J(j).pc = "rland" /\ Land(J(j).t) /\ UNCHANGED <<state, staged>>
     \/ J(j).pc = "rbounce" /\ Bounce(J(j).t)
  /\ UNCHANGED <<merging, ev, acp, base, committed, used>>

Recover(j) ==
  \/ RecoverCheck(j) \/ RecoverRead(j) \/ RecoverConn(j) \/ RecoverWait(j)
  \/ RecoverLook(j) \/ RecoverSettle(j)
------------------------------------------------------------------------------
(* A task with nothing to land is completed instead.                           *)
StartComplete(t) ==
  /\ Idle # {} /\ In(row[t], {"review"})
  /\ Spawn([NoJob EXCEPT !.kind = "complete", !.pc = "cwait", !.t = t])
  /\ UNCHANGED <<row, state, merging, lock, ev, acp, git, used>>

CompleteWait(j) ==
  /\ J(j).pc = "cwait" /\ At(j, "ccheck") /\ Join(j)
  /\ UNCHANGED <<row, state, merging, ev, acp, git, used>>

CompleteUnchecked(j) ==            \* faulty: whatever there is to land
  /\ J(j).pc = "ccheck" /\ Holds(j) /\ At(j, "complete")
  /\ UNCHANGED <<row, state, merging, lock, ev, acp, git, used>>

CompleteCheck(j) ==
  /\ J(j).pc = "ccheck" /\ Holds(j)
  /\ IF J(j).t \in Changed THEN To(j, NoJob) /\ Leave ELSE At(j, "complete") /\ UNCHANGED lock
  /\ UNCHANGED <<row, state, merging, ev, acp, git, used>>

CompleteWrite(j) ==
  LET t == J(j).t IN
  /\ J(j).pc = "complete" /\ To(j, NoJob) /\ Leave
  /\ IF CanComplete(row[t]) THEN Put(t, Completed(row[t])) ELSE UNCHANGED row
  /\ UNCHANGED <<state, merging, ev, acp, git, used>>

Complete(j) == CompleteWait(j) \/ CompleteCheck(j) \/ CompleteWrite(j)
------------------------------------------------------------------------------
(* The agent of a merge, told to commit, to stage its landing and to land it,   *)
(* and the user at work in the project folder.                                 *)
AgentStep(c) ==
  LET t == conn[c].t IN
  /\ conn[c].s = "turn"
  /\ \/ ~committed[t] /\ committed' = [committed EXCEPT ![t] = TRUE] /\ UNCHANGED <<base, staged>>
     \/ committed[t] /\ t \in Changed /\ staged = None /\ t \notin base.has
        /\ staged' = t /\ UNCHANGED <<base, committed>>
     \/ /\ staged = t /\ staged' = None /\ base.head < MaxCommits
        /\ base' = [head |-> base.head + 1, has |-> base.has \cup {t}, top |-> t]
        /\ UNCHANGED committed
  /\ UNCHANGED <<row, state, merging, lock, job, ev, acp, used>>

AgentEnd(c) ==
  /\ conn[c].s = "turn" /\ conn' = [conn EXCEPT ![c].s = "idle"]
  /\ \E stop \in {"end_turn", "cancelled"} : bus' = Append(bus, [c |-> c, stop |-> stop])
  /\ UNCHANGED <<row, state, merging, lock, job, ev, index, git, used>>

AgentDies(c) ==
  /\ conn[c].s = "turn" /\ lost < MaxLost /\ lost' = lost + 1 /\ Hangup(c)
  /\ UNCHANGED <<row, state, merging, lock, job, ev, index, bus, git, asks, restarts>>

BusLags ==
  /\ bus # <<>> /\ lost < MaxLost /\ lost' = lost + 1 /\ bus' = Tail(bus)
  /\ UNCHANGED <<row, state, merging, lock, job, ev, index, conn, git, asks, restarts>>

IdleSweep(c) ==
  /\ conn[c].s = "idle" /\ Hangup(c) /\ \A j \in Jobs : job[j].c = c => job[j].kind = "recover"
  /\ UNCHANGED <<row, state, merging, lock, job, ev, index, bus, git, used>>

UserCommits ==
  /\ staged \in {None, User} /\ base.head < MaxCommits /\ staged' = None
  /\ base' = [base EXCEPT !.head = @ + 1, !.top = 0]
  /\ UNCHANGED <<row, state, merging, lock, job, ev, acp, committed, used>>

UserStages ==
  /\ staged = None /\ staged' = User
  /\ UNCHANGED <<row, state, merging, lock, job, ev, acp, base, committed, used>>

(* Of a restart the rows and git stay; the boot recovers what is merging.      *)
Restart ==
  /\ restarts < MaxRestarts /\ restarts' = restarts + 1
  /\ merging' = {} /\ lock' = <<>> /\ job' = [j \in Jobs |-> NoJob] /\ ev' = NoEv
  /\ index' = [c \in Conns |-> NoGen] /\ conn' = [c \in Conns |-> [s |-> "free", t |-> 0]]
  /\ bus' = <<>>
  /\ UNCHANGED <<row, state, git, asks, lost>>
------------------------------------------------------------------------------
UserStep == \E t \in Tasks :
  \/ "click" \in UserCalls /\ Click(t)
  \/ "unqueue" \in UserCalls /\ Unqueue(t)
  \/ "rework" \in UserCalls /\ Rework(t)
  \/ "cancel" \in UserCalls /\ Cancel(t)
  \/ "complete" \in UserCalls /\ StartComplete(t)

Job(j) == Dispatch(j) \/ Pump(j) \/ Recover(j) \/ Complete(j)
Git    == ("commit" \in UserCalls /\ UserCommits) \/ ("stage" \in UserCalls /\ UserStages)
Agent(c) == AgentStep(c) \/ AgentEnd(c) \/ AgentDies(c) \/ IdleSweep(c)

Next ==
  \/ UserStep \/ Git \/ StartPump \/ Event \/ BusLags \/ Restart
  \/ \E t \in Tasks : StartRecover(t)
  \/ \E j \in Jobs : Job(j)
  \/ \E c \in Conns : Agent(c)

Spec == Init /\ [][Next]_vars

(* Spawned jobs, the event loop and the ticks go on; an agent ends its turn in  *)
(* the end, and the idle sweep takes its connection.                           *)
Fairness ==
  /\ WF_vars(Event) /\ \A j \in Jobs : WF_vars(Job(j))
  /\ \A t \in Tasks : SF_vars(StartRecover(t))
  /\ SF_vars(StartPump)
  /\ \A c \in Conns : WF_vars(AgentEnd(c)) /\ WF_vars(IdleSweep(c))
FairSpec == Spec /\ Fairness
------------------------------------------------------------------------------
TypeOK ==
  /\ row \in [Tasks -> [st : {"review", "merging", "done", "canceled"}, seq : 1..MaxSeq, err : BOOLEAN,
                         verdict : {None}, plan : {None},
                         pend : {None} \cup [at : 1..MaxAsks, v : 1..MaxAsks], light : {None},
                         conn : Conns \cup {None}, conv : BOOLEAN, wt : BOOLEAN, arch : {FALSE}, del : {FALSE}]]
  /\ state \in [Tasks -> 0..MaxCommits] /\ merging \subseteq Tasks
  /\ lock \in Seq(Jobs \cup {0}) /\ base.head \in 0..MaxCommits /\ base.has \subseteq Changed
  /\ committed \in [Tasks -> BOOLEAN] /\ staged \in {None, User} \cup Tasks
  /\ \A j \in Jobs : job[j].pend = None \/ job[j].pend.v \in 1..MaxAsks
  /\ \A t \in Tasks : row[t].pend # None => row[t].st = "review"

(* One landing at a time in a project folder, whoever asks for it: clicks, the  *)
(* parked merges and the train meet under the folder lock, and a merge that     *)
(* bounces, is recovered or is refused gives the slot back first.               *)
OneMergePerFolder == \A t, u \in Tasks :
  In(row[t], {"merging"}) /\ In(row[u], {"merging"}) => t = u

(* A task is done only when its work is on the base: the settle and the recovery *)
(* trust git, the complete button is for a task with nothing to land.           *)
DoneMeansLanded == \A t \in Changed : row[t].st = "done" => t \in base.has

(* A merge whose agent is in its turn is not sent back to review: the end of     *)
(* that turn settles it, recovery is for merges that lost their process.        *)
Working(t)    == \E c \in Conns : conn[c] = [s |-> "turn", t |-> t]
Bounces(t)    == row[t].st = "merging" /\ row'[t].st = "review"
LiveMergeKept == \A t \in Tasks : Bounces(t) => ~Working(t)

(* Work that the merge put on the base is recognised: it is never sent back to   *)
(* review as if it had not landed.                                             *)
LandedIsSeen  == \A t \in Tasks : Bounces(t) => t \notin base.has

(* What the user staged in the project folder goes only when the user commits:   *)
(* the cleaning is for the residue of a half-done landing.                     *)
UserStagedKept == staged = User => staged' = User \/ base'.head > base.head

(* The pump dispatches the merges that the user queued in the order in which they *)
(* were asked for: none that is older stays parked behind the one that starts.    *)
OldestFirst == \A t, u \in Tasks, j \in Jobs :
  /\ J(j).kind = "drain" /\ J(j).pc = "begin" /\ J(j).t = t /\ row'[t].st = "merging"
  /\ Parked(u) /\ u # t
  => Before([t |-> t, pend |-> J(j).pend], [t |-> u, pend |-> row[u].pend])

(* The unattended train tries a task once: a merge that failed, was refused or was *)
(* interrupted waits for the user, so that a hopeless landing is not looped over.  *)
TrainTriesOnce == \A t \in Tasks : row[t].seq <= 2 + asks

(* No merge is under way and none is queued: an agent that dies, an event that is *)
(* dropped and a restart leave a row that recovery finds, and a queued merge is   *)
(* dispatched, refused or withdrawn.                                            *)
NoneMerging == \A t \in Tasks : ~In(row[t], {"merging"}) /\ ~Parked(t)
=============================================================================
