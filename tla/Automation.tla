----------------------------- MODULE Automation -----------------------------
(* The automation engine (automation/engine.rs) over its rows                 *)
(* (db/service/automation_service.rs): fires by the schedule and by hand, the *)
(* launch of a run, its settlement by the event loop, the reconcile tick, a   *)
(* cancel or the boot, and the writer that keeps the status of a conversation *)
(* (acp/lifecycle.rs).                                                        *)
EXTENDS Integers, Sequences, FiniteSets

CONSTANTS
  None,          \* an absent column
  Autos,         \* automations
  PerRunTree,    \* automations with a worktree per run, the others share the root
  Fires, Cancels,\* calls at one time: disjoint sets of numbers, none is 0
  Conns,         \* agent connections at one time
  MaxRuns,       \* bound on run rows
  MaxNow,        \* bound on the clock; a slot of every schedule falls on every tick
  MaxLost,       \* bound on events dropped and agents that die
  MaxRestarts,   \* bound on restarts
  MaxEdits,      \* bound on edits of a schedule
  Fails,         \* steps of a launch that may fail: subset of {"env", "spawn", "send"}
  Stops          \* reasons a turn may end with: subset of {"end_turn", "refusal", "cancelled"}

CallsAssumption  == Fires \cap Cancels = {} /\ Fires \cup Cancels \subseteq Nat \ {0}
AutosAssumption  == PerRunTree \subseteq Autos
BoundsAssumption == {MaxRuns, MaxNow, MaxLost, MaxRestarts, MaxEdits} \subseteq Nat

VARIABLES
  auto,      \* auto[a]: the automation row: its next slot, and the status it shows
  run,       \* the run rows, in order of their ids
  conv,      \* conv[r]: status of the conversation a run produced, None before it has one
  tree,      \* runs a worktree was added for
  lock,      \* lock[a]: the fire lock: its holder, then those who wait
  job,       \* fires and cancels under way
  loop,      \* the engine loop
  index,     \* index[c]: the run a connection is tracked for, 0 if none
  conn,      \* conn[c]: its state, and the run whose conversation it is linked to
  bus,       \* ends of turns on their way to the engine
  inbox,     \* inbox[c]: what the lifecycle worker of a connection has to handle
  edit,      \* an edit of a schedule between its read and its write
  now, lost, restarts, edits

vars  == <<auto, run, conv, tree, lock, job, loop, index, conn, bus, inbox, edit,
           now, lost, restarts, edits>>
rows  == <<auto, run, conv, tree>>
acp   == <<index, conn, bus, inbox>>
used  == <<now, lost, restarts, edits>>

NoJob  == [pc |-> "idle", a |-> None, r |-> 0, c |-> None, slot |-> None]
NoLoop == [pc |-> "idle", r |-> 0, c |-> None, as |-> None, todo |-> {}, owned |-> {}]
Closed == [s |-> "gone", r |-> 0]

Init ==
  /\ auto = [a \in Autos |-> [next |-> 1, last |-> None]] /\ run = <<>>
  /\ conv = <<>> /\ tree = {} /\ lock = [a \in Autos |-> <<>>]
  /\ job = [j \in Fires \cup Cancels |-> NoJob] /\ loop = NoLoop
  /\ index = [c \in Conns |-> 0] /\ conn = [c \in Conns |-> Closed] /\ bus = <<>>
  /\ inbox = [c \in Conns |-> <<>>] /\ edit = None
  /\ now = 0 /\ lost = 0 /\ restarts = 0 /\ edits = 0

J(j)        == job[j]
To(j, r)    == job' = [job EXCEPT ![j] = r]
At(j, pc)   == To(j, [J(j) EXCEPT !.pc = pc])
Join(j)     == lock' = [lock EXCEPT ![J(j).a] = Append(@, j)]
Unserialized(j) == lock[J(j).a] # <<>> /\ j # 0
Holds(j)    == lock[J(j).a] # <<>> /\ Head(lock[J(j).a]) = j
Return(j)   == To(j, NoJob) /\ lock' = [lock EXCEPT ![J(j).a] = Tail(@)]
Running(r)  == run[r].st = "running"
Live(c)     == conn[c].s # "gone"
Working(r)  == \E c \in Conns : conn[c] = [s |-> "turn", r |-> r]
has_active_run(a) == \E r \in DOMAIN run : run[r].a = a /\ Running(r)

(* Only a running row is settled; the outcome goes to the automation as well.  *)
settle_run(r, st) ==
  /\ run' = [run EXCEPT ![r].st = IF Running(r) THEN st ELSE @]
  /\ auto' = IF ~Running(r) THEN auto
             ELSE [auto EXCEPT ![run[r].a].last = st]

(* A connection leaves the map at once; its worker hears of it later.          *)
disconnect(c) ==
  /\ conn' = [conn EXCEPT ![c] = Closed]
  /\ inbox' = [inbox EXCEPT ![c] = IF Live(c) /\ conn[c].r # 0 THEN Append(@, [k |-> "down", r |-> conn[c].r]) ELSE @]
Untrack(c) == index' = [index EXCEPT ![c] = 0]
------------------------------------------------------------------------------
(* A fire, by hand or for a slot of the schedule; each will add a row.          *)
Rowless == {f \in Fires : J(f).pc \in {"wait", "look", "start"}}
Fire(a, slot) == \E f \in Fires :
  /\ J(f).pc = "idle" /\ Len(run) + Cardinality(Rowless) < MaxRuns
  /\ To(f, [NoJob EXCEPT !.pc = "wait", !.a = a, !.slot = slot])

automation_run_now(a) ==
  /\ Fire(a, None)
  /\ UNCHANGED <<rows, lock, loop, acp, edit, used>>

FireWait(f) ==
  /\ J(f).pc = "wait" /\ Join(f) /\ At(f, "look")
  /\ UNCHANGED <<rows, loop, acp, edit, used>>

RowUnslotted(f, st) == [a |-> J(f).a, st |-> st, slot |-> IF st = "skipped" THEN None ELSE J(f).slot,
                        conv |-> FALSE, conn |-> None, wt |-> FALSE]
Row(f, st) == [a |-> J(f).a, st |-> st, slot |-> J(f).slot, conv |-> FALSE, conn |-> None, wt |-> FALSE]
NewRun(f, st) == /\ run' = Append(run, Row(f, st)) /\ conv' = Append(conv, None)
FireLook(f) ==
  /\ J(f).pc = "look" /\ Holds(f)
  /\ \/ has_active_run(J(f).a) /\ NewRun(f, "skipped") /\ Return(f)
     \/ ~has_active_run(J(f).a) /\ At(f, "start") /\ UNCHANGED <<run, conv, lock>>
  /\ UNCHANGED <<auto, tree, loop, acp, edit, used>>

FireStart(f) ==
  /\ J(f).pc = "start" /\ NewRun(f, "running")
  /\ To(f, [J(f) EXCEPT !.pc = "show", !.r = Len(run) + 1])
  /\ UNCHANGED <<auto, tree, lock, loop, acp, edit, used>>

FireShow(f) ==
  /\ J(f).pc = "show" /\ auto' = [auto EXCEPT ![J(f).a].last = "running"] /\ At(f, "tree")
  /\ UNCHANGED <<run, conv, tree, lock, loop, acp, edit, used>>

LaunchTree(f) ==
  /\ J(f).pc = "tree" /\ At(f, "env")
  /\ tree' = IF J(f).a \in PerRunTree THEN tree \cup {J(f).r} ELSE tree
  /\ UNCHANGED <<auto, run, conv, lock, loop, acp, edit, used>>

LaunchEnv(f) ==
  /\ J(f).pc = "env"
  /\ \/ At(f, "gate") \/ ("env" \in Fails /\ At(f, "fail"))
  /\ UNCHANGED <<rows, lock, loop, acp, edit, used>>

(* The worktree of a run that was canceled is still linked to it.              *)
LaunchGateKeepsLock(f) ==
  /\ J(f).pc = "gate" /\ UNCHANGED <<rows, lock, loop, acp, edit, used>>
  /\ IF Running(J(f).r) THEN At(f, "spawn") ELSE To(f, NoJob)
LaunchGate(f) ==
  LET r == J(f).r IN
  /\ J(f).pc = "gate"
  /\ IF Running(r) THEN At(f, "spawn") /\ UNCHANGED <<run, lock>>
     ELSE Return(f) /\ run' = [run EXCEPT ![r].wt = r \in tree]
  /\ UNCHANGED <<auto, conv, tree, loop, acp, edit, used>>

(* The name of a connection that is gone stands for a new one.                 *)
Unused(c) == /\ ~Live(c) /\ index[c] = 0 /\ inbox[c] = <<>> /\ c \notin loop.owned
             /\ loop.c # c /\ (\A j \in DOMAIN job : J(j).c # c) /\ \A i \in DOMAIN bus : bus[i].c # c
LaunchSpawn(f) ==
  /\ J(f).pc = "spawn"
  /\ \/ \E c \in Conns : /\ Unused(c) /\ conn' = [conn EXCEPT ![c] = [s |-> "idle", r |-> 0]]
                         /\ To(f, [J(f) EXCEPT !.pc = "conv", !.c = c])
     \/ "spawn" \in Fails /\ At(f, "fail") /\ UNCHANGED conn
  /\ UNCHANGED <<rows, lock, loop, index, bus, inbox, edit, used>>

LaunchConv(f) ==
  /\ J(f).pc = "conv" /\ conv' = [conv EXCEPT ![J(f).r] = "in_progress"] /\ At(f, "index")
  /\ UNCHANGED <<auto, run, tree, lock, loop, acp, edit, used>>

LaunchIndex(f) ==
  /\ J(f).pc = "index" /\ index' = [index EXCEPT ![J(f).c] = J(f).r] /\ At(f, "attach")
  /\ UNCHANGED <<rows, lock, loop, conn, bus, inbox, edit, used>>

LaunchAttach(f) ==
  LET r == J(f).r IN
  /\ J(f).pc = "attach" /\ At(f, "last")
  /\ run' = [run EXCEPT ![r].conv = TRUE, ![r].conn = J(f).c, ![r].wt = r \in tree]
  /\ UNCHANGED <<auto, conv, tree, lock, loop, acp, edit, used>>

LaunchLastKeepsConv(f) ==
  /\ J(f).pc = "last"
  /\ IF Running(J(f).r) THEN At(f, "send") /\ UNCHANGED <<lock, index, conn, inbox>>
     ELSE Return(f) /\ Untrack(J(f).c) /\ disconnect(J(f).c)
  /\ UNCHANGED <<rows, loop, bus, edit, used>>
LaunchLast(f) ==
  LET c == J(f).c
      r == J(f).r
  IN
  /\ J(f).pc = "last"
  /\ IF Running(r) THEN At(f, "send") /\ UNCHANGED <<conv, lock, index, conn, inbox>>
     ELSE Return(f) /\ Untrack(c) /\ disconnect(c) /\ conv' = [conv EXCEPT ![r] = "cancelled"]
  /\ UNCHANGED <<auto, run, tree, loop, bus, edit, used>>

LaunchSend(f) ==
  LET c == J(f).c
      r == J(f).r
  IN
  /\ J(f).pc = "send"
  /\ \/ /\ conn[c].s = "idle" /\ conn' = [conn EXCEPT ![c] = [s |-> "turn", r |-> r]]
        /\ conv' = [conv EXCEPT ![r] = "in_progress"] /\ Return(f) /\ UNCHANGED <<index, inbox>>
     \/ /\ "send" \in Fails \/ ~Live(c)
        /\ Untrack(c) /\ disconnect(c) /\ conv' = [conv EXCEPT ![r] = "cancelled"]
        /\ At(f, "fail") /\ UNCHANGED lock
  /\ UNCHANGED <<auto, run, tree, loop, bus, edit, used>>

FireFail(f) ==
  /\ J(f).pc = "fail" /\ settle_run(J(f).r, "failed") /\ Return(f)
  /\ UNCHANGED <<conv, tree, loop, acp, edit, used>>

run_automation(f) ==
  \/ FireWait(f) \/ FireLook(f) \/ FireStart(f) \/ FireShow(f) \/ LaunchTree(f) \/ LaunchEnv(f)
  \/ LaunchGate(f) \/ LaunchSpawn(f) \/ LaunchConv(f) \/ LaunchIndex(f) \/ LaunchAttach(f)
  \/ LaunchLast(f) \/ LaunchSend(f) \/ FireFail(f)
------------------------------------------------------------------------------
(* A cancel settles the run first, if it runs, and takes the fire lock for the  *)
(* rest.                                                                       *)
automation_cancel_run(k, r) ==
  /\ J(k).pc = "idle" /\ settle_run(r, "cancelled")
  /\ To(k, [NoJob EXCEPT !.pc = "wait", !.a = run[r].a, !.r = r])
  /\ UNCHANGED <<conv, tree, lock, loop, acp, edit, used>>

CancelWait(k) ==
  /\ J(k).pc = "wait" /\ Join(k) /\ At(k, "find")
  /\ UNCHANGED <<rows, loop, acp, edit, used>>

CancelFindNone(k) ==
  /\ J(k).pc = "find" /\ Holds(k) /\ At(k, "conv") /\ UNCHANGED <<rows, lock, loop, acp, edit, used>>
CancelFind(k) ==
  LET at == {c \in Conns : index[c] = J(k).r} IN
  /\ J(k).pc = "find" /\ Holds(k)
  /\ IF at = {} THEN At(k, "conv") ELSE \E c \in at : To(k, [J(k) EXCEPT !.pc = "stop", !.c = c])
  /\ UNCHANGED <<rows, lock, loop, acp, edit, used>>

Cancelled(r) == conv' = [conv EXCEPT ![r] = IF @ = "in_progress" THEN "cancelled" ELSE @]

(* A live connection is told to stop, and its conversation is marked.          *)
CancelStop(k) ==
  LET c == J(k).c IN
  /\ J(k).pc = "stop" /\ At(k, "drop")
  /\ IF Live(c) /\ conn[c].r # 0 THEN Cancelled(conn[c].r) ELSE UNCHANGED conv
  /\ UNCHANGED <<auto, run, tree, lock, loop, acp, edit, used>>

CancelDrop(k) ==
  /\ J(k).pc = "drop" /\ Untrack(J(k).c) /\ disconnect(J(k).c) /\ At(k, "conv")
  /\ UNCHANGED <<rows, lock, loop, bus, edit, used>>

CancelConv(k) ==
  /\ J(k).pc = "conv" /\ Return(k)
  /\ IF run[J(k).r].conv THEN Cancelled(J(k).r) ELSE UNCHANGED conv
  /\ UNCHANGED <<auto, run, tree, loop, acp, edit, used>>

cancel_run(k) == CancelWait(k) \/ CancelFind(k) \/ CancelStop(k) \/ CancelDrop(k) \/ CancelConv(k)
------------------------------------------------------------------------------
(* The engine loop does one thing at a time: an event, a reconcile pass, the   *)
(* schedule.                                                                   *)
outcome(stop) == CASE stop = "end_turn" -> "succeeded" [] stop = "cancelled" -> "cancelled" [] OTHER -> "failed"

EventTake ==
  LET e == Head(bus) IN
  /\ loop.pc = "idle" /\ bus # <<>> /\ bus' = Tail(bus)
  /\ loop' = IF index[e.c] = 0 THEN loop
             ELSE [loop EXCEPT !.pc = "settle", !.r = index[e.c], !.c = e.c, !.as = outcome(e.stop)]
  /\ UNCHANGED <<rows, lock, job, index, conn, inbox, edit, used>>

EventSettle ==
  /\ loop.pc = "settle" /\ settle_run(loop.r, loop.as) /\ loop' = [loop EXCEPT !.pc = "drop"]
  /\ UNCHANGED <<conv, tree, lock, job, acp, edit, used>>

EventDrop ==
  /\ loop.pc = "drop" /\ Untrack(loop.c) /\ disconnect(loop.c) /\ loop' = NoLoop
  /\ UNCHANGED <<rows, lock, job, bus, edit, used>>

ReconcileList ==
  /\ loop.pc = "idle" /\ \E r \in DOMAIN run : Running(r)
  /\ loop' = [loop EXCEPT !.pc = "owned",
                !.todo = {[r |-> r, conv |-> run[r].conv] : r \in {x \in DOMAIN run : Running(x)}}]
  /\ UNCHANGED <<rows, lock, job, acp, edit, used>>

ReconcileOwned ==
  /\ loop.pc = "owned"
  /\ loop' = [loop EXCEPT !.pc = "pick", !.owned = {c \in Conns : \E x \in loop.todo : index[c] = x.r}]
  /\ UNCHANGED <<rows, lock, job, acp, edit, used>>

(* A run with a live connection is left alone; a run that is not tracked is     *)
(* settled by a conversation that has ended, and else in its first hours left.  *)
Judged(x, lostWorker) == CASE x.conv /\ conv[x.r] = "pending_review" -> "succeeded"
                           [] x.conv /\ conv[x.r] = "cancelled"      -> "failed"
                           [] OTHER                                  -> lostWorker
ReconcilePickTracked == \E x \in loop.todo :
  LET mine == {c \in loop.owned : index[c] = x.r} IN
  /\ loop.pc = "pick"
  /\ loop' = IF mine # {} THEN [loop EXCEPT !.todo = @ \ {x}]
             ELSE [loop EXCEPT !.todo = @ \ {x}, !.pc = "judged", !.r = x.r, !.c = None, !.as = Judged(x, None)]
  /\ UNCHANGED <<rows, lock, job, acp, edit, used>>
ReconcilePick == \E x \in loop.todo :
  LET mine == {c \in loop.owned : index[c] = x.r} IN
  /\ loop.pc = "pick"
  /\ loop' = IF \E c \in mine : Live(c) THEN [loop EXCEPT !.todo = @ \ {x}]
             ELSE [loop EXCEPT !.todo = @ \ {x}, !.pc = "judged", !.r = x.r,
                     !.c  = IF mine = {} THEN None ELSE CHOOSE c \in mine : TRUE,
                     !.as = Judged(x, IF mine = {} THEN None ELSE "failed")]
  /\ UNCHANGED <<rows, lock, job, acp, edit, used>>

ReconcileSettle ==
  /\ loop.pc = "judged" /\ loop' = [loop EXCEPT !.pc = "pick"]
  /\ IF loop.as # None THEN settle_run(loop.r, loop.as) ELSE UNCHANGED <<run, auto>>
  /\ IF loop.c # None THEN Untrack(loop.c) ELSE UNCHANGED index
  /\ UNCHANGED <<conv, tree, lock, job, conn, bus, inbox, edit, used>>

ReconcileEnd ==
  /\ loop.pc = "pick" /\ loop.todo = {} /\ loop' = NoLoop
  /\ UNCHANGED <<rows, lock, job, acp, edit, used>>

(* The claim of a slot moves the schedule past now: slots missed are not made   *)
(* up for.                                                                     *)
Due(a) == auto[a].next # None /\ auto[a].next <= now
claim_due_keeps(a) ==
  /\ loop.pc = "idle" /\ Due(a) /\ Fire(a, auto[a].next) /\ UNCHANGED <<rows, lock, loop, acp, edit, used>>
claim_due(a) ==
  /\ loop.pc = "idle" /\ Due(a) /\ Fire(a, auto[a].next)
  /\ auto' = [auto EXCEPT ![a].next = now + 1]
  /\ UNCHANGED <<run, conv, tree, lock, loop, acp, edit, used>>

(* The boot fails whatever is running when it gets there.                      *)
boot_reconcile_interrupted ==
  /\ loop.pc = "boot" /\ loop' = NoLoop
  /\ LET old == {r \in DOMAIN run : Running(r)} IN
     /\ run' = [r \in DOMAIN run |-> IF r \in old THEN [run[r] EXCEPT !.st = "failed"] ELSE run[r]]
     /\ auto' = [a \in Autos |-> IF \E r \in old : run[r].a = a
                                   THEN [auto[a] EXCEPT !.last = "failed"] ELSE auto[a]]
  /\ UNCHANGED <<conv, tree, lock, job, acp, edit, used>>

Loop ==
  \/ EventTake \/ EventSettle \/ EventDrop \/ boot_reconcile_interrupted
  \/ ReconcileList \/ ReconcileOwned \/ ReconcilePick \/ ReconcileSettle \/ ReconcileEnd
------------------------------------------------------------------------------
(* The lifecycle worker of a connection: an end of a turn counts while the      *)
(* connection is in the map, the end of the connection cancels what is open.    *)
Lifecycle(c) ==
  LET e == Head(inbox[c]) IN
  /\ inbox[c] # <<>> /\ inbox' = [inbox EXCEPT ![c] = Tail(@)]
  /\ CASE e.k = "down" -> Cancelled(e.r)
       [] e.k = "end_turn" /\ Live(c) -> conv' = [conv EXCEPT ![e.r] = "pending_review"]
       [] e.k = "refusal"  /\ Live(c) -> conv' = [conv EXCEPT ![e.r] = "cancelled"]
       [] OTHER -> UNCHANGED conv
  /\ UNCHANGED <<auto, run, tree, lock, job, loop, index, conn, bus, edit, used>>

AgentEnds(c) ==
  /\ conn[c].s = "turn" /\ conn' = [conn EXCEPT ![c].s = "idle"]
  /\ \E stop \in Stops : /\ bus' = Append(bus, [c |-> c, stop |-> stop])
                         /\ inbox' = [inbox EXCEPT ![c] = Append(@, [k |-> stop, r |-> conn[c].r])]
  /\ UNCHANGED <<rows, lock, job, loop, index, edit, used>>

AgentDies(c) ==
  /\ Live(c) /\ lost < MaxLost /\ lost' = lost + 1 /\ disconnect(c)
  /\ UNCHANGED <<rows, lock, job, loop, index, bus, edit, now, restarts, edits>>

BusLags ==
  /\ bus # <<>> /\ lost < MaxLost /\ lost' = lost + 1 /\ bus' = Tail(bus)
  /\ UNCHANGED <<rows, lock, job, loop, index, conn, inbox, edit, now, restarts, edits>>

(* The sweep of connections that have been idle for minutes, a launch is over.  *)
IdleSweep(c) ==
  /\ conn[c].s = "idle" /\ (\A f \in Fires : J(f).c # c) /\ disconnect(c)
  /\ UNCHANGED <<rows, lock, job, loop, index, bus, edit, used>>

(* An edit of the schedule, or its switch: a slot from the time of the read.    *)
EditRead(a) ==
  /\ edits < MaxEdits /\ edits' = edits + 1 /\ edit = None
  /\ edit' \in {[a |-> a, next |-> n] : n \in {now + 1, None}}
  /\ UNCHANGED <<rows, lock, job, loop, acp, now, lost, restarts>>
EditWrite ==
  /\ edit # None /\ auto' = [auto EXCEPT ![edit.a].next = edit.next] /\ edit' = None
  /\ UNCHANGED <<run, conv, tree, lock, job, loop, acp, used>>

Tick == now < MaxNow /\ now' = now + 1
        /\ UNCHANGED <<rows, lock, job, loop, acp, edit, lost, restarts, edits>>

(* The engine answers calls before its loop has done the boot recovery.         *)
Restart ==
  /\ restarts < MaxRestarts /\ restarts' = restarts + 1
  /\ lock' = [a \in Autos |-> <<>>] /\ job' = [j \in Fires \cup Cancels |-> NoJob]
  /\ loop' = [NoLoop EXCEPT !.pc = "boot"]
  /\ index' = [c \in Conns |-> 0] /\ conn' = [c \in Conns |-> Closed] /\ bus' = <<>>
  /\ inbox' = [c \in Conns |-> <<>>] /\ edit' = None
  /\ UNCHANGED <<rows, now, lost, edits>>

Next ==
  \/ Loop \/ BusLags \/ EditWrite \/ Tick \/ Restart
  \/ \E a \in Autos : automation_run_now(a) \/ claim_due(a) \/ EditRead(a)
  \/ \E f \in Fires : run_automation(f)
  \/ \E k \in Cancels : cancel_run(k) \/ \E r \in DOMAIN run : automation_cancel_run(k, r)
  \/ \E c \in Conns : Lifecycle(c) \/ AgentEnds(c) \/ AgentDies(c) \/ IdleSweep(c)

Spec == Init /\ [][Next]_vars

LoopGoesOn ==
  EventSettle \/ EventDrop \/ ReconcileOwned \/ ReconcilePick \/ ReconcileSettle \/ ReconcileEnd

(* The loop comes back to its events and its ticks, tasks and locks go on, what *)
(* idles is swept.                                                             *)
Progress ==
  /\ SF_vars(EventTake) /\ SF_vars(ReconcileList)
  /\ WF_vars(LoopGoesOn)
  /\ WF_vars(boot_reconcile_interrupted)
  /\ \A f \in Fires : WF_vars(run_automation(f))
  /\ \A k \in Cancels : WF_vars(cancel_run(k))
  /\ \A c \in Conns : WF_vars(Lifecycle(c)) /\ WF_vars(IdleSweep(c))
FairSpec == Spec /\ Progress
(* The same with agents whose turns end.                                       *)
EndsSpec == FairSpec /\ \A c \in Conns : WF_vars(AgentEnds(c))
------------------------------------------------------------------------------
Statuses == {"running", "skipped", "succeeded", "failed", "cancelled"}
TypeOK ==
  /\ auto \in [Autos -> [next : 1..(MaxNow + 1) \cup {None}, last : Statuses \cup {None}]]
  /\ Len(run) <= MaxRuns /\ DOMAIN conv = DOMAIN run /\ tree \subseteq DOMAIN run
  /\ \A r \in DOMAIN run : run[r].st \in Statuses /\ run[r].conn \in Conns \cup {None}
  /\ \A a \in Autos : \A i \in DOMAIN lock[a] : J(lock[a][i]).a = a
  /\ index \in [Conns -> 0..Len(run)] /\ DOMAIN inbox = Conns
  /\ \A c \in Conns : conn[c].s \in {"gone", "idle", "turn"} /\ conn[c].r \in 0..Len(run)

(* The overlap guard: fires by hand and by the schedule that come together do   *)
(* not give an automation two runs (run_automation: check, then insert).        *)
OneRunning == \A r, q \in DOMAIN run :
  Running(r) /\ Running(q) /\ run[r].a = run[q].a => r = q

Busy(r) == (\E j \in DOMAIN job : J(j).r = r) \/ (loop.pc \in {"settle", "drop"} /\ loop.r = r)
(* What is canceled stops: no agent works for a run that has ended, unless the  *)
(* call that ended it still has to tear it down.                               *)
NoStray == \A r \in DOMAIN run : Working(r) => Running(r) \/ Busy(r)

Quiet(r) == /\ ~Busy(r) /\ \A c \in Conns : conn[c].r # r /\ \A i \in DOMAIN inbox[c] : inbox[c][i].r # r
(* The conversation of a run that has ended, however it ended, is not left in   *)
(* progress once its agent is gone (cancel_run, launch, the lifecycle worker).  *)
ConvSettled == \A r \in DOMAIN run : ~Running(r) /\ Quiet(r) => conv[r] # "in_progress"

(* A slot of a schedule gives one run, or one run that is skipped (claim_due).  *)
SlotOnce == \A r, q \in DOMAIN run :
  run[r].slot # None /\ run[r].slot = run[q].slot /\ run[r].a = run[q].a => r = q

(* The list shows an automation as running only while a run of it is, or is      *)
(* being started (start_run, settle_run).                                      *)
ParentTruth == \A a \in Autos : auto[a].last = "running" =>
  has_active_run(a) \/ \E f \in Fires : J(f).a = a /\ J(f).pc # "idle"

(* A run shown as succeeded did not cancel its conversation.                    *)
OutcomeAgrees == \A r \in DOMAIN run : run[r].st = "succeeded" => conv[r] # "cancelled"

(* The worktree made for a run that was canceled is known to the run, so that   *)
(* it can be cleaned up, once the launch is over.                              *)
TreeLinked == \A r \in tree : run[r].st = "cancelled" /\ ~Busy(r) => run[r].wt

(* Every run has settled (reconcile_once).                                      *)
RunsSettled == \A r \in DOMAIN run : ~Running(r)

(* The agent of every canceled run has been stopped, whatever the launch was    *)
(* doing when the cancel came.                                                 *)
CancelsStopped == \A r \in DOMAIN run : run[r].st = "cancelled" => ~Working(r)

(* A slot that is claimed is recorded, as a run or as a run that was skipped,   *)
(* when its fire is over (run_automation).                                     *)
SlotRecorded == \A f \in Fires :
  /\ J(f).pc # "idle" /\ job'[f].pc = "idle" /\ J(f).slot # None
  => \E r \in DOMAIN run' : run'[r].a = J(f).a /\ run'[r].slot = J(f).slot

(* What the boot fails was interrupted by it: no fire is working on it.         *)
BootFailsOld == boot_reconcile_interrupted =>
  \A r \in DOMAIN run : Running(r) => \A f \in Fires : J(f).r # r
=============================================================================
