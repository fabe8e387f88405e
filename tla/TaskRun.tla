------------------------------- MODULE TaskRun -------------------------------
(* The runs of the tasks of one project folder: work_task/engine.rs with its    *)
(* pump, its launches, its cancels, its event loop and its reconcile sweep, the *)
(* delete command (commands/work_task.rs) and the agents they start.            *)
(*                                                                             *)
(* A step is what the code does between two awaits on state that others write.  *)
(* A row is a record of TaskRow and a database call one of its updates.         *)
EXTENDS TaskRow, Integers, Sequences, FiniteSets

CONSTANTS
  Tasks,
  Launches,      \* launches in flight at one time: positive numbers, also tokens
  Cancels,       \* cancel calls in flight at one time: other numbers
  Conns,         \* agent connections at one time
  Reqs,          \* blocking requests that an agent may have outstanding
  ChildReqs,     \* those of them that a delegation child makes
  MaxConcurrent, \* max_concurrent of the folder
  AutoProcess,   \* auto_process of the folder
  ScanLimit,     \* events that outstanding_instruction reads; 0 is no limit
  MaxSeq,        \* bound on the generations of a task
  MaxLost,       \* bound on bus events dropped and agents that die
  MaxRestarts,   \* bound on restarts of the process
  Sends,         \* results of a prompt that may occur: subset of {"sent", "refused"}
  Stops,         \* stop reasons that may occur: subset of {"end", "blocked", "error", "cancelled"}
  UserCalls      \* user actions that may occur

PoolsAssumption == Launches \cup Cancels \subseteq Nat \ {0} /\ Launches \cap Cancels = {}
BoundsAssumption == {MaxConcurrent, ScanLimit, MaxSeq, MaxLost, MaxRestarts} \subseteq Nat
ChildAssumption == ChildReqs \subseteq Reqs

VARIABLES
  row,       \* row[t]: the work_task row
  conv,      \* conv[t]: status of the conversation in the row
  disk,      \* disk[t]: the worktree exists
  launching, \* launching[t]: token of the launch that owns the task, or 0
  slot,      \* slot[t]: the kill slot of a setup
  lock,      \* lock[t]: holder of the task lock, then those who wait for it
  launch, cancel, pump, eng, del,  \* the processes
  boot,      \* boot: restarts so far, and the progress of run_task_engine
  pumpDue,   \* somebody waits for the pump
  index,     \* index[c]: task generation of a connection
  awaiting,  \* awaiting[t]: requests the engine holds outstanding
  conn,      \* conn[c]: the agent
  bus,       \* events on their way to the engine
  owed,      \* owed[t]: the last instruction in the log, if no review came since
  noise,     \* noise[t]: log entries since then (up to ScanLimit)
  told,      \* told[t]: generation and instruction of the last prompt sent
  lost       \* events dropped and agents dead so far

dbVars   == <<row, conv, disk, owed, noise>>
memVars  == <<launching, slot, lock, index, awaiting, pumpDue>>
procVars == <<launch, cancel, pump, eng, del>>
agentVars == <<conn, bus, told, lost, boot>>
vars == <<dbVars, memVars, procVars, agentVars>>

NoSlot == [seq |-> -1, kill |-> FALSE]
NoGen  == [t |-> None, seq |-> 0]
NoLaunch == [pc |-> "idle", t |-> None, note |-> 0, seq |-> 0, c |-> None,
             fresh |-> FALSE, err |-> FALSE]
NoCancel == [pc |-> "idle", t |-> None, seq |-> 0, c |-> None]
NoPump   == [pc |-> "idle", seen |-> {}]
NoWork   == [pc |-> "idle", c |-> None, t |-> None, seq |-> 0, what |-> None]
NoDelete == [pc |-> "idle", t |-> None, seen |-> None, wt |-> FALSE, k |-> 0, n |-> 0]
Up == [pc |-> "up", left |-> {}, seen |-> [t \in Tasks |-> 0], n |-> 0]
Agent(s, t) == [s |-> s, t |-> t, asks |-> {}]

Gone     == {"free", "gone"}
Hangup(c) == conn' = [conn EXCEPT ![c] = Agent("gone", None)]
Pick(S)  == CHOOSE x \in S : TRUE

IdleLaunch == {p \in Launches : launch[p].pc = "idle"}
IdleCancel == {k \in Cancels : cancel[k].pc = "idle"}

(* A connection id is new whenever nothing refers to it. *)
Unused(c) ==
  /\ conn[c].s \in Gone /\ index[c] = NoGen
  /\ \A i \in 1..Len(bus) : bus[i].c # c
  /\ \A p \in Launches : launch[p].c # c
  /\ \A k \in Cancels : cancel[k].c # c
  /\ \A t \in Tasks : row[t].conn # c
  /\ eng.c # c

Init ==
  /\ row = [t \in Tasks |-> NewRow] /\ conv = [t \in Tasks |-> "none"]
  /\ disk = [t \in Tasks |-> FALSE]
  /\ launching = [t \in Tasks |-> 0] /\ slot = [t \in Tasks |-> NoSlot]
  /\ lock = [t \in Tasks |-> <<>>]
  /\ launch = [p \in Launches |-> NoLaunch] /\ cancel = [k \in Cancels |-> NoCancel]
  /\ pump = NoPump /\ eng = NoWork /\ del = NoDelete /\ pumpDue = FALSE
  /\ index = [c \in Conns |-> NoGen] /\ awaiting = [t \in Tasks |-> {}]
  /\ conn = [c \in Conns |-> Agent("free", None)] /\ bus = <<>>
  /\ owed = [t \in Tasks |-> 0] /\ noise = [t \in Tasks |-> 0]
  /\ told = [t \in Tasks |-> [seq |-> 0, note |-> 0]] /\ lost = 0 /\ boot = Up

Put(t, r)  == row' = [row EXCEPT ![t] = r]
Log(t)     == noise' = [noise EXCEPT ![t] = IF @ < ScanLimit THEN @ + 1 ELSE @]
SetConv(t, s) == conv' = [conv EXCEPT ![t] = s]
(* A settle into review is the barrier of the scan of the log. *)
Answered(t) == owed' = [owed EXCEPT ![t] = 0] /\ UNCHANGED noise
Unanswered(t) == UNCHANGED owed /\ Log(t)

(* outstanding_instruction: the newest one that the scan reaches. *)
Outstanding(t) == IF ScanLimit > 0 /\ noise[t] >= ScanLimit THEN 0 ELSE owed[t]
------------------------------------------------------------------------------
(* What a user does. *)

(* Notes are told apart by the generation they are written for. *)
Instruct(t, note) == owed' = [owed EXCEPT ![t] = note] /\ noise' = [noise EXCEPT ![t] = 0]
MayInstruct(t, note) == Instruct(t, note) \/ Unanswered(t)

CanStart(t) == row[t].seq < MaxSeq /\ CanClaim(row[t], "todo", FALSE)
Start(t) ==
  /\ CanStart(t)
  /\ Put(t, Claimed(row[t])) /\ Unanswered(t) /\ pumpDue' = TRUE
  /\ UNCHANGED <<conv, disk, launching, slot, lock, index, awaiting, procVars, agentVars>>

Retry(t) ==
  /\ row[t].seq < MaxSeq /\ CanClaim(row[t], "failed", FALSE)
  /\ Put(t, Claimed(row[t])) /\ MayInstruct(t, 2 * row[t].seq + 2) /\ pumpDue' = TRUE
  /\ UNCHANGED <<conv, disk, launching, slot, lock, index, awaiting, procVars, agentVars>>

Requeue(t) ==
  /\ CanRequeue(row[t])
  /\ Put(t, Requeued(row[t])) /\ MayInstruct(t, 2 * row[t].seq + 1) /\ pumpDue' = TRUE
  /\ UNCHANGED <<conv, disk, launching, slot, lock, index, awaiting, procVars, agentVars>>

(* A follow-up is launched at once; its launch claims the slot itself. *)
Return(t) ==
  LET note == 2 * row[t].seq + 2 IN
  /\ row[t].seq < MaxSeq /\ CanClaim(row[t], "review", FALSE) /\ IdleLaunch # {}
  /\ Put(t, Claimed(row[t])) /\ Instruct(t, note)
  /\ launch' = [launch EXCEPT ![Pick(IdleLaunch)] =
                  [NoLaunch EXCEPT !.pc = "claim", !.t = t, !.note = note]]
  /\ UNCHANGED <<conv, disk, memVars, cancel, pump, eng, del, agentVars>>

StartCancel(t) ==
  /\ CanCancel(row[t]) /\ IdleCancel # {}
  /\ Put(t, Canceled(row[t])) /\ Unanswered(t)
  /\ cancel' = [cancel EXCEPT ![Pick(IdleCancel)] = [NoCancel EXCEPT !.pc = "kill", !.t = t, !.seq = row[t].seq]]

Cancel(t) ==
  /\ StartCancel(t)
  /\ UNCHANGED <<conv, disk, memVars, launch, pump, eng, del, agentVars>>

(* The same session, opened by the user in the chat window and prompted there. *)
Chat(t) ==
  /\ conv[t] \in {"PendingReview", "Cancelled"} /\ \A c \in Conns : conn[c].t = t => conn[c].s \in Gone
  /\ \E c \in Conns : Unused(c) /\ conn' = [conn EXCEPT ![c] = Agent("chat", t)]
  /\ UNCHANGED <<dbVars, memVars, procVars, bus, told, lost, boot>>
ChatPrompt(c) ==      \* bound: one event of it on its way at a time
  /\ \A i \in 1..Len(bus) : bus[i].c # c
  /\ conn[c].s = "chat" /\ conn' = [conn EXCEPT ![c].s = "chatting"]
  /\ SetConv(conn[c].t, "InProgress")
  /\ UNCHANGED <<row, disk, owed, noise, memVars, procVars, bus, told, lost, boot>>

------------------------------------------------------------------------------
(* The pump of the folder.  pump_locks lets one run at a time; callers that     *)
(* wait for it would only repeat what it does.                                 *)
Active(sts) == {t \in Tasks : In(row[t], sts)}
InFlightSetups == {t \in Tasks : In(row[t], {"preparing"})}
InFlight    == {t \in Tasks : launching[t] # 0}
HasRoom(n)  == MaxConcurrent = 0 \/ n < MaxConcurrent

PumpTo(pc, seen) == pump' = [pc |-> pc, seen |-> seen]

PumpBegin ==
  /\ pump.pc = "idle" /\ pumpDue
  /\ pumpDue' = FALSE /\ PumpTo("auto", {})
  /\ UNCHANGED <<dbVars, launching, slot, lock, index, awaiting, launch, cancel, eng, del, agentVars>>

(* auto_claim_next; its budget counts what is queued, too. *)
AutoCandidates == {t \in Tasks : CanAutoClaim(row[t]) /\ row[t].seq < MaxSeq}
CanPumpClaim   == AutoProcess /\ AutoCandidates # {} /\ HasRoom(Cardinality(Active(Budget)))
PumpClaim ==
  /\ pump.pc = "auto" /\ CanPumpClaim
  /\ \E t \in AutoCandidates : Put(t, AutoClaimed(row[t])) /\ Unanswered(t)
  /\ UNCHANGED <<conv, disk, memVars, procVars, agentVars>>

PumpLook ==
  /\ \/ pump.pc = "auto" /\ ~CanPumpClaim
     \/ pump.pc = "look"
  /\ PumpTo("count", InFlight)
  /\ UNCHANGED <<dbVars, memVars, launch, cancel, eng, del, agentVars>>

PumpCount ==
  /\ pump.pc = "count"
  /\ IF HasRoom(Cardinality(Active(Live \cup {"merging"})) + Cardinality(pump.seen))
       THEN PumpTo("next", pump.seen) ELSE pump' = NoPump
  /\ UNCHANGED <<dbVars, memVars, launch, cancel, eng, del, agentVars>>

PumpNext ==
  /\ pump.pc = "next"
  /\ IF Active({"queued"}) \ pump.seen = {} THEN pump' = NoPump
     ELSE \E t \in Active({"queued"}) \ pump.seen : PumpTo("claim", {t})
  /\ UNCHANGED <<dbVars, memVars, launch, cancel, eng, del, agentVars>>

PumpLaunch ==
  /\ pump.pc = "claim" /\ IdleLaunch # {}
  /\ LET t == Pick(pump.seen)
         p == Pick(IdleLaunch)
     IN /\ launching' = [launching EXCEPT ![t] = p]
        /\ launch' = [launch EXCEPT ![p] = [NoLaunch EXCEPT !.pc = "lock", !.t = t]]
  /\ PumpTo("look", {})
  /\ UNCHANGED <<dbVars, slot, lock, index, awaiting, pumpDue, cancel, eng, del, agentVars>>

Pump == PumpBegin \/ PumpClaim \/ PumpLook \/ PumpCount \/ PumpNext \/ PumpLaunch
------------------------------------------------------------------------------
(* A launch.  It holds the task lock from "read" to its return; what follows    *)
(* ("fail", "release") runs after the lock is free again.                      *)
L(p)     == launch[p]
Holds(x, t) == lock[t] # <<>> /\ Head(lock[t]) = x
To(p, l) == launch' = [launch EXCEPT ![p] = l]
At(p, pc) == To(p, [L(p) EXCEPT !.pc = pc])
Unlock(t) == lock' = [lock EXCEPT ![t] = Tail(@)]
Done(p)  == At(p, "release") /\ Unlock(L(p).t)                    \* Ok
Errs(p)  == To(p, [L(p) EXCEPT !.pc = "fail", !.err = TRUE]) /\ Unlock(L(p).t)
Expected(p) == Is(row[L(p).t], {"preparing"}, L(p).seq)

LaunchClaim(p) ==
  /\ L(p).pc = "claim" /\ At(p, "lock")
  /\ launching' = [launching EXCEPT ![L(p).t] = p]
  /\ UNCHANGED <<dbVars, slot, lock, index, awaiting, pumpDue, cancel, pump, eng, del, agentVars>>

LaunchWait(p) ==
  /\ L(p).pc = "lock" /\ At(p, "read")
  /\ lock' = [lock EXCEPT ![L(p).t] = Append(@, p)]
  /\ UNCHANGED <<dbVars, launching, slot, index, awaiting, pumpDue, cancel, pump, eng, del, agentVars>>

(* A folder that is gone, no agent or an empty prompt is an error from here. *)
LaunchRead(p) ==
  LET l == [L(p) EXCEPT !.seq = row[L(p).t].seq] IN
  /\ L(p).pc = "read" /\ Holds(p, L(p).t)
  /\ \/ ~In(row[l.t], {"queued"}) /\ Done(p)
     \/ In(row[l.t], {"queued"}) /\ To(p, [l EXCEPT !.pc = "reserve"]) /\ UNCHANGED lock
     \/ In(row[l.t], {"queued"}) /\ To(p, [l EXCEPT !.pc = "fail", !.err = TRUE]) /\ Unlock(l.t)
  /\ UNCHANGED <<dbVars, launching, slot, index, awaiting, pumpDue, cancel, pump, eng, del, agentVars>>

LaunchReserve(p) ==
  /\ L(p).pc = "reserve" /\ At(p, "begin")
  /\ slot' = [slot EXCEPT ![L(p).t] = [seq |-> L(p).seq, kill |-> FALSE]]
  /\ UNCHANGED <<dbVars, launching, lock, index, awaiting, pumpDue, cancel, pump, eng, del, agentVars>>

LaunchBegin(p) ==
  LET t == L(p).t IN
  /\ L(p).pc = "begin"
  /\ IF CanBeginSetup(row[t], L(p).seq)
       THEN Put(t, SetupBegun(row[t])) /\ Unanswered(t) /\ At(p, "gate") /\ UNCHANGED lock
       ELSE Done(p) /\ UNCHANGED <<row, owed, noise>>
  /\ UNCHANGED <<conv, disk, launching, slot, index, awaiting, pumpDue, cancel, pump, eng, del, agentVars>>

LaunchGate(p) ==
  /\ \/ L(p).pc = "gate" /\ Expected(p) /\ At(p, "tree") /\ UNCHANGED lock
     \/ L(p).pc = "gate2" /\ Expected(p) /\ At(p, "spawn") /\ UNCHANGED lock
     \/ L(p).pc \in {"gate", "gate2"} /\ ~Expected(p) /\ Done(p)
  /\ UNCHANGED <<dbVars, launching, slot, index, awaiting, pumpDue, cancel, pump, eng, del, agentVars>>

(* ensure_worktree: git creates it or it is there, then attach_worktree. *)
LaunchTree(p) ==
  LET t == L(p).t IN
  /\ L(p).pc = "tree"
  /\ \/ /\ disk' = [disk EXCEPT ![t] = TRUE] /\ Put(t, [row[t] EXCEPT !.wt = TRUE])
        /\ At(p, "init") /\ UNCHANGED lock
     \/ ~disk[t] /\ Errs(p) /\ UNCHANGED <<row, disk>>
  /\ UNCHANGED <<conv, owed, noise, launching, slot, index, awaiting, pumpDue, cancel, pump, eng, del, agentVars>>

(* The init command, which a cancel kills through the slot. *)
LaunchInit(p) ==
  /\ L(p).pc = "init"
  /\ \/ At(p, "gate2") /\ UNCHANGED lock                    \* none, or done before
     \/ slot[L(p).t].kill /\ Errs(p)
     \/ ~slot[L(p).t].kill /\ At(p, "child") /\ UNCHANGED lock
  /\ UNCHANGED <<dbVars, launching, slot, index, awaiting, pumpDue, cancel, pump, eng, del, agentVars>>

LaunchChild(p) ==
  /\ L(p).pc = "child"
  /\ (At(p, "gate2") /\ UNCHANGED lock) \/ Errs(p)
  /\ UNCHANGED <<dbVars, launching, slot, index, awaiting, pumpDue, cancel, pump, eng, del, agentVars>>

(* spawn_agent reuses a live connection of the session that it resumes. *)
LaunchSpawn(p) ==
  LET t == L(p).t
      open == {c \in Conns : conn[c].t = t /\ conn[c].s \notin Gone}
      at(c, fresh) == To(p, [L(p) EXCEPT !.pc = "index", !.c = c, !.fresh = fresh]) /\ UNCHANGED lock
  IN
  /\ L(p).pc = "spawn"
  /\ \/ /\ \E c \in Conns : Unused(c) /\ conn' = [conn EXCEPT ![c] = Agent("idle", t)]
             /\ \/ at(c, TRUE)
                \/ row[t].conv /\ open = {} /\ at(c, FALSE)
     \/ row[t].conv /\ (\E c \in open : at(c, FALSE)) /\ UNCHANGED conn
     \/ Errs(p) /\ UNCHANGED conn
  /\ UNCHANGED <<dbVars, launching, slot, index, awaiting, pumpDue, cancel, pump, eng, del, bus, told, lost, boot>>

LaunchIndex(p) ==
  /\ L(p).pc = "index" /\ At(p, "mark")
  /\ index' = [index EXCEPT ![L(p).c] = [t |-> L(p).t, seq |-> L(p).seq]]
  /\ UNCHANGED <<dbVars, launching, slot, lock, awaiting, pumpDue, cancel, pump, eng, del, agentVars>>

LaunchMark(p) ==
  LET t == L(p).t IN
  /\ L(p).pc = "mark"
  /\ IF CanMarkRunning(row[t], L(p).seq)
       THEN /\ Put(t, MarkedRunning(row[t], L(p).c)) /\ Unanswered(t) /\ At(p, "send")
            /\ IF L(p).fresh THEN SetConv(t, "InProgress") ELSE UNCHANGED conv
       ELSE At(p, "undo") /\ UNCHANGED <<row, conv, owed, noise>>
  /\ UNCHANGED <<disk, memVars, cancel, pump, eng, del, agentVars>>

(* The row moved on: no trace of the connection is left. *)
LaunchUndo(p) ==
  /\ L(p).pc = "undo" /\ Done(p)
  /\ index' = [index EXCEPT ![L(p).c] = NoGen] /\ Hangup(L(p).c)
  /\ UNCHANGED <<dbVars, launching, slot, awaiting, pumpDue, cancel, pump, eng, del, bus, told, lost, boot>>

(* A follow-up carries its own text, any other run what the log still owes. *)
CarriesOwn(p) == L(p).note
Carries(p) == IF L(p).note # 0 THEN L(p).note ELSE Outstanding(L(p).t)

LaunchSend(p) ==
  LET t == L(p).t
      c == L(p).c
  IN
  /\ L(p).pc = "send"
  /\ \/ /\ "sent" \in Sends /\ conn[c].s \in {"idle", "chat"}
        /\ conn' = [conn EXCEPT ![c].s = "turn"] /\ SetConv(t, "InProgress")
        /\ told' = [told EXCEPT ![t] = [seq |-> L(p).seq, note |-> Carries(p)]] /\ Done(p)
     \/ /\ "refused" \in Sends \/ conn[c].s \notin {"idle", "chat"}
        /\ At(p, "unsend") /\ UNCHANGED <<conn, conv, told, lock>>
  /\ UNCHANGED <<row, disk, owed, noise, launching, slot, index, awaiting, pumpDue,
                 cancel, pump, eng, del, bus, lost, boot>>

LaunchUnsend(p) ==
  /\ L(p).pc = "unsend" /\ Errs(p)
  /\ index' = [index EXCEPT ![L(p).c] = NoGen] /\ Hangup(L(p).c)
  /\ IF L(p).fresh THEN SetConv(L(p).t, "Cancelled") ELSE UNCHANGED conv
  /\ UNCHANGED <<row, disk, owed, noise, launching, slot, awaiting, pumpDue, cancel, pump,
                 eng, del, bus, told, lost, boot>>

(* A setup failure is that of the generation that was read. *)
LaunchFail(p) ==
  LET t == L(p).t IN
  /\ L(p).pc = "fail" /\ At(p, "release")
  /\ IF Is(row[t], {"queued", "preparing"}, L(p).seq)
       THEN Put(t, Failed(row[t])) /\ Unanswered(t) ELSE UNCHANGED <<row, owed, noise>>
  /\ UNCHANGED <<conv, disk, memVars, cancel, pump, eng, del, agentVars>>

LaunchReleaseOk(p) ==
  LET t == L(p).t IN
  /\ L(p).pc = "release" /\ To(p, NoLaunch)
  /\ slot' = [slot EXCEPT ![t] = IF L(p).seq # 0 /\ @.seq = L(p).seq THEN NoSlot ELSE @]
  /\ launching' = [launching EXCEPT ![t] = IF @ = p /\ ~L(p).err THEN 0 ELSE @]
  /\ pumpDue' = (pumpDue \/ L(p).err)
  /\ UNCHANGED <<dbVars, lock, index, awaiting, cancel, pump, eng, del, agentVars>>

LaunchRelease(p) ==
  LET t == L(p).t IN
  /\ L(p).pc = "release" /\ To(p, NoLaunch)
  /\ slot' = [slot EXCEPT ![t] = IF L(p).seq # 0 /\ @.seq = L(p).seq THEN NoSlot ELSE @]
  /\ launching' = [launching EXCEPT ![t] = IF @ = p THEN 0 ELSE @]
  /\ pumpDue' = (pumpDue \/ L(p).err)
  /\ UNCHANGED <<dbVars, lock, index, awaiting, cancel, pump, eng, del, agentVars>>

LaunchStep(p) ==
  \/ LaunchClaim(p) \/ LaunchWait(p) \/ LaunchRead(p) \/ LaunchReserve(p) \/ LaunchBegin(p)
  \/ LaunchGate(p) \/ LaunchTree(p) \/ LaunchInit(p) \/ LaunchSpawn(p)
  \/ LaunchIndex(p) \/ LaunchMark(p) \/ LaunchUndo(p) \/ LaunchSend(p) \/ LaunchUnsend(p)
  \/ LaunchFail(p) \/ LaunchRelease(p)
LaunchKilled(p) == L(p).pc = "child" /\ slot[L(p).t].kill /\ LaunchChild(p)
Launch(p) == LaunchStep(p) \/ LaunchChild(p)
------------------------------------------------------------------------------
(* A cancel.  The row is canceled by the call itself, see StartCancel.           *)
K(k)       == cancel[k]
CTo(k, pc) == cancel' = [cancel EXCEPT ![k].pc = pc]
Ends(t)    == IF conv[t] = "InProgress" THEN SetConv(t, "Cancelled") ELSE UNCHANGED conv

CancelKillNext(k) ==
  LET t == K(k).t IN
  /\ K(k).pc = "kill" /\ CTo(k, "lock")
  /\ slot' = [slot EXCEPT ![t].kill = @ \/ (~row[t].del /\ slot[t].seq = row[t].seq + 1)]
  /\ UNCHANGED <<dbVars, launching, lock, index, awaiting, pumpDue, launch, pump, eng, del, agentVars>>

CancelKill(k) ==
  LET t == K(k).t IN
  /\ K(k).pc = "kill" /\ CTo(k, "lock")
  /\ slot' = [slot EXCEPT ![t].kill = @ \/ (~row[t].del /\ slot[t].seq = row[t].seq)]
  /\ UNCHANGED <<dbVars, launching, lock, index, awaiting, pumpDue, launch, pump, eng, del, agentVars>>

CancelWait(k) ==
  /\ K(k).pc = "lock" /\ CTo(k, "find")
  /\ lock' = [lock EXCEPT ![K(k).t] = Append(@, k)]
  /\ UNCHANGED <<dbVars, launching, slot, index, awaiting, pumpDue, launch, pump, eng, del, agentVars>>

OfTaskNow(t) == {c \in Conns : index[c] = [t |-> t, seq |-> row[t].seq]}
OfTask(t) == {c \in Conns : index[c].t = t}
CancelFind(k) ==
  /\ K(k).pc = "find" /\ Holds(k, K(k).t)
  /\ IF OfTask(K(k).t) = {} THEN CTo(k, "clear")
     ELSE \E c \in OfTask(K(k).t) : cancel' = [cancel EXCEPT ![k].pc = "stop", ![k].c = c]
  /\ UNCHANGED <<dbVars, memVars, launch, pump, eng, del, agentVars>>

CancelStop(k) ==
  /\ K(k).pc = "stop" /\ CTo(k, "unindex")
  /\ IF conn[K(k).c].s \in Gone THEN UNCHANGED conv ELSE Ends(K(k).t)
  /\ UNCHANGED <<row, disk, owed, noise, memVars, launch, pump, eng, del, agentVars>>

CancelUnindex(k) ==
  /\ K(k).pc = "unindex" /\ CTo(k, "hangup")
  /\ index' = [index EXCEPT ![K(k).c] = NoGen]
  /\ UNCHANGED <<dbVars, launching, slot, lock, awaiting, pumpDue, launch, pump, eng, del, agentVars>>

CancelHangup(k) ==
  /\ K(k).pc = "hangup" /\ CTo(k, "clear") /\ Hangup(K(k).c)
  /\ UNCHANGED <<dbVars, memVars, launch, pump, eng, del, bus, told, lost, boot>>

CancelClear(k) ==
  /\ K(k).pc = "clear" /\ CTo(k, "conv")
  /\ awaiting' = [awaiting EXCEPT ![K(k).t] = {}]
  /\ UNCHANGED <<dbVars, launching, slot, lock, index, pumpDue, launch, pump, eng, del, agentVars>>

CancelConv(k) ==
  LET t == K(k).t IN
  /\ K(k).pc = "conv" /\ cancel' = [cancel EXCEPT ![k] = NoCancel]
  /\ IF row[t].del \/ ~row[t].conv THEN UNCHANGED conv ELSE Ends(t)
  /\ pumpDue' = (pumpDue \/ ~row[t].del) /\ Unlock(t)
  /\ UNCHANGED <<row, disk, owed, noise, launching, slot, index, awaiting, launch, pump, eng, del, agentVars>>

Canceling(k) ==
  \/ CancelKill(k) \/ CancelWait(k) \/ CancelFind(k) \/ CancelStop(k) \/ CancelUnindex(k)
  \/ CancelHangup(k) \/ CancelClear(k) \/ CancelConv(k)
------------------------------------------------------------------------------
(* The agents.  Their events reach the engine once it has subscribed.            *)
Event(kind, c, x) == [kind |-> kind, c |-> c, x |-> x]
Emit(e)  == bus' = IF boot.pc = "up" THEN Append(bus, e) ELSE bus
About(r) == \/ \E c \in Conns : r \in conn[c].asks
            \/ \E i \in 1..Len(bus) : bus[i].x = r
            \/ eng.what = r \/ \E t \in Tasks : r \in awaiting[t]

Ask(c, r) ==
  /\ conn[c].s = "turn" /\ ~About(r)
  /\ conn' = [conn EXCEPT ![c].asks = @ \cup {r}] /\ Emit(Event("req", c, r))
  /\ UNCHANGED <<dbVars, memVars, procVars, told, lost, boot>>
Answer(c, r) ==
  /\ r \in conn[c].asks
  /\ conn' = [conn EXCEPT ![c].asks = @ \ {r}] /\ Emit(Event("res", c, r))
  /\ UNCHANGED <<dbVars, memVars, procVars, told, lost, boot>>

(* The lifecycle worker writes the status of the conversation, too.  "blocked"   *)
(* is an end_turn before which the agent has reported that verdict.             *)
Normal(stop) == stop \in {"end", "blocked"}
EndTurn(c, stop) ==
  LET t == conn[c].t IN
  /\ conn[c].s \in {"turn", "chatting"} /\ (Normal(stop) => conn[c].asks = {})
  /\ conn' = [conn EXCEPT ![c] = Agent(IF @.s = "turn" THEN "idle" ELSE "chat", t)]
  /\ Emit(Event("end", c, stop))
  /\ IF Normal(stop) THEN SetConv(t, "PendingReview") ELSE Ends(t)
  /\ UNCHANGED <<row, disk, owed, noise, memVars, procVars, told, lost, boot>>

IdleSweep(c) ==
  /\ conn[c].s \in {"idle", "chat"} /\ \A p \in Launches : launch[p].c # c
  /\ Hangup(c)
  /\ UNCHANGED <<dbVars, memVars, procVars, bus, told, lost, boot>>

(* Whether the worker has seen the end of the connection yet is open. *)
AgentDies(c) ==
  /\ conn[c].s = "turn" /\ lost < MaxLost /\ lost' = lost + 1 /\ Hangup(c)
  /\ Ends(conn[c].t) \/ UNCHANGED conv
  /\ UNCHANGED <<row, disk, owed, noise, memVars, procVars, bus, told, boot>>

BusLags ==
  /\ bus # <<>> /\ lost < MaxLost /\ lost' = lost + 1 /\ bus' = Tail(bus)
  /\ UNCHANGED <<dbVars, memVars, procVars, conn, told, boot>>

Turns == \E c \in Conns, stop \in Stops : EndTurn(c, stop)
Agents ==
  \/ \E c \in Conns, r \in Reqs : Ask(c, r) \/ Answer(c, r)
  \/ Turns \/ BusLags
  \/ \E c \in Conns : IdleSweep(c) \/ AgentDies(c)
------------------------------------------------------------------------------
(* The event loop: one event, or one sweep, at a time.                          *)
Work(pc, e, what) == [pc |-> pc, c |-> e.c, t |-> index[e.c].t, seq |-> index[e.c].seq, what |-> what]
EngTo(pc) == eng' = [eng EXCEPT !.pc = pc]

(* A connection that is not indexed belongs to no task; nor does that of a      *)
(* delegation child.                                                           *)
EngPop ==
  LET e == Head(bus) IN
  /\ eng.pc = "idle" /\ boot.pc = "up" /\ bus # <<>> /\ bus' = Tail(bus)
  /\ eng' = IF index[e.c] = NoGen \/ e.x \in ChildReqs THEN NoWork ELSE Work(e.kind, e, e.x)
  /\ UNCHANGED <<dbVars, memVars, launch, cancel, pump, del, conn, told, lost, boot>>

EngEnd ==
  /\ eng.pc = "end" /\ EngTo("settle") /\ Hangup(eng.c)
  /\ index' = [index EXCEPT ![eng.c] = NoGen] /\ awaiting' = [awaiting EXCEPT ![eng.t] = {}]
  /\ UNCHANGED <<dbVars, launching, slot, lock, pumpDue, launch, cancel, pump, del, bus, told, lost, boot>>

(* A stop that comes as "cancelled" cancels the task, whatever its generation. *)
EngSettle ==
  LET t == eng.t
      r == row[t]
      own == Is(r, Live, eng.seq)
  IN
  /\ eng.pc = "settle" /\ eng' = NoWork /\ pumpDue' = (pumpDue \/ ~r.del)
  /\ \/ eng.what = "end" /\ own /\ Put(t, Settled(r)) /\ Answered(t)
     \/ eng.what = "cancelled" /\ CanCancel(r) /\ Put(t, Canceled(r)) /\ Unanswered(t)
     \/ eng.what \in {"error", "blocked"} /\ own /\ Put(t, Failed(r)) /\ Unanswered(t)
     \/ /\ IF eng.what = "cancelled" THEN ~CanCancel(r) ELSE ~own
        /\ UNCHANGED <<row, owed, noise>>
  /\ UNCHANGED <<conv, disk, launching, slot, lock, index, awaiting, launch, cancel, pump, del, agentVars>>

EngTrackEach ==
  LET t == eng.t
      set == IF eng.pc = "req" THEN awaiting[t] \cup {eng.what} ELSE awaiting[t] \ {eng.what}
      edge == IF eng.pc = "req" THEN Cardinality(set) = 1 ELSE TRUE
  IN
  /\ eng.pc \in {"req", "res"} /\ awaiting' = [awaiting EXCEPT ![t] = set]
  /\ IF edge THEN EngTo(IF eng.pc = "req" THEN "await" ELSE "resume") ELSE eng' = NoWork
  /\ UNCHANGED <<dbVars, launching, slot, lock, index, pumpDue, launch, cancel, pump, del, agentVars>>

EngTrack ==
  LET t == eng.t
      set == IF eng.pc = "req" THEN awaiting[t] \cup {eng.what} ELSE awaiting[t] \ {eng.what}
      edge == IF eng.pc = "req" THEN Cardinality(set) = 1 ELSE set = {}
  IN
  /\ eng.pc \in {"req", "res"} /\ awaiting' = [awaiting EXCEPT ![t] = set]
  /\ IF edge THEN EngTo(IF eng.pc = "req" THEN "await" ELSE "resume") ELSE eng' = NoWork
  /\ UNCHANGED <<dbVars, launching, slot, lock, index, pumpDue, launch, cancel, pump, del, agentVars>>

EngFlip ==
  LET t == eng.t
      on == eng.pc = "await"
  IN
  /\ eng.pc \in {"await", "resume"} /\ eng' = NoWork
  /\ IF CanFlip(row[t], eng.seq, on) THEN Put(t, Flipped(row[t], on)) /\ Unanswered(t)
     ELSE UNCHANGED <<row, owed, noise>>
  /\ UNCHANGED <<conv, disk, memVars, launch, cancel, pump, del, agentVars>>

EngSweepSetups(t) ==
  /\ eng.pc = "idle" /\ boot.pc = "up" /\ In(row[t], {"preparing"})
  /\ eng' = [NoWork EXCEPT !.pc = "orphan", !.t = t, !.seq = row[t].seq]
  /\ UNCHANGED <<dbVars, memVars, launch, cancel, pump, del, conn, told, lost, bus, boot>>

(* reconcile_once reads the rows first and then goes through them. *)
EngSweep(t) ==
  /\ eng.pc = "idle" /\ boot.pc = "up"
  /\ \/ In(row[t], Live) /\ row[t].conn \in Conns
        /\ eng' = [pc |-> "dead", c |-> row[t].conn, t |-> t, seq |-> row[t].seq, what |-> None]
     \/ In(row[t], {"preparing"})
        /\ eng' = [NoWork EXCEPT !.pc = "orphan", !.t = t, !.seq = row[t].seq]
  /\ UNCHANGED <<dbVars, memVars, launch, cancel, pump, del, agentVars>>

(* What the conversation came to decides; a live connection is left alone. *)
Outcome(t) == CASE conv[t] = "PendingReview" -> "end"
                [] conv[t] = "Cancelled" -> "cancelled"
                [] OTHER -> "error"
EngDeadAny ==
  /\ eng.pc = "dead"
  /\ IF TRUE
       THEN /\ eng' = [eng EXCEPT !.pc = "settle", !.what = Outcome(eng.t)]
            /\ index' = [index EXCEPT ![eng.c] = NoGen]
            /\ awaiting' = [awaiting EXCEPT ![eng.t] = {}]
       ELSE eng' = NoWork /\ UNCHANGED <<index, awaiting>>
  /\ UNCHANGED <<dbVars, launching, slot, lock, pumpDue, launch, cancel, pump, del, agentVars>>

EngDead ==
  /\ eng.pc = "dead"
  /\ IF conn[eng.c].s \in Gone
       THEN /\ eng' = [eng EXCEPT !.pc = "settle", !.what = Outcome(eng.t)]
            /\ index' = [index EXCEPT ![eng.c] = NoGen]
            /\ awaiting' = [awaiting EXCEPT ![eng.t] = {}]
       ELSE eng' = NoWork /\ UNCHANGED <<index, awaiting>>
  /\ UNCHANGED <<dbVars, launching, slot, lock, pumpDue, launch, cancel, pump, del, agentVars>>

EngOrphanAny ==
  LET t == eng.t IN
  /\ eng.pc = "orphan" /\ eng' = NoWork
  /\ IF CanAbandonSetup(row[t], eng.seq)
       THEN Put(t, SetupAbandoned(row[t])) /\ Unanswered(t) ELSE UNCHANGED <<row, owed, noise>>
  /\ UNCHANGED <<conv, disk, memVars, launch, cancel, pump, del, agentVars>>

EngOrphan ==
  LET t == eng.t IN
  /\ eng.pc = "orphan" /\ eng' = NoWork
  /\ IF t \notin InFlight /\ CanAbandonSetup(row[t], eng.seq)
       THEN Put(t, SetupAbandoned(row[t])) /\ Unanswered(t) ELSE UNCHANGED <<row, owed, noise>>
  /\ UNCHANGED <<conv, disk, memVars, launch, cancel, pump, del, agentVars>>

(* The sweep ends in a pump of every folder with a backlog. *)
EngBacklog ==
  /\ eng.pc = "idle" /\ boot.pc = "up" /\ pump.pc = "idle" /\ ~pumpDue
  /\ Active({"queued"} \cup IF AutoProcess THEN {"todo"} ELSE {}) # {}
  /\ pumpDue' = TRUE
  /\ UNCHANGED <<dbVars, launching, slot, lock, index, awaiting, procVars, agentVars>>

Sweep  == \E t \in Tasks : EngSweep(t)
Settling == EngEnd \/ EngSettle \/ EngTrack \/ EngFlip \/ EngDead \/ EngOrphan
Engine == EngPop \/ Settling \/ Sweep \/ EngBacklog
------------------------------------------------------------------------------
(* The delete command, asked to remove the worktree, too.                       *)
DELETE_ATTEMPTS == 4
DTo(pc) == del' = [del EXCEPT !.pc = pc]

DelBegin(t) ==
  /\ del.pc = "idle" /\ ~row[t].del
  /\ del' = [NoDelete EXCEPT !.pc = "read", !.t = t]
  /\ UNCHANGED <<dbVars, memVars, launch, cancel, pump, eng, agentVars>>

DelReadSetups ==
  LET r == row[del.t] IN
  /\ del.pc = "read"
  /\ IF del.n = DELETE_ATTEMPTS THEN del' = NoDelete
     ELSE del' = [del EXCEPT !.n = @ + 1, !.seen = r.st, !.wt = r.wt,
                             !.pc = IF r.st \in Waiting \ Live THEN "cancel" ELSE "clean"]
  /\ UNCHANGED <<dbVars, memVars, launch, cancel, pump, eng, agentVars>>

DelRead ==
  LET r == row[del.t] IN
  /\ del.pc = "read"
  /\ IF del.n = DELETE_ATTEMPTS THEN del' = NoDelete
     ELSE del' = [del EXCEPT !.n = @ + 1, !.seen = r.st, !.wt = r.wt,
                             !.pc = IF r.st \in Waiting THEN "cancel" ELSE "clean"]
  /\ UNCHANGED <<dbVars, memVars, launch, cancel, pump, eng, agentVars>>

DelCancel ==
  LET k == Pick(IdleCancel) IN
  /\ del.pc = "cancel"
  /\ IF CanCancel(row[del.t])
       THEN StartCancel(del.t) /\ del' = [del EXCEPT !.pc = "wait", !.k = k]
       ELSE DTo("read") /\ UNCHANGED <<row, owed, noise, cancel>>
  /\ UNCHANGED <<conv, disk, memVars, launch, pump, eng, agentVars>>

DelWait ==
  /\ del.pc = "wait" /\ cancel[del.k].pc = "idle" /\ DTo("read")
  /\ UNCHANGED <<dbVars, memVars, launch, cancel, pump, eng, agentVars>>

(* cleanup_task: its own look at the status, the folder lock, then git. *)
DelClean ==
  /\ del.pc = "clean" /\ DTo(IF del.wt /\ ~In(row[del.t], Waiting) THEN "remove" ELSE "drop")
  /\ UNCHANGED <<dbVars, memVars, launch, cancel, pump, eng, agentVars>>

DelRemove ==
  LET t == del.t IN
  /\ del.pc = "remove" /\ DTo("drop")
  /\ IF row[t].wt /\ OfTask(t) = {}
       THEN disk' = [disk EXCEPT ![t] = FALSE] /\ Put(t, [row[t] EXCEPT !.wt = FALSE])
       ELSE UNCHANGED <<disk, row>>
  /\ UNCHANGED <<conv, owed, noise, memVars, launch, cancel, pump, eng, agentVars>>

DelDrop ==
  LET t == del.t IN
  /\ del.pc = "drop"
  /\ IF CanDelete(row[t], del.seen) THEN Put(t, Deleted(row[t])) /\ del' = NoDelete
     ELSE DTo("read") /\ UNCHANGED row
  /\ UNCHANGED <<conv, disk, owed, noise, memVars, launch, cancel, pump, eng, agentVars>>

Delete == DelRead \/ DelCancel \/ DelWait \/ DelClean \/ DelRemove \/ DelDrop
------------------------------------------------------------------------------
(* A restart.  The engine answers calls as soon as it is built; run_task_engine *)
(* fails what it takes for interrupted, and only then subscribes.               *)
Restart ==
  /\ boot.pc = "up" /\ boot.n < MaxRestarts
  /\ boot' = [pc |-> "list", left |-> {}, seen |-> [t \in Tasks |-> row[t].seq], n |-> boot.n + 1]
  /\ launching' = [t \in Tasks |-> 0] /\ slot' = [t \in Tasks |-> NoSlot]
  /\ lock' = [t \in Tasks |-> <<>>] /\ pumpDue' = FALSE
  /\ launch' = [p \in Launches |-> NoLaunch] /\ cancel' = [k \in Cancels |-> NoCancel]
  /\ pump' = NoPump /\ eng' = NoWork /\ del' = NoDelete
  /\ index' = [c \in Conns |-> NoGen] /\ awaiting' = [t \in Tasks |-> {}]
  /\ conn' = [c \in Conns |-> Agent("gone", None)] /\ bus' = <<>>
  /\ UNCHANGED <<dbVars, told, lost>>

BootList ==
  /\ boot.pc = "list" /\ boot' = [boot EXCEPT !.pc = "fail", !.left = Active(Waiting)]
  /\ UNCHANGED <<dbVars, memVars, procVars, conn, bus, told, lost>>

BootFail(t) ==
  /\ t \in boot.left /\ boot' = [boot EXCEPT !.left = @ \ {t}]
  /\ IF In(row[t], Waiting) THEN Put(t, Failed(row[t])) /\ Unanswered(t)
     ELSE UNCHANGED <<row, owed, noise>>
  /\ UNCHANGED <<conv, disk, memVars, procVars, conn, bus, told, lost>>

BootDone ==
  /\ boot.pc = "fail" /\ boot.left = {} /\ boot' = [boot EXCEPT !.pc = "up"]
  /\ UNCHANGED <<dbVars, memVars, procVars, conn, bus, told, lost>>

Boot == BootList \/ (\E t \in Tasks : BootFail(t)) \/ BootDone
------------------------------------------------------------------------------
User == \E t \in Tasks :
  \/ "start" \in UserCalls /\ Start(t)
  \/ "retry" \in UserCalls /\ Retry(t)
  \/ "requeue" \in UserCalls /\ Requeue(t)
  \/ "return" \in UserCalls /\ Return(t)
  \/ "cancel" \in UserCalls /\ Cancel(t)
  \/ "delete" \in UserCalls /\ DelBegin(t)
  \/ "chat" \in UserCalls /\ (Chat(t) \/ \E c \in Conns : ChatPrompt(c))

Next ==
  \/ User \/ Pump \/ Agents \/ Engine \/ Delete \/ Restart \/ Boot
  \/ \E p \in Launches : Launch(p)
  \/ \E k \in Cancels : Canceling(k)

Spec == Init /\ [][Next]_vars

(* What tokio, the sweeps and the agents give: every task that can go on does;  *)
(* the ticks of the event loop get their turn among the events.  An init        *)
(* command ends when it is killed; left alone it may run for ever.             *)
Fairness ==
  /\ WF_vars(Pump) /\ WF_vars(EngPop) /\ WF_vars(Settling) /\ WF_vars(EngBacklog) /\ WF_vars(Boot)
  /\ WF_vars(Delete)
  /\ \A p \in Launches : WF_vars(LaunchStep(p)) /\ WF_vars(LaunchKilled(p))
  /\ \A k \in Cancels : WF_vars(Canceling(k))
  /\ \A t \in Tasks : SF_vars(EngSweep(t))
  /\ \A c \in Conns : WF_vars(IdleSweep(c)) /\ WF_vars(\E stop \in Stops : EndTurn(c, stop))
FairSpec == Spec /\ Fairness
InitEndsSpec == FairSpec /\ \A p \in Launches : WF_vars(LaunchChild(p))
------------------------------------------------------------------------------
TypeOK ==
  /\ row \in [Tasks -> [st : Statuses, seq : 0..MaxSeq, err : BOOLEAN, verdict : {None}, plan : {None},
                         pend : {None}, light : {None}, conn : Conns \cup {None}, conv : BOOLEAN,
                         wt : BOOLEAN, arch : {FALSE}, del : BOOLEAN]]
  /\ conv \in [Tasks -> {"none", "InProgress", "PendingReview", "Cancelled"}]
  /\ disk \in [Tasks -> BOOLEAN] /\ launching \in [Tasks -> Launches \cup {0}]
  /\ slot \in [Tasks -> [seq : -1..MaxSeq, kill : BOOLEAN]]
  /\ \A t \in Tasks : lock[t] \in Seq(Launches \cup Cancels) /\ awaiting[t] \subseteq Reqs
  /\ \A c \in Conns : /\ index[c].t \in Tasks \cup {None} /\ index[c].seq \in 0..MaxSeq
                      /\ conn[c].s \in Gone \cup {"idle", "turn", "chat", "chatting"}
                      /\ conn[c].asks \subseteq Reqs
  /\ pumpDue \in BOOLEAN /\ lost \in 0..MaxLost /\ boot.n \in 0..MaxRestarts

(* The pump never takes more tasks into work than max_concurrent, however its   *)
(* two counts (of launches in memory, of rows in the database) interleave with  *)
(* launches that move from one to the other (pump_folder).                      *)
WithinLimit ==
  MaxConcurrent = 0 \/ Cardinality(Active({"preparing"} \cup Live)) <= MaxConcurrent

(* A settle into review is what tells the engine that nothing is owed to the    *)
(* user any more: the run it settles was sent a prompt, and the prompt carried  *)
(* the last instruction that the user gave (settle_review with                  *)
(* outstanding_instruction).                                                   *)
ReviewAnswers ==
  \A t \in Tasks : row[t].st \in Live /\ row'[t].st = "review" =>
    told[t] = [seq |-> row[t].seq, note |-> owed[t]]

(* The card of a run whose agent is at work says "awaiting" just when a request *)
(* of it is open, once the engine has seen all its events (track_request).      *)
Watched(t, c) == /\ row[t].conn = c /\ In(row[t], Live) /\ index[c] = [t |-> t, seq |-> row[t].seq]
                 /\ conn[c].s = "turn" /\ told[t].seq = row[t].seq /\ bus = <<>> /\ eng.pc = "idle"
AwaitingTruth ==
  \A t \in Tasks, c \in Conns : Watched(t, c) => (row[t].st = "awaiting" <=> conn[c].asks # {})

(* No agent works for a task that is not running, once the calls and launches   *)
(* that deal with the task are through (cancel and launch on the task lock).    *)
Quiet(t) == /\ \A p \in Launches : launch[p].t # t
            /\ \A k \in Cancels : cancel[k].t # t
            /\ eng.t # t
NoStray == \A t \in Tasks, c \in Conns :
  Quiet(t) /\ ~In(row[t], Live) => ~(conn[c].s = "turn" /\ conn[c].t = t)

(* Two agents never work in the worktree of one task (the task lock).           *)
OneAgent == \A t \in Tasks : Cardinality({c \in Conns : conn[c].s = "turn" /\ conn[c].t = t}) <= 1

(* The sweep for orphaned setups never takes a row from the launch that works   *)
(* on it (reconcile_once with the tokens in launching).                        *)
NoStolenSetup ==
  \A t \in Tasks : eng.pc = "orphan" /\ eng' = NoWork /\ row'[t] # row[t] =>
    \A p \in Launches : ~(launch[p].t = t /\ launch[p].seq = row[t].seq)

(* A turn that ends settles the generation it belongs to, never a newer one     *)
(* (on_turn_complete, reconcile_once).                                         *)
SettlesOwn ==
  \A t \in Tasks : eng.pc = "settle" /\ eng' = NoWork /\ row'[t] # row[t] => eng.seq = row[t].seq

(* A cancel stops the setup and the agent of the generation that it canceled,   *)
(* never those of a newer one (cancel, kill_setup_child).                       *)
CancelHitsOwn ==
  \A k \in Cancels :
    /\ cancel[k].pc = "kill" /\ cancel'[k].pc = "lock" /\ slot' # slot =>
         slot[cancel[k].t].seq = cancel[k].seq
    /\ cancel[k].pc = "find" /\ cancel'[k].pc = "stop" =>
         index[cancel'[k].c].seq = cancel[k].seq

(* A task that is deleted with its worktree leaves none behind                  *)
(* (work_task_delete_core).                                                    *)
NoOrphanTree == \A t \in Tasks : Quiet(t) /\ row[t].del => ~disk[t]

(* The worktree is not removed under an agent at work (cleanup_task).           *)
TreeUnderAgent == \A t \in Tasks, c \in Conns : conn[c].s = "turn" /\ conn[c].t = t => disk[t]

(* The boot fails runs that the restart interrupted, not one started since      *)
(* (boot_reconcile_interrupted).                                               *)
BootFailsOld ==
  \A t \in Tasks : t \in boot.left /\ t \notin boot'.left /\ row'[t] # row[t] =>
    row[t].seq = boot.seen[t]

(* No run is left whose agent is gone (reconcile_once).                         *)
NoneOrphaned == \A t \in Tasks, c \in Conns :
  In(row[t], Live) /\ row[t].conn = c => conn[c].s \notin Gone

(* No task is left in the queue or in its setup (pump_folder, launch).          *)
Drained == \A t \in Tasks : ~In(row[t], {"queued", "preparing"})

(* No cancel call is left waiting (cancel, kill_setup_child).                    *)
CancelsReturned == \A k \in Cancels : cancel[k].pc = "idle"
=============================================================================
