------------------------------- MODULE UpdateState -------------------------------
(***************************************************************************)
(* The self-update of the server: one shared snapshot (update/state.rs),   *)
(* the op-lock (system_op_lock) and the requests that claim them           *)
(* (web/handlers/app_update.rs), and a client that follows the snapshot    *)
(* through events and fetches (update-provider.tsx).                       *)
(*                                                                         *)
(* A request first claims the snapshot (one critical section of its lock), *)
(* then try-locks the op-lock, then works.  A snapshot is emitted after    *)
(* the section in which it was written, so the events of two requests may  *)
(* reach the socket out of order; a client keeps the one with the highest  *)
(* seq.  What an operation does to the files is UpdateInstall's subject:   *)
(* here it ends well or badly.                                             *)
(***************************************************************************)
EXTENDS Naturals, Sequences

CONSTANTS
  Requests,      \* HTTP requests for an operation, each used once
  Idle, Downloading, Installing, ReadyToRestart, Restarting, Error,
  Free,          \* the op-lock is not held / nothing to emit
  Watched,       \* whether a client follows the snapshot
  MaxSeq,        \* bound: transitions of the snapshot in one process
  MaxProcesses,  \* bound: processes of the server, one after the other
  MaxDrops       \* bound: losses of the client's socket

VARIABLES
  state,    \* AppUpdateState of the running process: seq, status
  lock,     \* system_op_lock: Free or the request that holds it
  pc,       \* per request: how far its handler or its task is
  claimed,  \* per request: the seq its claim of a download was given
  out,      \* per request: the snapshot it wrote and has not yet emitted
  staged,   \* a new version is in place on disk, not yet relaunched into
  process,  \* processes started so far
  wire,     \* the client's socket: events sent and not yet received
  client,   \* the renderer: connected, shown, latestSeqRef, resyncEpochRef
  fetch,    \* getAppUpdateState in flight: the epoch it was sent in, its answer
  drops     \* sockets lost so far

vars == <<state, lock, pc, claimed, out, staged, process, wire, client, fetch, drops>>
server == <<state, lock, pc, claimed, out, staged, process>>
renderer == <<wire, client, fetch, drops>>

Claimable == {Idle, Error, ReadyToRestart}
Status == Claimable \cup {Downloading, Installing, Restarting}

Init ==
  /\ state = [seq |-> 0, status |-> Idle]
  /\ lock = Free
  /\ pc = [r \in Requests |-> "new"]
  /\ claimed = [r \in Requests |-> 0]
  /\ out = [r \in Requests |-> Free]
  /\ staged = FALSE
  /\ process = 1
  /\ wire = <<>>
  /\ client = [connected |-> Watched, shown |-> [seq |-> 0, status |-> Idle],
               latest |-> 0, epoch |-> 0]
  /\ fetch = IF Watched THEN {[epoch |-> 0, answer |-> Free]} ELSE {}
  /\ drops = 0

(* ---- the snapshot ------------------------------------------------------ *)

\* Write the next snapshot for request r, to be emitted once the lock is released.
Write(r, status) ==
  /\ state.seq < MaxSeq
  /\ state' = [seq |-> state.seq + 1, status |-> status]
  /\ out' = [out EXCEPT ![r] = state']

\* The statuses each operation may claim the snapshot from.
BeginsTwice == {Idle, Error, Downloading}
BeginsStaged == Claimable
Begins == {Idle, Error}
Restarts == {ReadyToRestart}
RollsBack == {Idle, Error}

\* emit_event, after the critical section.  A client that is not connected misses it.
Emit(r) ==
  /\ out[r] # Free
  /\ out' = [out EXCEPT ![r] = Free]
  /\ wire' = IF client.connected THEN Append(wire, out[r]) ELSE wire
  /\ UNCHANGED <<state, lock, pc, claimed, staged, process, client, fetch, drops>>

Step(r, from, to) ==
  /\ pc[r] = from /\ out[r] = Free
  /\ pc' = [pc EXCEPT ![r] = to]

(* ---- perform ----------------------------------------------------------- *)

\* try_begin; a request that finds an operation under way returns its snapshot.
try_begin(r) ==
  /\ Step(r, "new", "begun")
  /\ state.status \in Begins
  /\ Write(r, Downloading)
  /\ claimed' = [claimed EXCEPT ![r] = state'.seq]
  /\ UNCHANGED <<lock, staged, process>>

\* abort_claim: back to Idle, unless the snapshot has moved on since.
abort_claim(r) ==
  IF state.seq = claimed[r]
  THEN Write(r, Idle)
  ELSE UNCHANGED <<state, out>>

\* perform_impl after the claim: the task takes the op-lock with it.
PerformLocks(r) ==
  /\ Step(r, "begun", IF lock = Free THEN "downloading" ELSE "done")
  /\ IF lock = Free
     THEN lock' = r /\ UNCHANGED <<state, out>>
     ELSE abort_claim(r) /\ UNCHANGED lock
  /\ UNCHANGED <<claimed, staged, process>>

\* ProgressEmitter::downloading: always written, emitted only when due.
downloading(r) ==
  /\ pc[r] = "downloading" /\ out[r] = Free
  /\ state.status \in {Downloading, Installing}
  /\ \/ Write(r, Downloading)
     \/ /\ state.seq < MaxSeq
        /\ state' = [seq |-> state.seq + 1, status |-> Downloading]
        /\ UNCHANGED out
  /\ UNCHANGED <<lock, pc, claimed, staged, process>>

\* The bytes have landed: verify, extract, swap.
set_installing(r) ==
  /\ Step(r, "downloading", "installing")
  /\ Write(r, Installing)
  /\ UNCHANGED <<lock, claimed, staged, process>>

\* perform_update returns, and the guard is dropped before the end is published.
KeepLocked(r) == UNCHANGED lock
Release(r) == lock' = Free
PerformEnds(r) ==
  \/ /\ Step(r, "installing", "ready")
     /\ staged' = TRUE
     /\ Release(r)
     /\ UNCHANGED <<state, claimed, out, process>>
  \/ /\ pc[r] \in {"downloading", "installing"} /\ out[r] = Free
     /\ pc' = [pc EXCEPT ![r] = "failed"]
     /\ Release(r)
     /\ UNCHANGED <<state, claimed, out, staged, process>>

\* set_ready, set_error: the end of the operation becomes claimable.
set_ready(r) ==
  /\ Step(r, "ready", "closing")
  /\ Write(r, ReadyToRestart)
  /\ UNCHANGED <<lock, claimed, staged, process>>
set_error(r) ==
  /\ Step(r, "failed", "closing")
  /\ Write(r, Error)
  /\ UNCHANGED <<lock, claimed, staged, process>>

\* The handler or the task returns; a guard it still holds is dropped.
Return(r) ==
  /\ Step(r, "closing", "done")
  /\ lock' = IF lock = r THEN Free ELSE lock
  /\ UNCHANGED <<state, claimed, out, staged, process>>

(* ---- restart and rollback ---------------------------------------------- *)

try_claim_restart(r) ==
  /\ Step(r, "new", "restart")
  /\ state.status \in Restarts
  /\ Write(r, Restarting)
  /\ UNCHANGED <<lock, claimed, staged, process>>

try_claim_rollback(r) ==
  /\ Step(r, "new", "rollback")
  /\ state.status \in RollsBack
  /\ Write(r, Restarting)
  /\ UNCHANGED <<lock, claimed, staged, process>>

\* restart_impl and rollback_impl after the claim; a lock that is taken is an error.
ClaimLocks(r, from, to) ==
  /\ Step(r, from, IF lock = Free THEN to ELSE "done")
  /\ IF lock = Free
     THEN lock' = r /\ UNCHANGED <<state, out>>
     ELSE Write(r, Error) /\ UNCHANGED lock
  /\ UNCHANGED <<claimed, staged, process>>
RestartLocks(r) == ClaimLocks(r, "restart", "leaving")
RollbackLocks(r) == ClaimLocks(r, "rollback", "restoring")

\* install::rollback; with nothing to restore the guard is dropped and Error published.
RollbackForgets(r) ==
  /\ \/ Step(r, "restoring", "leaving") /\ UNCHANGED lock
     \/ Step(r, "restoring", "done") /\ Release(r)
  /\ UNCHANGED <<state, claimed, out, staged, process>>
Rollback(r) ==
  /\ \/ Step(r, "restoring", "leaving") /\ UNCHANGED lock
     \/ Step(r, "restoring", "failed") /\ Release(r)
  /\ UNCHANGED <<state, claimed, out, staged, process>>

Handler(r) ==
  /\ \/ try_begin(r) \/ PerformLocks(r) \/ downloading(r) \/ set_installing(r)
     \/ PerformEnds(r) \/ set_ready(r) \/ set_error(r) \/ Return(r)
     \/ try_claim_restart(r) \/ try_claim_rollback(r)
     \/ RestartLocks(r) \/ RollbackLocks(r) \/ Rollback(r)
  /\ UNCHANGED renderer

\* Another process begins, with a fresh snapshot and a free lock: the sockets are
\* closed, unanswered fetches fail, answered ones may still arrive.
NewProcess ==
  /\ state' = [seq |-> 0, status |-> Idle]
  /\ lock' = Free
  /\ pc' = [r \in Requests |-> IF pc[r] = "new" THEN "new" ELSE "done"]
  /\ claimed' = [r \in Requests |-> 0]
  /\ out' = [r \in Requests |-> Free]
  /\ staged' = FALSE
  /\ process' = process + 1
  /\ wire' = <<>>
  /\ client' = [client EXCEPT !.connected = FALSE]
  /\ fetch' = {f \in fetch : f.answer # Free}
  /\ UNCHANGED drops

\* schedule_restart, after the delay: the guard dies with the process.
restart_now(r) == pc[r] = "leaving" /\ out[r] = Free /\ NewProcess

\* The process is killed and started again, at any time.
Crash == process < MaxProcesses /\ NewProcess

(* ---- the renderer ------------------------------------------------------ *)

\* applyState: older snapshots than the newest one seen are dropped.
applyState(c, s) ==
  IF s.seq < c.latest THEN c ELSE [c EXCEPT !.shown = s, !.latest = s.seq]

Receive ==
  /\ client.connected /\ wire # <<>>
  /\ client' = applyState(client, Head(wire))
  /\ wire' = Tail(wire)
  /\ UNCHANGED <<server, fetch, drops>>

Disconnect ==
  /\ client.connected /\ drops < MaxDrops
  /\ drops' = drops + 1
  /\ client' = [client EXCEPT !.connected = FALSE]
  /\ wire' = <<>>
  /\ UNCHANGED <<server, fetch>>

\* onReconnect: resync with a reset of the high-water mark, in a new epoch.
KeepLatest(c) == [c EXCEPT !.epoch = @ + 1]
Reset(c) == [c EXCEPT !.epoch = @ + 1, !.latest = 0]
Reconnect ==
  /\ Watched /\ ~client.connected
  /\ client' = [Reset(client) EXCEPT !.connected = TRUE]
  /\ fetch' = fetch \cup {[epoch |-> client.epoch + 1, answer |-> Free]}
  /\ UNCHANGED <<server, wire, drops>>

\* app_update_state: the server reads the snapshot for a fetch.
Answer(f) ==
  /\ f.answer = Free
  /\ fetch' = (fetch \ {f}) \cup {[f EXCEPT !.answer = state]}
  /\ UNCHANGED <<server, wire, client, drops>>

\* The answer arrives; one of an earlier epoch is discarded.
AnyEpoch(c, f) == applyState(c, f.answer)
Resolved(c, f) == IF f.epoch = c.epoch THEN applyState(c, f.answer) ELSE c
Resolve(f) ==
  /\ f.answer # Free
  /\ client' = Resolved(client, f)
  /\ fetch' = fetch \ {f}
  /\ UNCHANGED <<server, wire, drops>>

Next ==
  \/ \E r \in Requests : Handler(r) \/ Emit(r) \/ restart_now(r)
  \/ Crash
  \/ Receive \/ Disconnect \/ Reconnect
  \/ \E f \in fetch : Answer(f) \/ Resolve(f)

\* The runtime polls every task it has; the socket delivers what was sent; the
\* transport reconnects and the fetch of a connected client is answered.
Fairness ==
  /\ \A r \in Requests : WF_vars(Emit(r))
  /\ WF_vars(Receive)
  /\ WF_vars(Reconnect)
  /\ WF_vars(\E f \in fetch : Answer(f))
  /\ WF_vars(\E f \in fetch : Resolve(f))

Spec == Init /\ [][Next]_vars /\ Fairness

-----------------------------------------------------------------------------
Working == {"begun", "downloading", "installing", "ready", "restart", "rollback",
            "restoring", "leaving"}
Snapshots == [seq : Nat, status : Status]

(* Types; and one operation at a time: a second one would swap or restore the *)
(* files under the first (try_begin, try_claim_rollback).                     *)
TypeOK ==
  /\ state \in Snapshots /\ staged \in BOOLEAN /\ {process, drops} \subseteq Nat
  /\ lock \in Requests \cup {Free}
  /\ pc \in [Requests -> Working \cup {"new", "failed", "closing", "done"}]
  /\ claimed \in [Requests -> Nat]
  /\ out \in [Requests -> Snapshots \cup {Free}]
  /\ wire \in Seq(Snapshots)
  /\ client \in [connected : BOOLEAN, shown : Snapshots, latest : Nat, epoch : Nat]
  /\ fetch \subseteq [epoch : Nat, answer : Snapshots \cup {Free}]
  /\ \A r, q \in Requests : pc[r] \in Working /\ pc[q] \in Working => r = q

(* Whoever can claim the snapshot finds the op-lock free: the restart and the *)
(* rollback call the other case unreachable, and in it a staged update would  *)
(* be reported as an error (restart_impl, publish_after_releasing).           *)
LockFollowsClaim ==
  /\ state.status \in Claimable => lock = Free
  /\ \A r \in Requests : pc[r] \in {"begun", "restart", "rollback"} => lock = Free

(* A version in place on disk is never reported as an idle or failed update,  *)
(* and once ready it stays so until the relaunch: else nobody restarts into   *)
(* it, and the next rollback or download takes its backup.                    *)
StagedIsReported ==
  staged => state.status \in {Installing, ReadyToRestart, Restarting}

(* The operation of the running process that holds the snapshot is alive: an  *)
(* operation cannot die and leave "downloading" or "restarting" behind.       *)
ClaimHasOwner ==
  state.status \notin Claimable =>
    \E r \in Requests : pc[r] \in Working \cup {"failed"}

(* The client shows what the server is doing.                                 *)
ShowsServer == client.shown.status = state.status
=============================================================================
