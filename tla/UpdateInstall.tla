------------------------------ MODULE UpdateInstall ------------------------------
(***************************************************************************)
(* What a self-update does on disk (update/install.rs), under the          *)
(* supervisor that relaunches the server (supervise.rs).                   *)
(*                                                                         *)
(* A bundle is three artifacts.  perform_update swaps them one by one,     *)
(* web, mcp, server, keeps each previous one as .bak, and ends with a      *)
(* marker file; a failure undoes the swap.  The next launch that sees the  *)
(* marker is a trial: if the worker dies within the trial window, the      *)
(* supervisor restores the .baks and relaunches.  A worker that outlives   *)
(* the window removes the marker.                                          *)
(*                                                                         *)
(* One operation runs at a time: UpdateState shows it.  A file system call *)
(* may fail (Faults), and worker and machine may stop, in the middle of an *)
(* operation too where MidCrash says so.                                   *)
(***************************************************************************)
EXTENDS Naturals, Sequences

CONSTANTS
  web, mcp, server,  \* the artifacts of a bundle
  None,              \* no such file
  Latest,            \* versions are 0..Latest; 1 runs at first, 0 came before it
  Bad,               \* versions whose worker does not outlive the trial window
  Faults,            \* calls that may fail, of Calls
  MaxFaults,         \* bound: failed calls
  MaxStops,          \* bound: workers killed and machines stopped
  MaxRollbacks,      \* bound: rollbacks asked for by a user
  MidCrash           \* whether these stops may hit an operation

Calls == {"stage", "link", "commit", "keep", "mark", "restore", "restore server"}

UpdateAssumption ==
  /\ Latest \in Nat \ {0} /\ Bad \subseteq 2..Latest /\ MidCrash \in BOOLEAN
  /\ Faults \subseteq Calls
  /\ {MaxFaults, MaxStops, MaxRollbacks} \subseteq Nat

VARIABLES
  live, bak,   \* per artifact: the version in place, and the one kept as .bak
  marker,      \* .codeg-upgrade-staged is on disk
  released,    \* the version of the latest manifest
  worker,      \* the server: running or not, its version, whether its trial
               \* task is to clear the marker
  op,          \* the operation on the files: kind, who runs it, target version,
               \* old web tree, artifacts left, step within the first of them, whether one was restored
  sup,         \* the supervisor: up, on_trial, still within the trial window
  proven,      \* versions that ran before, or outlived their trial
  budget       \* failed calls, stops and user rollbacks so far

vars == <<live, bak, marker, released, worker, op, sup, proven, budget>>
files == <<live, bak, marker>>
processes == <<worker, sup>>
ghosts == <<released, proven>>

Artifacts == {web, mcp, server}
Versions == 0..Latest
All(v) == [a \in Artifacts |-> v]
Idle == [kind |-> "idle", by |-> "worker", to |-> None, old |-> None, todo |-> <<>>,
         step |-> "", restored |-> FALSE]

Init ==
  /\ live = All(1)
  /\ bak \in {All(0), All(None)}
  /\ marker = FALSE
  /\ released = 1
  /\ worker = [up |-> TRUE, version |-> 1, clears |-> FALSE]
  /\ op = Idle
  /\ sup = [up |-> TRUE, onTrial |-> FALSE, window |-> TRUE]
  /\ proven = {0, 1}
  /\ budget = [faults |-> 0, stops |-> 0, rollbacks |-> 0]

Fault(f) ==
  /\ f \in Faults /\ budget.faults < MaxFaults
  /\ budget' = [budget EXCEPT !.faults = @ + 1]

Release ==
  /\ released < Latest /\ released' = released + 1
  /\ UNCHANGED <<files, processes, op, proven, budget>>

(* ---- perform_update ---------------------------------------------------- *)

NeverStaged == FALSE
AlreadyStaged == marker

\* web first, the server last: it is the one a restart relaunches.
ServerFirst == <<server, web, mcp>>
SwapOrder == <<web, mcp, server>>

\* The refusals of perform_update; then the bundle is downloaded and verified.
perform_update ==
  /\ worker.up /\ op = Idle
  /\ ~AlreadyStaged
  /\ released > worker.version
  /\ op' = [Idle EXCEPT !.kind = "swap", !.to = released,
                        !.todo = SwapOrder, !.step = "drop"]
  /\ UNCHANGED <<files, processes, ghosts, budget>>

At(kind, step) == op.kind = kind /\ op.step = step /\ op.todo # <<>>
Art == Head(op.todo)
Goto(step) == op' = [op EXCEPT !.step = step]
NextArtifact(step) == op' = [op EXCEPT !.todo = Tail(@), !.step = step]

\* Back out: what was swapped before is restored, and the error reported.
OnlyMcp == IF op.todo = <<>> THEN <<server, mcp, web>>
           ELSE IF Art = server THEN <<mcp>> ELSE <<>>
Swapped == CASE op.todo = <<>> -> <<server, mcp, web>>
             [] op.todo # <<>> /\ Art = server -> <<mcp, web>>
             [] op.todo # <<>> /\ Art = mcp -> <<web>>
             [] op.todo # <<>> /\ Art = web -> <<>>
Undo == op' = [op EXCEPT !.kind = "undo", !.todo = Swapped, !.step = "remove"]

\* The staged copy is made beside the target; then the old .bak goes.
Drop ==
  /\ At("swap", "drop")
  /\ \/ Goto("keep") /\ bak' = [bak EXCEPT ![Art] = None] /\ UNCHANGED budget
     \/ Fault("stage") /\ Undo /\ UNCHANGED bak
  /\ UNCHANGED <<live, marker, processes, ghosts>>

\* replace_file: a link to the old file, or a copy of it, then one rename over it.
LinkFile ==
  /\ At("swap", "keep") /\ Art # web
  /\ \/ bak' = [bak EXCEPT ![Art] = live[Art]] /\ Goto("commit") /\ UNCHANGED budget
     \/ Fault("link") /\ Undo /\ UNCHANGED bak
  /\ UNCHANGED <<live, marker, processes, ghosts>>
RenameFile ==
  /\ At("swap", "commit") /\ Art # web
  /\ \/ live' = [live EXCEPT ![Art] = op.to] /\ NextArtifact("drop") /\ UNCHANGED budget
     \/ Fault("commit") /\ Undo /\ UNCHANGED live
  /\ UNCHANGED <<bak, marker, processes, ghosts>>

\* replace_dir, by an exchange after which the old tree is renamed to .bak if it can be.
ExchangeDir ==
  /\ At("swap", "keep") /\ Art = web /\ live[web] # None
  /\ live' = [live EXCEPT ![web] = op.to]
  /\ op' = [op EXCEPT !.step = "exchanged", !.old = live[web]]
  /\ UNCHANGED <<bak, marker, processes, ghosts, budget>>
KeepDir ==
  /\ At("swap", "exchanged")
  /\ \/ bak' = [bak EXCEPT ![web] = op.old] /\ UNCHANGED budget
     \/ Fault("keep") /\ UNCHANGED bak
  /\ op' = [op EXCEPT !.todo = Tail(@), !.step = "drop", !.old = None]
  /\ UNCHANGED <<live, marker, processes, ghosts>>

\* replace_dir without it: aside, then in; a directory that is missing is not kept.
MoveDirAside ==
  /\ At("swap", "keep") /\ Art = web
  /\ bak' = [bak EXCEPT ![web] = live[web]]
  /\ live' = [live EXCEPT ![web] = None]
  /\ Goto("commit")
  /\ UNCHANGED <<marker, processes, ghosts, budget>>
MoveDirIn ==
  /\ At("swap", "commit") /\ Art = web
  /\ \/ /\ live' = [live EXCEPT ![web] = op.to]
        /\ NextArtifact("drop") /\ UNCHANGED <<bak, budget>>
     \/ /\ Fault("commit") /\ Undo
        /\ live' = [live EXCEPT ![web] = bak[web]]
        /\ bak' = [bak EXCEPT ![web] = None]
  /\ UNCHANGED <<marker, processes, ghosts>>

\* mark_upgrade_staged; without the marker the swap is undone.
Mark ==
  /\ op.kind = "swap" /\ op.todo = <<>>
  /\ \/ marker' = TRUE /\ op' = [op EXCEPT !.kind = "ready"] /\ UNCHANGED budget
     \/ Fault("mark") /\ Undo /\ UNCHANGED marker
  /\ UNCHANGED <<live, bak, processes, ghosts>>

(* ---- restoring the .baks ------------------------------------------------ *)

Restoring == op.kind \in {"undo", "rollback"} /\ op.todo # <<>>

\* restore_from_bak: remove the target, then rename the .bak; none is no error.
RestoreNothing ==
  /\ Restoring /\ op.step = "remove" /\ bak[Art] = None
  /\ NextArtifact("remove")
  /\ UNCHANGED <<files, processes, ghosts, budget>>
RestoreRemove ==
  /\ Restoring /\ op.step = "remove" /\ bak[Art] # None
  /\ live' = [live EXCEPT ![Art] = None]
  /\ Goto("rename")
  /\ UNCHANGED <<bak, marker, processes, ghosts, budget>>
RestoreRename ==
  /\ Restoring /\ op.step = "rename"
  /\ live' = [live EXCEPT ![Art] = bak[Art]]
  /\ bak' = [bak EXCEPT ![Art] = None]
  /\ op' = [op EXCEPT !.todo = Tail(@), !.step = "remove", !.restored = TRUE]
  /\ UNCHANGED <<marker, processes, ghosts, budget>>

\* The supervisor gives up and exits, the worker reports the error.
GivesUp ==
  /\ op' = Idle
  /\ sup' = [sup EXCEPT !.up = FALSE]
  /\ UNCHANGED worker
RollbackFails ==
  /\ op' = Idle
  /\ sup' = [sup EXCEPT !.up = op.by = "worker"]
  /\ UNCHANGED worker

\* A failed rename ends a rollback; undoing ignores it.
RestoreFault ==
  /\ Restoring /\ op.step = "rename"
  /\ Fault(IF Art = server THEN "restore server" ELSE "restore")
  /\ IF op.kind = "rollback" THEN RollbackFails ELSE NextArtifact("remove") /\ UNCHANGED processes
  /\ UNCHANGED <<files, ghosts>>

UndoEnds ==
  /\ op.kind = "undo" /\ op.todo = <<>>
  /\ op' = Idle
  /\ UNCHANGED <<files, processes, ghosts, budget>>

\* server first in both, and web last.
BinariesOnly == <<server, mcp>>
RestoreOrder == <<server, mcp, web>>
StartRollback(who) ==
  op' = [Idle EXCEPT !.kind = "rollback", !.by = who, !.todo = RestoreOrder, !.step = "remove"]

\* rollback_app, outside any other operation.
user_rollback ==
  /\ worker.up /\ op = Idle /\ budget.rollbacks < MaxRollbacks
  /\ budget' = [budget EXCEPT !.rollbacks = @ + 1]
  /\ StartRollback("worker")
  /\ UNCHANGED <<files, processes, ghosts>>

(* ---- supervisor and worker ----------------------------------------------- *)

\* A worker starts from the file in place; one that sees the marker is to clear it.
Spawn(onTrial, m) ==
  IF live[server] = None
  THEN sup' = [sup EXCEPT !.up = FALSE] /\ worker' = [worker EXCEPT !.up = FALSE]
  ELSE /\ sup' = [up |-> TRUE, onTrial |-> onTrial, window |-> TRUE]
       /\ worker' = [up |-> TRUE, version |-> live[server], clears |-> m]

\* The launches of the supervisor look whether the marker is there.
TrialAtRestart == sup.up /\ marker
OnTrial == marker

\* rollback() returns: with nothing restored it fails, else the marker goes.
RollbackEnds ==
  /\ op.kind = "rollback" /\ op.todo = <<>>
  /\ IF ~op.restored THEN RollbackFails /\ UNCHANGED marker
     ELSE /\ marker' = FALSE
          /\ IF op.by = "worker"
             THEN op' = [Idle EXCEPT !.kind = "exit"] /\ UNCHANGED processes
             ELSE op' = Idle /\ Spawn(FALSE, FALSE)
  /\ UNCHANGED <<live, bak, ghosts, budget>>

\* spawn_trial: a bad version that cannot even be spawned is rolled back; without a
\* trial the supervisor exits.
SpawnFails ==
  /\ live[server] \in Bad /\ worker' = [worker EXCEPT !.up = FALSE]
  /\ IF OnTrial THEN StartRollback("supervisor") /\ sup' = [sup EXCEPT !.onTrial = FALSE]
     ELSE op' = Idle /\ sup' = [sup EXCEPT !.up = FALSE]

\* EXIT_RESTART, asked for by a user or after a rollback: relaunch after the delay.
Relaunch ==
  /\ worker.up /\ op.kind \in {"ready", "exit"}
  /\ SpawnFails \/ (op' = Idle /\ Spawn(OnTrial, marker))
  /\ UNCHANGED <<files, ghosts, budget>>

\* Another exit of the worker: within the trial window it is rolled back, once;
\* otherwise the supervisor exits with it.
WorkerExits ==
  /\ worker' = [worker EXCEPT !.up = FALSE]
  /\ IF sup.onTrial /\ sup.window
     THEN StartRollback("supervisor") /\ UNCHANGED sup
     ELSE op' = Idle /\ sup' = [sup EXCEPT !.up = FALSE]

Stoppable == MidCrash \/ op.kind \in {"idle", "ready", "exit"}
Stop == budget.stops < MaxStops /\ budget' = [budget EXCEPT !.stops = @ + 1] /\ Stoppable

BadExits ==
  /\ worker.up /\ worker.version \in Bad /\ Stoppable
  /\ WorkerExits
  /\ UNCHANGED <<files, ghosts, budget>>
Killed ==
  /\ worker.up /\ Stop /\ WorkerExits
  /\ UNCHANGED <<files, ghosts>>
MachineStops ==
  /\ sup.up /\ Stop
  /\ op' = Idle
  /\ worker' = [worker EXCEPT !.up = FALSE]
  /\ sup' = [sup EXCEPT !.up = FALSE]
  /\ UNCHANGED <<files, ghosts>>

\* The container is started again: its entry point is the server binary itself.
ContainerStart ==
  /\ ~sup.up /\ live[server] # None
  /\ Spawn(OnTrial, marker)
  /\ UNCHANGED <<files, op, ghosts, budget>>

\* The supervisor's window closes first: it was stamped before the spawn.
WindowCloses ==
  /\ worker.up /\ sup.window /\ worker.version \notin Bad
  /\ sup' = [sup EXCEPT !.window = FALSE]
  /\ UNCHANGED <<files, worker, op, ghosts, budget>>
WhenSpawned == worker.clears
Outlived == worker.clears /\ ~sup.window
ClearMarker ==
  /\ worker.up /\ Outlived
  /\ marker' = FALSE
  /\ worker' = [worker EXCEPT !.clears = FALSE]
  /\ proven' = IF sup.window THEN proven ELSE proven \cup {worker.version}
  /\ UNCHANGED <<live, bak, sup, op, released, budget>>

FilesStep ==
  \/ Drop \/ LinkFile \/ RenameFile \/ ExchangeDir \/ KeepDir \/ MoveDirAside \/ MoveDirIn
  \/ Mark \/ RestoreNothing \/ RestoreRemove \/ RestoreRename \/ RestoreFault
  \/ UndoEnds \/ RollbackEnds

Next ==
  \/ Release \/ perform_update \/ user_rollback \/ FilesStep
  \/ Relaunch \/ BadExits \/ Killed \/ MachineStops \/ ContainerStart
  \/ WindowCloses \/ ClearMarker

Spec == Init /\ [][Next]_vars

\* An operation goes on, a bad version exits, a container is restarted.
FairSpec ==
  /\ Spec
  /\ WF_vars(FilesStep) /\ WF_vars(op.kind = "exit" /\ Relaunch) /\ WF_vars(BadExits) /\ WF_vars(ContainerStart)

-----------------------------------------------------------------------------
Files == Versions \cup {None}

(* Types.                                                                     *)
TypeOK ==
  /\ live \in [Artifacts -> Files] /\ bak \in [Artifacts -> Files] /\ marker \in BOOLEAN
  /\ released \in Versions /\ proven \subseteq Versions
  /\ worker \in [up : BOOLEAN, version : Versions, clears : BOOLEAN]
  /\ sup \in [up : BOOLEAN, onTrial : BOOLEAN, window : BOOLEAN]
  /\ op.kind \in {"idle", "swap", "undo", "rollback", "ready", "exit"}
  /\ op.by = "supervisor" => op.kind = "rollback" /\ ~worker.up
  /\ worker.up => sup.up

(* A server outside an operation has its own bundle in place, whole, whether  *)
(* the last update failed, was undone, rolled back or survived its trial; and *)
(* a staged one is complete, with the running version kept for a rollback.    *)
BundleWhole ==
  worker.up =>
    /\ op.kind = "idle" => live = All(worker.version)
    /\ op.kind = "ready" => live = All(op.to) /\ marker /\ bak = All(worker.version)
    /\ op.kind = "exit" => \E v \in Versions : live = All(v)

(* The .baks of a version that is not proven yet are one whole bundle that    *)
(* is: "re-swapping would move the new files into .bak and a trial-failure    *)
(* rollback would then restore the unproven version" (install.rs).            *)
LastGoodKept ==
  marker /\ op.kind \in {"idle", "ready"} =>
    \E v \in proven : bak = All(v)

(* No mixture of a new server with an older web or mcp, in the middle of an   *)
(* operation, after a crash there, a failed undo or a partial rollback.       *)
ServerNeverAhead ==
  \A a \in Artifacts :
    live[server] # None /\ live[a] # None => live[server] <= live[a]

(* A version that has not survived a trial is launched on trial: "a swap      *)
(* completed in a prior lifetime and the container was restarted before the   *)
(* upgrade-restart fired" (supervise.rs) included.                            *)
UnprovenOnTrial ==
  worker'.up /\ (~worker.up \/ worker'.version # worker.version)
    => worker'.version \in proven \/ sup'.onTrial

(* A rollback that reports success has restored a whole bundle: "Restore the  *)
(* previous bundle from the .bak artifacts" (install.rs).                     *)
RollbackWhole ==
  op.kind = "exit" => \E v \in Versions : live = All(v)

(* "a crash mid-swap can't leave the server binary absent and the container   *)
(* unbootable" (install.rs).                                                  *)
ServerPresent == live[server] # None

(* A version that works is running.                                           *)
Healthy == worker.up /\ worker.version \notin Bad
=============================================================================
