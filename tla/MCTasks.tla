------------------------------ MODULE MCTasks ------------------------------
(* Small instances of TaskRun, TaskMerge and Automation, side by side: a      *)
(* behaviour chooses one of them and is a behaviour of it.                    *)
EXTENDS Integers, Sequences, TLC

CONSTANTS
  Parts,  \* the instances that a configuration checks
  None, c1, c2, t1, t2, q1, q2, user, a1

VARIABLES
  part,   \* the instance that runs
  row, conv, disk, launching, slot, lock, launch, cancel, pump, eng, del, boot,
  pumpDue, index, awaiting, conn, bus, owed, noise, told, lost, state, merging, job, ev, base,
  committed, staged, asks, restarts, auto, run, tree, loop, inbox, edit, now, edits

Limit == INSTANCE TaskRun WITH
  Tasks <- {t1, t2}, Launches <- {1, 2}, Cancels <- {11}, Conns <- {c1, c2}, Reqs <- {},
  ChildReqs <- {}, MaxConcurrent <- 1, AutoProcess <- TRUE, ScanLimit <- 0, MaxSeq <- 1,
  MaxLost <- 0, MaxRestarts <- 0, Sends <- {"sent"}, Stops <- {"end", "blocked"}, UserCalls <- {"start"}
ASSUME LimitAssumption == Limit!PoolsAssumption /\ Limit!BoundsAssumption /\ Limit!ChildAssumption
Requeues == INSTANCE TaskRun WITH
  Tasks <- {t1}, Launches <- {1}, Cancels <- {11}, Conns <- {c1}, Reqs <- {}, ChildReqs <- {},
  MaxConcurrent <- 1, AutoProcess <- FALSE, ScanLimit <- 0, MaxSeq <- 2, MaxLost <- 0,
  MaxRestarts <- 0, Sends <- {"sent"}, Stops <- {}, UserCalls <- {"start", "requeue", "cancel"}
ASSUME RequeuesAssumption == Requeues!PoolsAssumption /\ Requeues!BoundsAssumption /\ Requeues!ChildAssumption
Deletes == INSTANCE TaskRun WITH
  Tasks <- {t1}, Launches <- {1}, Cancels <- {11}, Conns <- {c1}, Reqs <- {},
  ChildReqs <- {}, MaxConcurrent <- 1, AutoProcess <- FALSE, ScanLimit <- 0, MaxSeq <- 2,
  MaxLost <- 0, MaxRestarts <- 0, Sends <- {"sent"}, Stops <- {"end"},
  UserCalls <- {"start", "cancel", "delete"}
ASSUME DeletesAssumption == Deletes!PoolsAssumption /\ Deletes!BoundsAssumption /\ Deletes!ChildAssumption
Returns == INSTANCE TaskRun WITH
  Tasks <- {t1}, Launches <- {1}, Cancels <- {11}, Conns <- {c1, c2}, Reqs <- {},
  ChildReqs <- {}, MaxConcurrent <- 1, AutoProcess <- FALSE, ScanLimit <- 0, MaxSeq <- 2,
  MaxLost <- 0, MaxRestarts <- 0, Sends <- {"sent", "refused"}, Stops <- {"end", "error"},
  UserCalls <- {"start", "return", "cancel"}
ASSUME ReturnsAssumption == Returns!PoolsAssumption /\ Returns!BoundsAssumption /\ Returns!ChildAssumption
Answers == INSTANCE TaskRun WITH
  Tasks <- {t1}, Launches <- {1}, Cancels <- {11}, Conns <- {c1, c2}, Reqs <- {},
  ChildReqs <- {}, MaxConcurrent <- 1, AutoProcess <- FALSE, ScanLimit <- 0, MaxSeq <- 2,
  MaxLost <- 1, MaxRestarts <- 0, Sends <- {"sent"}, Stops <- {"end", "blocked"},
  UserCalls <- {"start", "retry", "cancel"}
ASSUME AnswersAssumption == Answers!PoolsAssumption /\ Answers!BoundsAssumption /\ Answers!ChildAssumption
Waits == INSTANCE TaskRun WITH
  Tasks <- {t1}, Launches <- {1}, Cancels <- {11}, Conns <- {c1, c2}, Reqs <- {q1, q2},
  ChildReqs <- {}, MaxConcurrent <- 1, AutoProcess <- FALSE, ScanLimit <- 0, MaxSeq <- 2,
  MaxLost <- 0, MaxRestarts <- 0, Sends <- {"sent"}, Stops <- {"end", "error"},
  UserCalls <- {"start", "retry"}
ASSUME WaitsAssumption == Waits!PoolsAssumption /\ Waits!BoundsAssumption /\ Waits!ChildAssumption
Boots == INSTANCE TaskRun WITH
  Tasks <- {t1}, Launches <- {1}, Cancels <- {11}, Conns <- {c1}, Reqs <- {}, ChildReqs <- {},
  MaxConcurrent <- 1, AutoProcess <- FALSE, ScanLimit <- 0, MaxSeq <- 2, MaxLost <- 0,
  MaxRestarts <- 1, Sends <- {"sent"}, Stops <- {"end", "error"},
  UserCalls <- {"start", "retry", "chat"}
ASSUME BootsAssumption == Boots!PoolsAssumption /\ Boots!BoundsAssumption /\ Boots!ChildAssumption
Settles == INSTANCE TaskRun WITH
  Tasks <- {t1}, Launches <- {1}, Cancels <- {11}, Conns <- {c1, c2}, Reqs <- {},
  ChildReqs <- {}, MaxConcurrent <- 1, AutoProcess <- FALSE, ScanLimit <- 0, MaxSeq <- 2,
  MaxLost <- 1, MaxRestarts <- 1, Sends <- {"sent"}, Stops <- {"end", "error"},
  UserCalls <- {"start", "cancel"}
ASSUME SettlesAssumption == Settles!PoolsAssumption /\ Settles!BoundsAssumption /\ Settles!ChildAssumption
Drains == INSTANCE TaskRun WITH
  Tasks <- {t1, t2}, Launches <- {1, 2}, Cancels <- {11}, Conns <- {c1, c2}, Reqs <- {},
  ChildReqs <- {}, MaxConcurrent <- 1, AutoProcess <- FALSE, ScanLimit <- 0, MaxSeq <- 1,
  MaxLost <- 0, MaxRestarts <- 0, Sends <- {"sent"}, Stops <- {"end", "blocked"},
  UserCalls <- {"start"}
ASSUME DrainsAssumption == Drains!PoolsAssumption /\ Drains!BoundsAssumption /\ Drains!ChildAssumption
Slot == INSTANCE TaskMerge WITH
  Tasks <- 1..2, User <- user, Changed <- 1..2, Uncommitted <- {}, Jobs <- 1..2, Conns <- {c1},
  Squash <- TRUE, AutoMerge <- FALSE, MaxSeq <- 2, MaxCommits <- 1, MaxAsks <- 2, MaxLost <- 0,
  MaxRestarts <- 0, Sends <- {"sent"}, UserCalls <- {"click", "unqueue"}
ASSUME SlotAssumption == Slot!TasksAssumption /\ Slot!FlagsAssumption /\ Slot!BoundsAssumption
Queue == INSTANCE TaskMerge WITH
  Tasks <- 1..3, User <- user, Changed <- 1..3, Uncommitted <- {}, Jobs <- {1}, Conns <- {c1},
  Squash <- TRUE, AutoMerge <- FALSE, MaxSeq <- 2, MaxCommits <- 1, MaxAsks <- 3, MaxLost <- 0,
  MaxRestarts <- 0, Sends <- {"sent"}, UserCalls <- {"click"}
ASSUME QueueAssumption == Queue!TasksAssumption /\ Queue!FlagsAssumption /\ Queue!BoundsAssumption
Landing == INSTANCE TaskMerge WITH
  Tasks <- {1}, User <- user, Changed <- {1}, Uncommitted <- {}, Jobs <- 1..2, Conns <- {c1},
  Squash <- FALSE, AutoMerge <- FALSE, MaxSeq <- 2, MaxCommits <- 2, MaxAsks <- 2, MaxLost <- 1,
  MaxRestarts <- 1, Sends <- {"sent"}, UserCalls <- {"click", "cancel", "commit"}
ASSUME LandingAssumption == Landing!TasksAssumption /\ Landing!FlagsAssumption /\ Landing!BoundsAssumption
Reworks == INSTANCE TaskMerge WITH
  Tasks <- 1..2, User <- user, Changed <- {1}, Uncommitted <- {}, Jobs <- 1..2, Conns <- {c1},
  Squash <- TRUE, AutoMerge <- FALSE, MaxSeq <- 3, MaxCommits <- 1, MaxAsks <- 1, MaxLost <- 0,
  MaxRestarts <- 0, Sends <- {"sent"}, UserCalls <- {"click", "commit", "complete", "rework"}
ASSUME ReworksAssumption == Reworks!TasksAssumption /\ Reworks!FlagsAssumption /\ Reworks!BoundsAssumption
Train == INSTANCE TaskMerge WITH
  Tasks <- 1..2, User <- user, Changed <- 1..2, Uncommitted <- {}, Jobs <- 1..2, Conns <- {c1},
  Squash <- TRUE, AutoMerge <- TRUE, MaxSeq <- 3, MaxCommits <- 0, MaxAsks <- 0, MaxLost <- 0,
  MaxRestarts <- 0, Sends <- {"sent", "refused"}, UserCalls <- {"click"}
ASSUME TrainAssumption == Train!TasksAssumption /\ Train!FlagsAssumption /\ Train!BoundsAssumption
Resumed == INSTANCE TaskMerge WITH
  Tasks <- 1..2, User <- user, Changed <- 1..2, Uncommitted <- {}, Jobs <- {1}, Conns <- {c1},
  Squash <- TRUE, AutoMerge <- TRUE, MaxSeq <- 3, MaxCommits <- 1, MaxAsks <- 0, MaxLost <- 1,
  MaxRestarts <- 1, Sends <- {"sent", "refused"}, UserCalls <- {"click"}
ASSUME ResumedAssumption == Resumed!TasksAssumption /\ Resumed!FlagsAssumption /\ Resumed!BoundsAssumption
Served == INSTANCE TaskMerge WITH
  Tasks <- 1..2, User <- user, Changed <- 1..2, Uncommitted <- {}, Jobs <- {1}, Conns <- {c1},
  Squash <- TRUE, AutoMerge <- FALSE, MaxSeq <- 2, MaxCommits <- 1, MaxAsks <- 2, MaxLost <- 1,
  MaxRestarts <- 0, Sends <- {"sent"}, UserCalls <- {"click", "stage"}
ASSUME ServedAssumption == Served!TasksAssumption /\ Served!FlagsAssumption /\ Served!BoundsAssumption
Fired == INSTANCE Automation WITH
  Autos <- {a1}, PerRunTree <- {}, Fires <- {1, 2}, Cancels <- {3}, Conns <- {c1}, MaxRuns <- 2,
  MaxNow <- 1, MaxLost <- 0, MaxRestarts <- 0, MaxEdits <- 0, Fails <- {"send"},
  Stops <- {"end_turn"}
ASSUME FiredAssumption == Fired!CallsAssumption /\ Fired!AutosAssumption /\ Fired!BoundsAssumption
Closes == INSTANCE Automation WITH
  Autos <- {a1}, PerRunTree <- {}, Fires <- {1}, Cancels <- {3}, Conns <- {c1}, MaxRuns <- 1,
  MaxNow <- 0, MaxLost <- 1, MaxRestarts <- 0, MaxEdits <- 0, Fails <- {"send"},
  Stops <- {"end_turn", "refusal", "cancelled"}
ASSUME ClosesAssumption == Closes!CallsAssumption /\ Closes!AutosAssumption /\ Closes!BoundsAssumption
Halts == INSTANCE Automation WITH
  Autos <- {a1}, PerRunTree <- {}, Fires <- {1}, Cancels <- {3}, Conns <- {c1}, MaxRuns <- 1,
  MaxNow <- 0, MaxLost <- 0, MaxRestarts <- 0, MaxEdits <- 0, Fails <- {"send"},
  Stops <- {"end_turn"}
ASSUME HaltsAssumption == Halts!CallsAssumption /\ Halts!AutosAssumption /\ Halts!BoundsAssumption
Runs == INSTANCE Automation WITH
  Autos <- {a1}, PerRunTree <- {a1}, Fires <- {1}, Cancels <- {3}, Conns <- {c1}, MaxRuns <- 1,
  MaxNow <- 0, MaxLost <- 1, MaxRestarts <- 1, MaxEdits <- 0, Fails <- {"env", "spawn"},
  Stops <- {"end_turn", "cancelled"}
ASSUME RunsAssumption == Runs!CallsAssumption /\ Runs!AutosAssumption /\ Runs!BoundsAssumption

(* The variables of one component, and nothing in the others.                 *)
TaskRunRest == <<
  part, state, merging, job, ev, base, committed, staged, asks, restarts, auto, run, tree, loop,
  inbox, edit, now, edits>>
TaskRunAlone ==
  /\ state = None /\ merging = None /\ job = None
  /\ ev = None /\ base = None /\ committed = None /\ staged = None /\ asks = None
  /\ restarts = None /\ auto = None /\ run = None /\ tree = None /\ loop = None
  /\ inbox = None /\ edit = None /\ now = None /\ edits = None
TaskMergeRest == <<
  part, conv, disk, launching, slot, launch, cancel, pump, eng, del, boot,
  pumpDue, awaiting, owed, noise, told, auto, run, tree, loop, inbox, edit, now, edits>>
TaskMergeAlone ==
  /\ conv = None /\ disk = None /\ launching = None
  /\ slot = None /\ launch = None /\ cancel = None /\ pump = None /\ eng = None /\ del = None
  /\ boot = None /\ pumpDue = None /\ awaiting = None /\ owed = None /\ noise = None
  /\ told = None /\ auto = None /\ run = None /\ tree = None /\ loop = None /\ inbox = None
  /\ edit = None /\ now = None /\ edits = None
AutomationRest == <<
  part, row, disk, launching, slot, launch, cancel, pump, eng, del, boot, pumpDue,
  awaiting, owed, noise, told, state, merging, ev, base, committed, staged, asks>>
AutomationAlone ==
  /\ row = None /\ disk = None /\ launching = None
  /\ slot = None /\ launch = None /\ cancel = None /\ pump = None /\ eng = None /\ del = None
  /\ boot = None /\ pumpDue = None /\ awaiting = None /\ owed = None /\ noise = None
  /\ told = None /\ state = None /\ merging = None /\ ev = None /\ base = None
  /\ committed = None /\ staged = None /\ asks = None

Init ==
  /\ part \in Parts
  /\ \/ part = "limit" /\ Limit!Init /\ TaskRunAlone
     \/ part = "requeues" /\ Requeues!Init /\ TaskRunAlone
     \/ part = "deletes" /\ Deletes!Init /\ TaskRunAlone
     \/ part = "returns" /\ Returns!Init /\ TaskRunAlone
     \/ part = "answers" /\ Answers!Init /\ TaskRunAlone
     \/ part = "waits" /\ Waits!Init /\ TaskRunAlone
     \/ part = "boots" /\ Boots!Init /\ TaskRunAlone
     \/ part = "settles" /\ Settles!Init /\ TaskRunAlone
     \/ part = "drains" /\ Drains!Init /\ TaskRunAlone
     \/ part = "slot" /\ Slot!Init /\ TaskMergeAlone
     \/ part = "queue" /\ Queue!Init /\ TaskMergeAlone
     \/ part = "landing" /\ Landing!Init /\ TaskMergeAlone
     \/ part = "reworks" /\ Reworks!Init /\ TaskMergeAlone
     \/ part = "train" /\ Train!Init /\ TaskMergeAlone
     \/ part = "resumed" /\ Resumed!Init /\ TaskMergeAlone
     \/ part = "served" /\ Served!Init /\ TaskMergeAlone
     \/ part = "fired" /\ Fired!Init /\ AutomationAlone
     \/ part = "closes" /\ Closes!Init /\ AutomationAlone
     \/ part = "halts" /\ Halts!Init /\ AutomationAlone
     \/ part = "runs" /\ Runs!Init /\ AutomationAlone

Next ==
  \/ part = "limit" /\ Limit!Next /\ UNCHANGED TaskRunRest
  \/ part = "requeues" /\ Requeues!Next /\ UNCHANGED TaskRunRest
  \/ part = "deletes" /\ Deletes!Next /\ UNCHANGED TaskRunRest
  \/ part = "returns" /\ Returns!Next /\ UNCHANGED TaskRunRest
  \/ part = "answers" /\ Answers!Next /\ UNCHANGED TaskRunRest
  \/ part = "waits" /\ Waits!Next /\ UNCHANGED TaskRunRest
  \/ part = "boots" /\ Boots!Next /\ UNCHANGED TaskRunRest
  \/ part = "settles" /\ Settles!Next /\ UNCHANGED TaskRunRest
  \/ part = "drains" /\ Drains!Next /\ UNCHANGED TaskRunRest
  \/ part = "slot" /\ Slot!Next /\ UNCHANGED TaskMergeRest
  \/ part = "queue" /\ Queue!Next /\ UNCHANGED TaskMergeRest
  \/ part = "landing" /\ Landing!Next /\ UNCHANGED TaskMergeRest
  \/ part = "reworks" /\ Reworks!Next /\ UNCHANGED TaskMergeRest
  \/ part = "train" /\ Train!Next /\ UNCHANGED TaskMergeRest
  \/ part = "resumed" /\ Resumed!Next /\ UNCHANGED TaskMergeRest
  \/ part = "served" /\ Served!Next /\ UNCHANGED TaskMergeRest
  \/ part = "fired" /\ Fired!Next /\ UNCHANGED AutomationRest
  \/ part = "closes" /\ Closes!Next /\ UNCHANGED AutomationRest
  \/ part = "halts" /\ Halts!Next /\ UNCHANGED AutomationRest
  \/ part = "runs" /\ Runs!Next /\ UNCHANGED AutomationRest

vars == <<
  part, row, conv, disk, launching, slot, lock, launch, cancel, pump, eng, del,
  boot, pumpDue, index, awaiting, conn, bus, owed, noise, told, lost, state, merging, job, ev,
  base, committed, staged, asks, restarts, auto, run, tree, loop, inbox, edit, now, edits>>
Spec == Init /\ [][Next]_vars

-------------------------------------------------------------------------------
(* Runs of tasks: never more at work than max_concurrent, no agent at work for a   *)
(* task that is not running, never two in one worktree, and a card that says       *)
(* "awaiting" just when a request is open (pump_folder, launch, cancel,            *)
(* track_request).                                                                 *)
RunsSound ==
  /\ part = "limit"    => Limit!TypeOK /\ Limit!WithinLimit
  /\ part = "requeues" => Requeues!TypeOK /\ Requeues!NoStray
  /\ part = "deletes"  => Deletes!NoStray /\ Deletes!OneAgent
  /\ part = "returns"  => Returns!NoStray
  /\ part = "answers"  => Answers!OneAgent
  /\ part = "waits"    => Waits!AwaitingTruth

(* A run comes into review only when its agent was told the user's last            *)
(* instruction, and the sweep for orphaned setups takes no row from the launch     *)
(* that works on it (settle_review, reconcile_once).                               *)
RunsStep ==
  [][/\ part = "answers" => Answers!ReviewAnswers
     /\ part = "boots"   => Boots!NoStolenSetup]_vars

(* Merges: one landing at a time in a project folder, a task that is done has its  *)
(* work on the base, and the unattended train tries a task once (begin_merge,      *)
(* settle_merge, pump_merge_queue).                                                *)
MergesSound ==
  /\ part = "slot"    => Slot!TypeOK /\ Slot!OneMergePerFolder
  /\ part = "reworks" => Reworks!DoneMeansLanded
  /\ part = "train"   => Train!TrainTriesOnce
  /\ part = "resumed" => Resumed!TrainTriesOnce

(* A merge is not sent back while its agent works or when its work has landed, and *)
(* queued merges start in the order in which they were asked for; and a slot of an *)
(* automation is recorded when its fire is over (recover_merging,                  *)
(* pump_merge_queue, run_automation).                                              *)
MergesStep ==
  [][/\ part = "landing" => Landing!LiveMergeKept /\ Landing!LandedIsSeen
     /\ part = "queue"   => Queue!OldestFirst
     /\ part = "fired"   => Fired!SlotRecorded]_vars

(* Automations: one run at a time, no agent at work for a run that has ended, no   *)
(* conversation left in progress by one, and a slot that gives one run             *)
(* (run_automation, cancel_run, claim_due).                                        *)
FiresSound ==
  /\ part = "fired"  => Fired!TypeOK /\ Fired!OneRunning /\ Fired!NoStray /\ Fired!SlotOnce
  /\ part = "closes" => Closes!ConvSettled

-------------------------------------------------------------------------------
\* Fairness of each component, for the instance that runs: part never changes, so a
\* conjunct speaks of one action only.
Fairness ==
  /\ WF_vars(\/ part = "settles" /\ Settles!Pump /\ UNCHANGED TaskRunRest
             \/ part = "drains" /\ Drains!Pump /\ UNCHANGED TaskRunRest
             \/ part = "served" /\ Served!Event /\ UNCHANGED TaskMergeRest
             \/ part = "halts" /\ Halts!LoopGoesOn /\ UNCHANGED AutomationRest
             \/ part = "runs" /\ Runs!LoopGoesOn /\ UNCHANGED AutomationRest)
  /\ WF_vars(\/ part = "settles" /\ Settles!EngPop /\ UNCHANGED TaskRunRest
             \/ part = "drains" /\ Drains!EngPop /\ UNCHANGED TaskRunRest
             \/ part = "served" /\ Served!Job(1) /\ UNCHANGED TaskMergeRest
             \/ part = "halts" /\ Halts!boot_reconcile_interrupted /\ UNCHANGED AutomationRest
             \/ part = "runs" /\ Runs!boot_reconcile_interrupted /\ UNCHANGED AutomationRest)
  /\ WF_vars(\/ part = "settles" /\ Settles!Settling /\ UNCHANGED TaskRunRest
             \/ part = "drains" /\ Drains!Settling /\ UNCHANGED TaskRunRest
             \/ part = "served" /\ Served!AgentEnd(c1) /\ UNCHANGED TaskMergeRest
             \/ part = "halts" /\ Halts!run_automation(1) /\ UNCHANGED AutomationRest
             \/ part = "runs" /\ Runs!run_automation(1) /\ UNCHANGED AutomationRest)
  /\ WF_vars(\/ part = "settles" /\ Settles!EngBacklog /\ UNCHANGED TaskRunRest
             \/ part = "drains" /\ Drains!EngBacklog /\ UNCHANGED TaskRunRest
             \/ part = "served" /\ Served!IdleSweep(c1) /\ UNCHANGED TaskMergeRest
             \/ part = "halts" /\ Halts!cancel_run(3) /\ UNCHANGED AutomationRest
             \/ part = "runs" /\ Runs!cancel_run(3) /\ UNCHANGED AutomationRest)
  /\ WF_vars(\/ part = "settles" /\ Settles!Boot /\ UNCHANGED TaskRunRest
             \/ part = "drains" /\ Drains!Boot /\ UNCHANGED TaskRunRest
             \/ part = "halts" /\ Halts!Lifecycle(c1) /\ UNCHANGED AutomationRest
             \/ part = "runs" /\ Runs!Lifecycle(c1) /\ UNCHANGED AutomationRest)
  /\ WF_vars(\/ part = "settles" /\ Settles!Delete /\ UNCHANGED TaskRunRest
             \/ part = "drains" /\ Drains!Delete /\ UNCHANGED TaskRunRest
             \/ part = "halts" /\ Halts!IdleSweep(c1) /\ UNCHANGED AutomationRest
             \/ part = "runs" /\ Runs!IdleSweep(c1) /\ UNCHANGED AutomationRest)
  /\ WF_vars(\/ part = "settles" /\ Settles!Canceling(11) /\ UNCHANGED TaskRunRest
             \/ part = "drains" /\ Drains!Canceling(11) /\ UNCHANGED TaskRunRest
             \/ part = "runs" /\ Runs!AgentEnds(c1) /\ UNCHANGED AutomationRest)
  /\ WF_vars(\/ part = "settles" /\ Settles!LaunchStep(1) /\ UNCHANGED TaskRunRest
             \/ part = "drains" /\ Drains!LaunchStep(1) /\ UNCHANGED TaskRunRest)
  /\ WF_vars(\/ part = "settles" /\ Settles!LaunchKilled(1) /\ UNCHANGED TaskRunRest
             \/ part = "drains" /\ Drains!LaunchKilled(1) /\ UNCHANGED TaskRunRest)
  /\ WF_vars(\/ part = "settles" /\ Settles!IdleSweep(c1) /\ UNCHANGED TaskRunRest
             \/ part = "drains" /\ Drains!LaunchStep(2) /\ UNCHANGED TaskRunRest)
  /\ WF_vars(\/ part = "settles" /\ Settles!IdleSweep(c2) /\ UNCHANGED TaskRunRest
             \/ part = "drains" /\ Drains!LaunchKilled(2) /\ UNCHANGED TaskRunRest)
  /\ WF_vars(\/ part = "settles" /\ (\E s \in {"end", "error"} : Settles!EndTurn(c1, s)) /\ UNCHANGED TaskRunRest
             \/ part = "drains" /\ Drains!IdleSweep(c1) /\ UNCHANGED TaskRunRest)
  /\ WF_vars(\/ part = "settles" /\ (\E s \in {"end", "error"} : Settles!EndTurn(c2, s)) /\ UNCHANGED TaskRunRest
             \/ part = "drains" /\ Drains!IdleSweep(c2) /\ UNCHANGED TaskRunRest)
  /\ WF_vars(part = "drains" /\ (\E s \in {"end", "blocked"} : Drains!EndTurn(c1, s)) /\ UNCHANGED TaskRunRest)
  /\ WF_vars(part = "drains" /\ (\E s \in {"end", "blocked"} : Drains!EndTurn(c2, s)) /\ UNCHANGED TaskRunRest)
  /\ WF_vars(part = "drains" /\ Drains!LaunchChild(1) /\ UNCHANGED TaskRunRest)
  /\ WF_vars(part = "drains" /\ Drains!LaunchChild(2) /\ UNCHANGED TaskRunRest)
  /\ SF_vars(\/ part = "settles" /\ Settles!EngSweep(t1) /\ UNCHANGED TaskRunRest
             \/ part = "drains" /\ Drains!EngSweep(t1) /\ UNCHANGED TaskRunRest
             \/ part = "served" /\ Served!StartRecover(1) /\ UNCHANGED TaskMergeRest
             \/ part = "halts" /\ Halts!EventTake /\ UNCHANGED AutomationRest
             \/ part = "runs" /\ Runs!EventTake /\ UNCHANGED AutomationRest)
  /\ SF_vars(\/ part = "drains" /\ Drains!EngSweep(t2) /\ UNCHANGED TaskRunRest
             \/ part = "served" /\ Served!StartRecover(2) /\ UNCHANGED TaskMergeRest
             \/ part = "halts" /\ Halts!ReconcileList /\ UNCHANGED AutomationRest
             \/ part = "runs" /\ Runs!ReconcileList /\ UNCHANGED AutomationRest)
  /\ SF_vars(part = "served" /\ Served!StartPump /\ UNCHANGED TaskMergeRest)

FairSpec == Spec /\ Fairness

(* No run stays with an agent that is gone, no cancel call keeps waiting, even for *)
(* an init command that never ends by itself, and as long as init commands end no  *)
(* task stays in the queue or in its setup (reconcile_once, cancel, pump_folder).  *)
RunsProgress ==
  []<>(/\ part = "settles" => Settles!NoneOrphaned /\ Settles!CancelsReturned
       /\ part = "drains" => Drains!Drained)

(* Every merge comes to an end and every queued one is dispatched, refused or      *)
(* withdrawn, though agents die and events are dropped (recover_merging,           *)
(* pump_merge_queue); and a run of an automation settles, whatever happens to      *)
(* agents, events and the process, and the agent of a canceled one is stopped even *)
(* if it would work for ever (reconcile_once, cancel_run).                         *)
MergesProgress ==
  []<>(/\ part = "served" => Served!NoneMerging
       /\ part = "runs" => Runs!RunsSettled
       /\ part = "halts" => Halts!CancelsStopped)
===============================================================================
