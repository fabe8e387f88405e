------------------------------ MODULE MCClients ------------------------------
(* Small instances of the modules about what clients see of a server: the events*)
(* of a connection, the update, the state of a folder, side by side; a behaviour*)
(* chooses one of them and is a behaviour of it.                              *)
EXTENDS Integers, Sequences, FiniteSets

CONSTANTS
  Parts,  \* the instances that a configuration checks
  None, t1, t2, w1, w2, r1, r2, r3, r4, web, mcp, srv

VARIABLES
  part,   \* the instance that runs
  seq, ring, pending, bus, alive, socket, loop, fwd, out, req, sub, subCur, cur, log, moves,
  state, lock, pc, claimed, staged, process, wire, client, fetch, drops, live, bak, marker,
  released, worker, op, sup, proven, budget, disk, batch, core, recent, flush, net, view, left,
  server, tokens, store, task, again

Stream == INSTANCE EventStream WITH
  Emitters <- {t1}, Clients <- {w1}, SubIds <- {1, 2, 3}, MaxSeq <- 4, MaxRing <- 2,
  MaxReplay <- 2, BusCap <- 1, OutCap <- 2, MaxMoves <- 2
ASSUME StreamAssumption == Stream!SubIdsAssumption /\ Stream!CapsAssumption
Race == INSTANCE EventStream WITH
  Emitters <- {t1, t2}, Clients <- {w1}, SubIds <- {1, 2, 3}, MaxSeq <- 3, MaxRing <- 2,
  MaxReplay <- 2, BusCap <- 1, OutCap <- 2, MaxMoves <- 1
ASSUME RaceAssumption == Race!SubIdsAssumption /\ Race!CapsAssumption
Catchup == INSTANCE EventStream WITH
  Emitters <- {t1, t2}, Clients <- {w1}, SubIds <- {1, 2, 3}, MaxSeq <- 3, MaxRing <- 2,
  MaxReplay <- 2, BusCap <- 1, OutCap <- 9, MaxMoves <- 1
ASSUME CatchupAssumption == Catchup!SubIdsAssumption /\ Catchup!CapsAssumption
Claims == INSTANCE UpdateState WITH
  Requests <- {r1, r2, r3}, Idle <- "Idle", Downloading <- "Downloading",
  Installing <- "Installing", ReadyToRestart <- "ReadyToRestart", Restarting <- "Restarting",
  Error <- "Error", Free <- None, Watched <- FALSE, MaxSeq <- 8, MaxProcesses <- 2,
  MaxDrops <- 0
Follows == INSTANCE UpdateState WITH
  Requests <- {r1, r2}, Idle <- "Idle", Downloading <- "Downloading",
  Installing <- "Installing", ReadyToRestart <- "ReadyToRestart", Restarting <- "Restarting",
  Error <- "Error", Free <- None, Watched <- TRUE, MaxSeq <- 3, MaxProcesses <- 1, MaxDrops <- 1
Swap == INSTANCE UpdateInstall WITH
  server <- srv, Latest <- 3, Bad <- {2}, Faults <- {"stage", "link", "commit", "mark"}, MaxFaults <- 2,
  MaxStops <- 2, MaxRollbacks <- 0, MidCrash <- FALSE
ASSUME SwapAssumption == Swap!UpdateAssumption
Rollbacks == INSTANCE UpdateInstall WITH
  server <- srv, Latest <- 3, Bad <- {2}, Faults <- {}, MaxFaults <- 0, MaxStops <- 2,
  MaxRollbacks <- 3, MidCrash <- FALSE
ASSUME RollbacksAssumption == Rollbacks!UpdateAssumption
Adverse == INSTANCE UpdateInstall WITH
  server <- srv, Latest <- 3, Bad <- {2},
  Faults <- {"stage", "link", "commit", "keep", "mark", "restore"}, MaxFaults <- 2, MaxStops <- 2,
  MaxRollbacks <- 2, MidCrash <- TRUE
ASSUME AdverseAssumption == Adverse!UpdateAssumption
Heals == INSTANCE UpdateInstall WITH
  server <- srv, Latest <- 3, Bad <- {2, 3}, Faults <- {"stage", "link", "commit", "mark"},
  MaxFaults <- 1, MaxStops <- 2, MaxRollbacks <- 1, MidCrash <- FALSE
ASSUME HealsAssumption == Heals!UpdateAssumption
Numbered == INSTANCE WorkspaceFeed WITH
  Clients <- {w1, w2}, Capacity <- 2, MaxEdits <- 2, MaxAsks <- 1, Flips <- FALSE,
  Racing <- TRUE, Ordered <- FALSE, MaxDrops <- 1, MaxRestarts <- 0
ASSUME NumberedAssumption == Numbered!BoundsAssumption
Ahead == INSTANCE WorkspaceFeed WITH
  Clients <- {w1, w2}, Capacity <- 1, MaxEdits <- 3, MaxAsks <- 1, Flips <- FALSE,
  Racing <- FALSE, Ordered <- FALSE, MaxDrops <- 0, MaxRestarts <- 1
ASSUME AheadAssumption == Ahead!BoundsAssumption
Feeds == INSTANCE WorkspaceFeed WITH
  Clients <- {w1, w2}, Capacity <- 2, MaxEdits <- 2, MaxAsks <- 2, Flips <- FALSE,
  Racing <- FALSE, Ordered <- TRUE, MaxDrops <- 0, MaxRestarts <- 0
ASSUME FeedsAssumption == Feeds!BoundsAssumption
Repo == INSTANCE WorkspaceFeed WITH
  Clients <- {w1, w2}, Capacity <- 2, MaxEdits <- 2, MaxAsks <- 1, Flips <- TRUE,
  Racing <- FALSE, Ordered <- TRUE, MaxDrops <- 0, MaxRestarts <- 0
ASSUME RepoAssumption == Repo!BoundsAssumption
Counts == INSTANCE WorkspaceRefs WITH
  Stores <- {w1, w2}, MaxTokens <- 4, MaxRestarts <- 1, MaxFails <- 0, Patient <- TRUE
ASSUME CountsAssumption == Counts!BoundsAssumption
Modes == INSTANCE WorkspaceRefs WITH
  Stores <- {w1, w2}, MaxTokens <- 3, MaxRestarts <- 1, MaxFails <- 0, Patient <- TRUE
ASSUME ModesAssumption == Modes!BoundsAssumption
Ends == INSTANCE WorkspaceRefs WITH
  Stores <- {w1, w2}, MaxTokens <- 2, MaxRestarts <- 0, MaxFails <- 1, Patient <- FALSE
ASSUME EndsAssumption == Ends!BoundsAssumption

(* The variables of one component, and nothing in the others.                 *)
EventStreamRest == <<
  part, state, lock, pc, claimed, staged, process, wire, client, fetch, drops, live, bak,
  marker, released, worker, op, sup, proven, budget, disk, batch, core, recent, flush, net,
  view, left, server, tokens, store, task, again>>
EventStreamAlone ==
  /\ state = None /\ lock = None /\ pc = None /\ claimed = None /\ staged = None
  /\ process = None /\ wire = None /\ client = None /\ fetch = None /\ drops = None
  /\ live = None /\ bak = None /\ marker = None /\ released = None /\ worker = None
  /\ op = None /\ sup = None /\ proven = None /\ budget = None /\ disk = None /\ batch = None
  /\ core = None /\ recent = None /\ flush = None /\ net = None /\ view = None /\ left = None
  /\ server = None /\ tokens = None /\ store = None /\ task = None /\ again = None
UpdateStateRest == <<
  part, seq, ring, pending, bus, alive, socket, loop, fwd, req, sub, subCur, cur, log, moves,
  live, bak, marker, released, worker, op, sup, proven, budget, disk, batch, core, recent,
  flush, net, view, left, server, tokens, store, task, again>>
UpdateStateAlone ==
  /\ seq = None /\ ring = None /\ pending = None /\ bus = None /\ alive = None
  /\ socket = None /\ loop = None /\ fwd = None /\ req = None /\ sub = None /\ subCur = None
  /\ cur = None /\ log = None /\ moves = None /\ live = None /\ bak = None /\ marker = None
  /\ released = None /\ worker = None /\ op = None /\ sup = None /\ proven = None
  /\ budget = None /\ disk = None /\ batch = None /\ core = None /\ recent = None
  /\ flush = None /\ net = None /\ view = None /\ left = None /\ server = None
  /\ tokens = None /\ store = None /\ task = None /\ again = None
UpdateInstallRest == <<
  part, seq, ring, pending, bus, alive, socket, loop, fwd, out, req, sub, subCur, cur, log,
  moves, state, lock, pc, claimed, staged, process, wire, client, fetch, drops, disk, batch,
  core, recent, flush, net, view, left, server, tokens, store, task, again>>
UpdateInstallAlone ==
  /\ seq = None /\ ring = None /\ pending = None /\ bus = None /\ alive = None
  /\ socket = None /\ loop = None /\ fwd = None /\ out = None /\ req = None /\ sub = None
  /\ subCur = None /\ cur = None /\ log = None /\ moves = None /\ state = None /\ lock = None
  /\ pc = None /\ claimed = None /\ staged = None /\ process = None /\ wire = None
  /\ client = None /\ fetch = None /\ drops = None /\ disk = None /\ batch = None
  /\ core = None /\ recent = None /\ flush = None /\ net = None /\ view = None /\ left = None
  /\ server = None /\ tokens = None /\ store = None /\ task = None /\ again = None
WorkspaceFeedRest == <<
  part, seq, ring, pending, bus, alive, socket, loop, fwd, out, sub, subCur, cur, log, moves,
  state, lock, pc, claimed, staged, process, wire, client, fetch, drops, live, bak, marker,
  released, worker, op, sup, proven, budget, server, tokens, store, task, again>>
WorkspaceFeedAlone ==
  /\ seq = None /\ ring = None /\ pending = None /\ bus = None /\ alive = None
  /\ socket = None /\ loop = None /\ fwd = None /\ out = None /\ sub = None /\ subCur = None
  /\ cur = None /\ log = None /\ moves = None /\ state = None /\ lock = None /\ pc = None
  /\ claimed = None /\ staged = None /\ process = None /\ wire = None /\ client = None
  /\ fetch = None /\ drops = None /\ live = None /\ bak = None /\ marker = None
  /\ released = None /\ worker = None /\ op = None /\ sup = None /\ proven = None
  /\ budget = None /\ server = None /\ tokens = None /\ store = None /\ task = None
  /\ again = None
WorkspaceRefsRest == <<
  part, seq, ring, pending, bus, alive, socket, loop, fwd, out, req, sub, subCur, cur, log,
  moves, state, lock, pc, claimed, staged, process, wire, client, fetch, drops, live, bak,
  marker, released, worker, op, sup, proven, budget, disk, batch, core, recent, flush, net, view>>
WorkspaceRefsAlone ==
  /\ seq = None /\ ring = None /\ pending = None /\ bus = None /\ alive = None
  /\ socket = None /\ loop = None /\ fwd = None /\ out = None /\ req = None /\ sub = None
  /\ subCur = None /\ cur = None /\ log = None /\ moves = None /\ state = None /\ lock = None
  /\ pc = None /\ claimed = None /\ staged = None /\ process = None /\ wire = None
  /\ client = None /\ fetch = None /\ drops = None /\ live = None /\ bak = None
  /\ marker = None /\ released = None /\ worker = None /\ op = None /\ sup = None
  /\ proven = None /\ budget = None /\ disk = None /\ batch = None /\ core = None
  /\ recent = None /\ flush = None /\ net = None /\ view = None

Init ==
  /\ part \in Parts
  /\ \/ part = "stream" /\ Stream!Init /\ EventStreamAlone
     \/ part = "race" /\ Race!Init /\ EventStreamAlone
     \/ part = "catchup" /\ Catchup!Init /\ EventStreamAlone
     \/ part = "claims" /\ Claims!Init /\ UpdateStateAlone
     \/ part = "follows" /\ Follows!Init /\ UpdateStateAlone
     \/ part = "swap" /\ Swap!Init /\ UpdateInstallAlone
     \/ part = "rollbacks" /\ Rollbacks!Init /\ UpdateInstallAlone
     \/ part = "adverse" /\ Adverse!Init /\ UpdateInstallAlone
     \/ part = "heals" /\ Heals!Init /\ UpdateInstallAlone
     \/ part = "numbered" /\ Numbered!Init /\ WorkspaceFeedAlone
     \/ part = "ahead" /\ Ahead!Init /\ WorkspaceFeedAlone
     \/ part = "feeds" /\ Feeds!Init /\ WorkspaceFeedAlone
     \/ part = "repo" /\ Repo!Init /\ WorkspaceFeedAlone
     \/ part = "counts" /\ Counts!Init /\ WorkspaceRefsAlone
     \/ part = "modes" /\ Modes!Init /\ WorkspaceRefsAlone
     \/ part = "ends" /\ Ends!Init /\ WorkspaceRefsAlone

Next ==
  \/ part = "stream" /\ Stream!Next /\ UNCHANGED EventStreamRest
  \/ part = "race" /\ Race!Next /\ UNCHANGED EventStreamRest
  \/ part = "catchup" /\ Catchup!Next /\ UNCHANGED EventStreamRest
  \/ part = "claims" /\ Claims!Next /\ UNCHANGED UpdateStateRest
  \/ part = "follows" /\ Follows!Next /\ UNCHANGED UpdateStateRest
  \/ part = "swap" /\ Swap!Next /\ UNCHANGED UpdateInstallRest
  \/ part = "rollbacks" /\ Rollbacks!Next /\ UNCHANGED UpdateInstallRest
  \/ part = "adverse" /\ Adverse!Next /\ UNCHANGED UpdateInstallRest
  \/ part = "heals" /\ Heals!Next /\ UNCHANGED UpdateInstallRest
  \/ part = "numbered" /\ Numbered!Next /\ UNCHANGED WorkspaceFeedRest
  \/ part = "ahead" /\ Ahead!Next /\ UNCHANGED WorkspaceFeedRest
  \/ part = "feeds" /\ Feeds!Next /\ UNCHANGED WorkspaceFeedRest
  \/ part = "repo" /\ Repo!Next /\ UNCHANGED WorkspaceFeedRest
  \/ part = "counts" /\ Counts!Next /\ UNCHANGED WorkspaceRefsRest
  \/ part = "modes" /\ Modes!Next /\ UNCHANGED WorkspaceRefsRest
  \/ part = "ends" /\ Ends!Next /\ UNCHANGED WorkspaceRefsRest

vars == <<
  part, seq, ring, pending, bus, alive, socket, loop, fwd, out, req, sub, subCur, cur, log,
  moves, state, lock, pc, claimed, staged, process, wire, client, fetch, drops, live, bak,
  marker, released, worker, op, sup, proven, budget, disk, batch, core, recent, flush, net,
  view, left, server, tokens, store, task, again>>
Spec == Init /\ [][Next]_vars

-------------------------------------------------------------------------------
(* The events of a connection: no client sees one twice or out of order, and the   *)
(* cursor it resumes from says what it shows (emit_with_state, ws_attach.rs,       *)
(* acp-connections-context.tsx).                                                   *)
StreamSound ==
  /\ part = "stream" => Stream!TypeOK
  /\ part = "race" => Race!NeverTwice /\ Race!CursorHonest

(* Updates: one operation at a time, and a snapshot that says what it is and what  *)
(* is staged; a server with its own bundle in place, whole, with the last one that *)
(* worked kept for the way back (update/state.rs, update/install.rs).              *)
UpdatesSound ==
  /\ part = "claims" => /\ Claims!TypeOK /\ Claims!LockFollowsClaim
                        /\ Claims!StagedIsReported /\ Claims!ClaimHasOwner
  /\ part = "swap" => Swap!BundleWhole /\ Swap!LastGoodKept
  /\ part = "rollbacks" => Rollbacks!BundleWhole /\ Rollbacks!LastGoodKept
  /\ part = "adverse" => Adverse!TypeOK /\ Adverse!ServerNeverAhead

(* Folders: a number stands for one state of the tree and the status, in all       *)
(* windows; and the stream of a started store runs in the mode it wants, counted   *)
(* once for each store (workspace_state/mod.rs, use-workspace-state-store.ts).     *)
FoldersSound ==
  /\ part = "numbered" => Numbered!TypeOK /\ Numbered!SameSeqSameView
  /\ part = "counts" => Counts!TypeOK /\ Counts!Served /\ Counts!Balanced

(* With one emitting task a client shows a prefix of the events, which only grows; *)
(* a version that has not survived a trial is launched on trial; and a store never *)
(* goes back to an earlier state (ws_attach.rs, supervise.rs, the store).          *)
ClientsStep ==
  [][/\ part = "stream"  => Stream!ShowsPrefix
     /\ part = "swap"    => Swap!UnprovenOnTrial
     /\ part = "ahead" => Ahead!NeverBack]_vars

-------------------------------------------------------------------------------
\* Fairness of each component, for the instance that runs: part never changes, so a
\* conjunct speaks of one action only.
Fairness ==
  /\ WF_vars(\/ part = "catchup" /\ Catchup!Broadcast(t1) /\ UNCHANGED EventStreamRest
             \/ part = "follows" /\ Follows!Emit(r1) /\ UNCHANGED UpdateStateRest
             \/ part = "heals" /\ Heals!FilesStep /\ UNCHANGED UpdateInstallRest
             \/ part = "feeds" /\ (Feeds!FlushScan \/ Feeds!FlushApply \/ Feeds!FlushEmit) /\ UNCHANGED WorkspaceFeedRest
             \/ part = "repo" /\ (Repo!FlushScan \/ Repo!FlushApply \/ Repo!FlushEmit) /\ UNCHANGED WorkspaceFeedRest
             \/ part = "modes" /\ Modes!Fire(w1) /\ UNCHANGED WorkspaceRefsRest
             \/ part = "ends" /\ Ends!Fire(w1) /\ UNCHANGED WorkspaceRefsRest)
  /\ WF_vars(\/ part = "catchup" /\ Catchup!Broadcast(t2) /\ UNCHANGED EventStreamRest
             \/ part = "follows" /\ Follows!Emit(r2) /\ UNCHANGED UpdateStateRest
             \/ part = "heals" /\ (op.kind = "exit" /\ Heals!Relaunch) /\ UNCHANGED UpdateInstallRest
             \/ part = "feeds" /\ (Feeds!ServeScan(w1) \/ Feeds!ServeApply(w1)) /\ UNCHANGED WorkspaceFeedRest
             \/ part = "repo" /\ (Repo!ServeScan(w1) \/ Repo!ServeApply(w1)) /\ UNCHANGED WorkspaceFeedRest
             \/ part = "modes" /\ Modes!Serve(w1, "start") /\ UNCHANGED WorkspaceRefsRest
             \/ part = "ends" /\ Ends!Serve(w1, "start") /\ UNCHANGED WorkspaceRefsRest)
  /\ WF_vars(\/ part = "catchup" /\ Catchup!ServerStep(w1) /\ UNCHANGED EventStreamRest
             \/ part = "follows" /\ Follows!Receive /\ UNCHANGED UpdateStateRest
             \/ part = "heals" /\ Heals!BadExits /\ UNCHANGED UpdateInstallRest
             \/ part = "feeds" /\ Feeds!Receive(w1) /\ UNCHANGED WorkspaceFeedRest
             \/ part = "repo" /\ Repo!Receive(w1) /\ UNCHANGED WorkspaceFeedRest
             \/ part = "modes" /\ Modes!Serve(w1, "shutdown") /\ UNCHANGED WorkspaceRefsRest
             \/ part = "ends" /\ Ends!Serve(w1, "shutdown") /\ UNCHANGED WorkspaceRefsRest)
  /\ WF_vars(\/ part = "catchup" /\ Catchup!ForwarderStep(w1) /\ UNCHANGED EventStreamRest
             \/ part = "follows" /\ Follows!Reconnect /\ UNCHANGED UpdateStateRest
             \/ part = "heals" /\ Heals!ContainerStart /\ UNCHANGED UpdateInstallRest
             \/ part = "feeds" /\ Feeds!ReceiveReply(w1) /\ UNCHANGED WorkspaceFeedRest
             \/ part = "repo" /\ Repo!ReceiveReply(w1) /\ UNCHANGED WorkspaceFeedRest
             \/ part = "modes" /\ Modes!Serve(w1, "restart") /\ UNCHANGED WorkspaceRefsRest
             \/ part = "ends" /\ Ends!Serve(w1, "restart") /\ UNCHANGED WorkspaceRefsRest)
  /\ WF_vars(\/ part = "catchup" /\ Catchup!OpenSocket(w1) /\ UNCHANGED EventStreamRest
             \/ part = "follows" /\ (\E f \in fetch : Follows!Answer(f)) /\ UNCHANGED UpdateStateRest
             \/ part = "feeds" /\ (Feeds!ServeScan(w2) \/ Feeds!ServeApply(w2)) /\ UNCHANGED WorkspaceFeedRest
             \/ part = "repo" /\ (Repo!ServeScan(w2) \/ Repo!ServeApply(w2)) /\ UNCHANGED WorkspaceFeedRest
             \/ part = "modes" /\ Modes!Serve(w1, "sync") /\ UNCHANGED WorkspaceRefsRest
             \/ part = "ends" /\ Ends!Serve(w1, "sync") /\ UNCHANGED WorkspaceRefsRest)
  /\ WF_vars(\/ part = "follows" /\ (\E f \in fetch : Follows!Resolve(f)) /\ UNCHANGED UpdateStateRest
             \/ part = "feeds" /\ Feeds!Receive(w2) /\ UNCHANGED WorkspaceFeedRest
             \/ part = "repo" /\ Repo!Receive(w2) /\ UNCHANGED WorkspaceFeedRest
             \/ part = "modes" /\ Modes!Shutdown(w1, "shutdown") /\ UNCHANGED WorkspaceRefsRest
             \/ part = "ends" /\ Ends!Shutdown(w1, "shutdown") /\ UNCHANGED WorkspaceRefsRest)
  /\ WF_vars(\/ part = "feeds" /\ Feeds!ReceiveReply(w2) /\ UNCHANGED WorkspaceFeedRest
             \/ part = "repo" /\ Repo!ReceiveReply(w2) /\ UNCHANGED WorkspaceFeedRest
             \/ part = "modes" /\ Modes!Shutdown(w1, "restart") /\ UNCHANGED WorkspaceRefsRest
             \/ part = "ends" /\ Ends!Shutdown(w1, "restart") /\ UNCHANGED WorkspaceRefsRest)
  /\ WF_vars(\/ part = "modes" /\ Modes!ShutdownDone(w1) /\ UNCHANGED WorkspaceRefsRest
             \/ part = "ends" /\ Ends!ShutdownDone(w1) /\ UNCHANGED WorkspaceRefsRest)
  /\ WF_vars(\/ part = "modes" /\ Modes!RestartDone(w1) /\ UNCHANGED WorkspaceRefsRest
             \/ part = "ends" /\ Ends!RestartDone(w1) /\ UNCHANGED WorkspaceRefsRest)
  /\ WF_vars(\/ part = "modes" /\ Modes!StartCall(w1) /\ UNCHANGED WorkspaceRefsRest
             \/ part = "ends" /\ Ends!StartCall(w1) /\ UNCHANGED WorkspaceRefsRest)
  /\ WF_vars(\/ part = "modes" /\ Modes!StartAnswer(w1) /\ UNCHANGED WorkspaceRefsRest
             \/ part = "ends" /\ Ends!StartAnswer(w1) /\ UNCHANGED WorkspaceRefsRest)
  /\ WF_vars(\/ part = "modes" /\ Modes!Listen(w1) /\ UNCHANGED WorkspaceRefsRest
             \/ part = "ends" /\ Ends!Listen(w1) /\ UNCHANGED WorkspaceRefsRest)
  /\ WF_vars(\/ part = "modes" /\ Modes!CatchUp(w1) /\ UNCHANGED WorkspaceRefsRest
             \/ part = "ends" /\ Ends!CatchUp(w1) /\ UNCHANGED WorkspaceRefsRest)
  /\ WF_vars(\/ part = "modes" /\ Modes!Undone(w1) /\ UNCHANGED WorkspaceRefsRest
             \/ part = "ends" /\ Ends!Undone(w1) /\ UNCHANGED WorkspaceRefsRest)
  /\ WF_vars(\/ part = "modes" /\ Modes!SyncAnswer(w1) /\ UNCHANGED WorkspaceRefsRest
             \/ part = "ends" /\ Ends!SyncAnswer(w1) /\ UNCHANGED WorkspaceRefsRest)
  /\ WF_vars(\/ part = "modes" /\ Modes!SyncDone(w1) /\ UNCHANGED WorkspaceRefsRest
             \/ part = "ends" /\ Ends!SyncDone(w1) /\ UNCHANGED WorkspaceRefsRest)
  /\ WF_vars(\/ part = "modes" /\ Modes!Fire(w2) /\ UNCHANGED WorkspaceRefsRest
             \/ part = "ends" /\ Ends!Fire(w2) /\ UNCHANGED WorkspaceRefsRest)
  /\ WF_vars(\/ part = "modes" /\ Modes!Serve(w2, "start") /\ UNCHANGED WorkspaceRefsRest
             \/ part = "ends" /\ Ends!Serve(w2, "start") /\ UNCHANGED WorkspaceRefsRest)
  /\ WF_vars(\/ part = "modes" /\ Modes!Serve(w2, "shutdown") /\ UNCHANGED WorkspaceRefsRest
             \/ part = "ends" /\ Ends!Serve(w2, "shutdown") /\ UNCHANGED WorkspaceRefsRest)
  /\ WF_vars(\/ part = "modes" /\ Modes!Serve(w2, "restart") /\ UNCHANGED WorkspaceRefsRest
             \/ part = "ends" /\ Ends!Serve(w2, "restart") /\ UNCHANGED WorkspaceRefsRest)
  /\ WF_vars(\/ part = "modes" /\ Modes!Serve(w2, "sync") /\ UNCHANGED WorkspaceRefsRest
             \/ part = "ends" /\ Ends!Serve(w2, "sync") /\ UNCHANGED WorkspaceRefsRest)
  /\ WF_vars(\/ part = "modes" /\ Modes!Shutdown(w2, "shutdown") /\ UNCHANGED WorkspaceRefsRest
             \/ part = "ends" /\ Ends!Shutdown(w2, "shutdown") /\ UNCHANGED WorkspaceRefsRest)
  /\ WF_vars(\/ part = "modes" /\ Modes!Shutdown(w2, "restart") /\ UNCHANGED WorkspaceRefsRest
             \/ part = "ends" /\ Ends!Shutdown(w2, "restart") /\ UNCHANGED WorkspaceRefsRest)
  /\ WF_vars(\/ part = "modes" /\ Modes!ShutdownDone(w2) /\ UNCHANGED WorkspaceRefsRest
             \/ part = "ends" /\ Ends!ShutdownDone(w2) /\ UNCHANGED WorkspaceRefsRest)
  /\ WF_vars(\/ part = "modes" /\ Modes!RestartDone(w2) /\ UNCHANGED WorkspaceRefsRest
             \/ part = "ends" /\ Ends!RestartDone(w2) /\ UNCHANGED WorkspaceRefsRest)
  /\ WF_vars(\/ part = "modes" /\ Modes!StartCall(w2) /\ UNCHANGED WorkspaceRefsRest
             \/ part = "ends" /\ Ends!StartCall(w2) /\ UNCHANGED WorkspaceRefsRest)
  /\ WF_vars(\/ part = "modes" /\ Modes!StartAnswer(w2) /\ UNCHANGED WorkspaceRefsRest
             \/ part = "ends" /\ Ends!StartAnswer(w2) /\ UNCHANGED WorkspaceRefsRest)
  /\ WF_vars(\/ part = "modes" /\ Modes!Listen(w2) /\ UNCHANGED WorkspaceRefsRest
             \/ part = "ends" /\ Ends!Listen(w2) /\ UNCHANGED WorkspaceRefsRest)
  /\ WF_vars(\/ part = "modes" /\ Modes!CatchUp(w2) /\ UNCHANGED WorkspaceRefsRest
             \/ part = "ends" /\ Ends!CatchUp(w2) /\ UNCHANGED WorkspaceRefsRest)
  /\ WF_vars(\/ part = "modes" /\ Modes!Undone(w2) /\ UNCHANGED WorkspaceRefsRest
             \/ part = "ends" /\ Ends!Undone(w2) /\ UNCHANGED WorkspaceRefsRest)
  /\ WF_vars(\/ part = "modes" /\ Modes!SyncAnswer(w2) /\ UNCHANGED WorkspaceRefsRest
             \/ part = "ends" /\ Ends!SyncAnswer(w2) /\ UNCHANGED WorkspaceRefsRest)
  /\ WF_vars(\/ part = "modes" /\ Modes!SyncDone(w2) /\ UNCHANGED WorkspaceRefsRest
             \/ part = "ends" /\ Ends!SyncDone(w2) /\ UNCHANGED WorkspaceRefsRest)

FairSpec == Spec /\ Fairness

(* Once no more happens to it, a client shows what the server holds: all events of *)
(* a connection, the state of the update, the files of the folder; a store runs in *)
(* the mode its views want, and the watcher of a folder without views ends.  And a *)
(* version that works is running again and again, though a user may try a bad one  *)
(* for ever (the catch-up paths of each client, supervise.rs).                     *)
ClientsConverge ==
  /\ <>[](/\ part = "catchup" => Catchup!CaughtUp
          /\ part = "follows" => Follows!ShowsServer
          /\ part = "feeds"   => Feeds!FilesShown
          /\ part = "repo"    => Repo!RepoKnown
          /\ part = "modes"   => Modes!ModeFollows
          /\ part = "ends"    => Ends!StreamEnded)
  /\ []<>(part = "heals" => Heals!Healthy)
===============================================================================
