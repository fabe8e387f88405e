----------------------------- MODULE WorkspaceRefs -----------------------------
(* Who keeps the state stream of a folder running: the reference counts of the   *)
(* server (workspace_state/mod.rs, start and stop) and the life cycle of the      *)
(* stores that share the stream (hooks/use-workspace-state-store.ts): tokens, a   *)
(* grace time before a stop, a start that may be overtaken by it, and changes of   *)
(* the scan mode while the stream runs.  What the stream carries is WorkspaceFeed. *)
EXTENDS Naturals, FiniteSets

CONSTANTS
  Stores,       \* the stores of one folder, one in each window or browser
  MaxTokens,    \* bound on acquire calls
  MaxRestarts,  \* bound on restarts of a store by hand
  MaxFails,     \* bound on starts that fail before they reach the server
  Patient       \* do the last views of a store stay open until a start or restart has ended?

BoundsAssumption == {MaxTokens, MaxRestarts, MaxFails} \subseteq Nat /\ Patient \in BOOLEAN

VARIABLES
  server,    \* WorkspaceStreamEntry: ref_count (0: no stream), full_subscribers
  tokens,    \* tokens[s]: the kinds of tokens held: "full", "paths"
  store,     \* store[s]: started, backendWantsTreeGit, lifecycleId, shutdownTimer, modeSyncQueued
  task,      \* task[s][k]: where the asynchronous function k of store s stands
  again,     \* again[s]: the life cycle that waits for `starting`, 0 for none
  left       \* what is left of the bounds

vars == <<server, tokens, store, task, again, left>>

Kinds == {"start", "shutdown", "restart", "sync"}

\* wait: before its call; start, stop: its call is on the way; started, stopped: the
\* server has handled it; listen, catchup: the last two waits of a start
Stages == {"none", "wait", "start", "started", "stop", "stopped", "listen", "catchup"}

Store == [started : BOOLEAN, full : BOOLEAN, life : Nat, timer : BOOLEAN, queued : BOOLEAN]

TypeOK ==
  /\ server \in [ref : Nat, full : Nat] /\ server.full <= server.ref
  /\ tokens \in [Stores -> SUBSET {"full", "paths"}]
  /\ store \in [Stores -> Store]
  /\ task \in [Stores -> [Kinds -> [at : Stages, mode : BOOLEAN, life : Nat]]]
  /\ again \in [Stores -> Nat] /\ \A s \in Stores : again[s] <= store[s].life
  /\ left \in [tokens : 0..MaxTokens, restarts : 0..MaxRestarts, fails : 0..MaxFails]

NoTask == [at |-> "none", mode |-> FALSE, life |-> 0]

Init ==
  /\ server = [ref |-> 0, full |-> 0]
  /\ tokens = [s \in Stores |-> {}]
  /\ store = [s \in Stores |-> [started |-> FALSE, full |-> TRUE, life |-> 0,
                                timer |-> FALSE, queued |-> FALSE]]
  /\ task = [s \in Stores |-> [k \in Kinds |-> NoTask]]
  /\ again = [s \in Stores |-> 0]
  /\ left = [tokens |-> MaxTokens, restarts |-> MaxRestarts, fails |-> MaxFails]

At(s, k) == task[s][k].at
Moved(s, k, at) == [task EXCEPT ![s][k].at = at]

\* wantsTreeGit
Wants(toks) == "full" \in toks

-------------------------------------------------------------------------------
(* The server.                                                                 *)

\* start_workspace_state_stream_core: an existing stream and a lost race to create
\* one count the subscriber in the same way as a new one.
Counted(mode) ==
  [ref |-> server.ref + 1, full |-> server.full + IF mode THEN 1 ELSE 0]

\* Faulty variant: the full subscribers are not counted down.
DiscountedRefs(mode) ==
  IF server.ref <= 1 THEN [ref |-> 0, full |-> 0]
  ELSE [server EXCEPT !.ref = @ - 1]

\* stop_workspace_state_stream_core: the last one removes the stream; both counts
\* end at 0.
Discounted(mode) ==
  IF server.ref <= 1 THEN [ref |-> 0, full |-> 0]
  ELSE [ref |-> server.ref - 1,
        full |-> IF mode /\ server.full > 0 THEN server.full - 1 ELSE server.full]

Serve(s, k) ==
  /\ At(s, k) \in {"start", "stop"}
  /\ server' = IF At(s, k) = "start" THEN Counted(task[s][k].mode)
               ELSE Discounted(task[s][k].mode)
  /\ task' = Moved(s, k, IF At(s, k) = "start" THEN "started" ELSE "stopped")
  /\ UNCHANGED <<tokens, store, again, left>>

-------------------------------------------------------------------------------
(* Pieces of the store, on its record x and its tasks t.                       *)

\* syncBackendMode: one transition at a time, a further call queues one more pass.
Synced(x, t, toks) ==
  IF t["sync"].at # "none" THEN <<[x EXCEPT !.queued = TRUE], t>>
  ELSE IF ~x.started \/ Wants(toks) = x.full THEN <<[x EXCEPT !.queued = FALSE], t>>
  ELSE <<[x EXCEPT !.queued = FALSE],
         [t EXCEPT !["sync"] = [at |-> "start", mode |-> Wants(toks), life |-> 0]]>>

\* Faulty variant: a store without tokens counts as active.
ActiveLife(s, life) == store[s].life = life

\* isLifecycleActive
Active(s, life) == store[s].life = life /\ tokens[s] # {}

\* ensureStarted: nothing when started or behind a start in flight; otherwise the call,
\* or a wait for the stop in flight.
EnsureStarted(x, t, toks) ==
  IF x.started \/ t["start"].at # "none" THEN t
  ELSE [t EXCEPT !["start"] =
          [at |-> IF t["shutdown"].at = "none" THEN "start" ELSE "wait",
           mode |-> Wants(toks), life |-> x.life]]
Waiter(s, x, t) == IF ~x.started /\ t["start"].at # "none" THEN x.life ELSE again[s]

Set(s, x, t) == /\ store' = [store EXCEPT ![s] = x]
                /\ task' = [task EXCEPT ![s] = t]

-------------------------------------------------------------------------------
(* acquire, release, the grace time and restart.                               *)

Acquire(s, m) ==
  /\ left.tokens > 0 /\ m \notin tokens[s]
  /\ left' = [left EXCEPT !.tokens = @ - 1]
  /\ tokens' = [tokens EXCEPT ![s] = @ \cup {m}]
  /\ LET x == store[s]
         t == task[s]
         reuse == x.life > 0 /\ (x.started \/ t["start"].at # "none" \/ t["shutdown"].at # "none")
         y == [x EXCEPT !.timer = FALSE, !.life = IF tokens[s] # {} \/ reuse THEN @ ELSE @ + 1]
         toks == tokens[s] \cup {m}
     IN IF tokens[s] = {}
        THEN /\ again' = [again EXCEPT ![s] = Waiter(s, y, t)]
             /\ LET r == IF x.timer /\ x.started THEN Synced(y, t, toks)
                         ELSE <<y, EnsureStarted(y, t, toks)>>
                IN Set(s, r[1], r[2])
        ELSE /\ UNCHANGED again
             /\ LET r == IF m = "full" THEN Synced(y, t, toks) ELSE <<y, t>>
                IN Set(s, r[1], r[2])
  /\ UNCHANGED server

Release(s, m) ==
  /\ m \in tokens[s]
  /\ Patient /\ tokens[s] = {m} => At(s, "start") = "none" /\ At(s, "restart") = "none"
  /\ tokens' = [tokens EXCEPT ![s] = @ \ {m}]
  /\ LET toks == tokens[s] \ {m}
         r == IF toks = {} THEN <<[store[s] EXCEPT !.timer = TRUE], task[s]>>
              ELSE IF m = "full" THEN Synced(store[s], task[s], toks)
              ELSE <<store[s], task[s]>>
     IN Set(s, r[1], r[2])
  /\ UNCHANGED <<server, again, left>>

\* shutdown, up to its first wait: for a change of the mode in flight, or for the stop.
BeginShutdown(s, k) ==
  Set(s, [store[s] EXCEPT !.timer = FALSE, !.started = FALSE],
         [task[s] EXCEPT ![k] = [at |-> IF At(s, "sync") = "none" THEN "stop" ELSE "wait",
                                 mode |-> store[s].full, life |-> 0]])

\* The timer of scheduleShutdown; a stop is answered before the next grace time is over.
Fire(s) ==
  /\ store[s].timer /\ At(s, "shutdown") = "none"
  /\ BeginShutdown(s, "shutdown")
  /\ UNCHANGED <<server, tokens, again, left>>

\* restart, from a view of the store, up to the stop
Restart(s) ==
  /\ left.restarts > 0 /\ tokens[s] # {} /\ At(s, "restart") = "none"
  /\ Patient => At(s, "start") = "none"
  /\ left' = [left EXCEPT !.restarts = @ - 1]
  /\ BeginShutdown(s, "restart")
  /\ UNCHANGED <<server, tokens, again>>

\* Faulty variant: the stop always names the full mode.
ShutdownAny(s, k) ==
  /\ At(s, k) = "wait" /\ At(s, "sync") = "none"
  /\ task' = [task EXCEPT ![s][k] = [at |-> "stop", mode |-> TRUE, life |-> 0]]
  /\ UNCHANGED <<server, tokens, store, again, left>>

\* The change of the mode is over: a stop of the mode that is held now.
Shutdown(s, k) ==
  /\ At(s, k) = "wait" /\ At(s, "sync") = "none"
  /\ task' = [task EXCEPT ![s][k] = [at |-> "stop", mode |-> store[s].full, life |-> 0]]
  /\ UNCHANGED <<server, tokens, store, again, left>>

ShutdownDone(s) ==
  /\ At(s, "shutdown") = "stopped"
  /\ task' = Moved(s, "shutdown", "none")
  /\ UNCHANGED <<server, tokens, store, again, left>>

RestartDone(s) ==
  /\ At(s, "restart") = "stopped"
  /\ LET x == [store[s] EXCEPT !.life = @ + 1]
         t == [task[s] EXCEPT !["restart"].at = "none"]
     IN IF tokens[s] = {} THEN Set(s, x, t) /\ UNCHANGED again
        ELSE /\ Set(s, x, EnsureStarted(x, t, tokens[s]))
             /\ again' = [again EXCEPT ![s] = Waiter(s, x, t)]
  /\ UNCHANGED <<server, tokens, left>>

-------------------------------------------------------------------------------
(* ensureStarted, after each of its waits.                                     *)

\* The end of a start: a call that waited for it looks again.
Ended(s, x, t) ==
  /\ again' = [again EXCEPT ![s] = 0]
  /\ LET e == [t EXCEPT !["start"] = NoTask]
     IN Set(s, x, IF again[s] # 0 /\ Active(s, again[s]) THEN EnsureStarted(x, e, tokens[s]) ELSE e)

StartFails(s) ==
  /\ left.fails > 0 /\ At(s, "start") = "start"
  /\ left' = [left EXCEPT !.fails = @ - 1]
  /\ Ended(s, store[s], task[s])
  /\ UNCHANGED <<server, tokens>>

StartCall(s) ==
  /\ At(s, "start") = "wait" /\ At(s, "shutdown") = "none"
  /\ IF Active(s, task[s]["start"].life)
     THEN /\ task' = [task EXCEPT ![s]["start"].at = "start",
                                  ![s]["start"].mode = Wants(tokens[s])]
          /\ UNCHANGED <<store, again>>
     ELSE Ended(s, store[s], task[s])
  /\ UNCHANGED <<server, tokens, left>>

\* A store that is no longer wanted gives the subscription back.
StartAnswer(s) ==
  /\ At(s, "start") = "started"
  /\ Set(s, [store[s] EXCEPT !.full = task[s]["start"].mode],
            [task[s] EXCEPT !["start"].at =
               IF Active(s, task[s]["start"].life) THEN "listen" ELSE "stop"])
  /\ UNCHANGED <<server, tokens, again, left>>

Listen(s) ==
  /\ At(s, "start") = "listen"
  /\ IF Active(s, task[s]["start"].life)
     THEN Set(s, [store[s] EXCEPT !.started = TRUE], [task[s] EXCEPT !["start"].at = "catchup"])
     ELSE /\ task' = Moved(s, "start", "stop")
          /\ UNCHANGED store
  /\ UNCHANGED <<server, tokens, again, left>>

\* Faulty variant: tokens taken meanwhile do not change the mode.
CatchUpKeeps(s) ==
  /\ At(s, "start") = "catchup"
  /\ Ended(s, store[s], task[s])
  /\ UNCHANGED <<server, tokens, left>>

\* The snapshot that closes the start fails when the stream is gone.
CatchUp(s) ==
  /\ At(s, "start") = "catchup"
  /\ IF Active(s, task[s]["start"].life) /\ server.ref > 0
     THEN LET r == Synced(store[s], task[s], tokens[s]) IN Ended(s, r[1], r[2])
     ELSE Ended(s, store[s], task[s])
  /\ UNCHANGED <<server, tokens, left>>

Undone(s) ==
  /\ At(s, "start") = "stopped"
  /\ Ended(s, store[s], task[s])
  /\ UNCHANGED <<server, tokens, left>>

-------------------------------------------------------------------------------
(* syncBackendMode, after each of its waits.                                   *)

\* Faulty variant: the stop names the new mode.
SyncAnswerNew(s) ==
  /\ At(s, "sync") = "started"
  /\ Set(s, [store[s] EXCEPT !.full = task[s]["sync"].mode], [task[s] EXCEPT !["sync"].at = "stop"])
  /\ UNCHANGED <<server, tokens, again, left>>

\* The new mode is held: the old one is given back.
SyncAnswer(s) ==
  /\ At(s, "sync") = "started"
  /\ Set(s, [store[s] EXCEPT !.full = task[s]["sync"].mode],
            [task[s] EXCEPT !["sync"].at = "stop", !["sync"].mode = store[s].full])
  /\ UNCHANGED <<server, tokens, again, left>>

SyncDone(s) ==
  /\ At(s, "sync") = "stopped"
  /\ LET t == [task[s] EXCEPT !["sync"] = NoTask]
         r == IF store[s].queued THEN Synced(store[s], t, tokens[s]) ELSE <<store[s], t>>
     IN Set(s, r[1], r[2])
  /\ UNCHANGED <<server, tokens, again, left>>

Step(s) ==
  \/ \E k \in Kinds : Serve(s, k)
  \/ \E k \in {"shutdown", "restart"} : Shutdown(s, k)
  \/ ShutdownDone(s) \/ RestartDone(s)
  \/ StartCall(s) \/ StartAnswer(s) \/ Listen(s) \/ CatchUp(s) \/ Undone(s)
  \/ SyncAnswer(s) \/ SyncDone(s)

Next ==
  \E s \in Stores :
    \/ \E m \in {"full", "paths"} : Acquire(s, m) \/ Release(s, m)
    \/ Fire(s) \/ Restart(s) \/ StartFails(s) \/ Step(s)

Spec == Init /\ [][Next]_vars

\* Calls are answered, continuations run, timers fire.
FairSpec ==
  /\ Spec
  /\ \A s \in Stores :
       /\ WF_vars(Fire(s))
       /\ \A k \in Kinds : WF_vars(Serve(s, k))
       /\ \A k \in {"shutdown", "restart"} : WF_vars(Shutdown(s, k))
       /\ WF_vars(ShutdownDone(s)) /\ WF_vars(RestartDone(s))
       /\ WF_vars(StartCall(s)) /\ WF_vars(StartAnswer(s)) /\ WF_vars(Listen(s))
       /\ WF_vars(CatchUp(s)) /\ WF_vars(Undone(s))
       /\ WF_vars(SyncAnswer(s)) /\ WF_vars(SyncDone(s))

-------------------------------------------------------------------------------
(* Properties.                                                                 *)

\* The stream of a started store runs, and scans the tree and the status if the store
\* holds it in that mode: no stop of one store, no change of mode, takes away what
\* another store relies on.
Served ==
  \A s \in Stores : store[s].started =>
    /\ server.ref > 0
    /\ store[s].full /\ At(s, "sync") = "none" => server.full > 0

\* Between calls, the server counts exactly the started stores and their modes.
Balanced ==
  (\A s \in Stores, k \in Kinds : At(s, k) = "none") =>
    server = [ref  |-> Cardinality({s \in Stores : store[s].started}),
              full |-> Cardinality({s \in Stores : store[s].started /\ store[s].full})]

\* A store with tokens is started in the mode its tokens ask for.
ModeFollows ==
  \A s \in Stores : tokens[s] # {} => store[s].started /\ store[s].full = Wants(tokens[s])

\* The watcher of a folder without views has ended.
StreamEnded == (\A s \in Stores : tokens[s] = {}) => server.ref = 0
================================================================================
