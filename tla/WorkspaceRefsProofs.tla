-------------------------- MODULE WorkspaceRefsProofs --------------------------
(* Theorems about WorkspaceRefs, for any number of stores, tokens and restarts:   *)
(* the server's counts are exactly the subscriptions the stores hold, so that no   *)
(* stop or change of mode of one store takes the stream of another.  They are       *)
(* about views that wait for a start or restart to end before they leave, and       *)
(* starts that reach the server (Faultless); without either TLC refutes them.       *)
EXTENDS WorkspaceRefs, FiniteSetTheorems, TLAPS

-------------------------------------------------------------------------------
(* One store, by its tokens T, its record x and its tasks t.                   *)

Tokens == SUBSET {"full", "paths"}
Task   == [at : Stages, mode : BOOLEAN, life : Nat]
Tasks  == [Kinds -> Task]

\* The subscription of a started store, from the answer to its start until the stop
\* that gives it back; the mode the server counts it with.
MainOf(x, t) == \/ x.started \/ t["start"].at \in {"started", "listen"}
                \/ t["shutdown"].at \in {"wait", "stop"} \/ t["restart"].at \in {"wait", "stop"}
MainModeOf(x, t) ==
  MainOf(x, t) /\ IF t["start"].at = "started" THEN t["start"].mode
                  ELSE IF t["shutdown"].at = "stop" THEN t["shutdown"].mode
                  ELSE IF t["restart"].at = "stop" THEN t["restart"].mode ELSE x.full

\* The second subscription, while the mode changes.
ExtraOf(t)     == t["sync"].at \in {"started", "stop"}
ExtraModeOf(t) == ExtraOf(t) /\ t["sync"].mode

\* One phase at a time: a start, a running store, a stop by its timer or by hand.
Shape(T, x, t) ==
  /\ t["start"].at \in {"none", "wait", "start", "started", "listen", "catchup"}
  /\ t["shutdown"].at \in {"none", "wait", "stop", "stopped"}
  /\ t["restart"].at \in {"none", "wait", "stop", "stopped"}
  /\ t["sync"].at \in {"none", "start", "started", "stop", "stopped"}
  /\ x.timer => T = {} /\ x.started /\ t["start"].at = "none"
  /\ x.started => /\ t["shutdown"].at = "none" /\ t["restart"].at = "none"
                  /\ t["start"].at \in {"none", "catchup"}
  /\ t["start"].at # "none" => /\ T # {} /\ t["restart"].at = "none"
                               /\ t["start"].life = x.life
  /\ t["start"].at \in {"start", "started", "listen"}
       => t["sync"].at = "none" /\ t["shutdown"].at = "none"
  /\ t["start"].at = "catchup" => x.started
  /\ t["restart"].at # "none" => T # {} /\ t["shutdown"].at = "none"
  /\ t["sync"].at # "none"
       => x.started \/ t["shutdown"].at = "wait" \/ t["restart"].at = "wait"

\* A store with tokens is started, or about to be.
Wanted(T, x, t) ==
  T # {} /\ t["start"].at = "none" /\ t["restart"].at = "none" => x.started
LocalOf(T, x, t) == Shape(T, x, t) /\ Wanted(T, x, t)

SameHolds(x, t, y, u) == /\ MainOf(y, u) <=> MainOf(x, t)
                         /\ MainModeOf(y, u) <=> MainModeOf(x, t)
                         /\ ExtraOf(u) <=> ExtraOf(t)
                         /\ ExtraModeOf(u) <=> ExtraModeOf(t)

\* syncBackendMode only starts a change, on a started store.
LEMMA SyncedKeeps ==
  ASSUME NEW T \in Tokens, NEW x \in Store, NEW t \in Tasks, LocalOf(T, x, t), NEW toks
  PROVE  LET r == Synced(x, t, toks)
         IN /\ r[1] \in Store /\ r[2] \in Tasks /\ LocalOf(T, r[1], r[2])
            /\ SameHolds(x, t, r[1], r[2])
            /\ r[2]["start"] = t["start"] /\ r[1].started = x.started
<1> DEFINE r == Synced(x, t, toks)
<1>1. /\ \A q \in BOOLEAN : LET y == [x EXCEPT !.queued = q]
                            IN /\ y \in Store /\ y.started = x.started /\ y.full = x.full
                               /\ y.life = x.life /\ y.timer = x.timer
  BY DEF Store
<1>2. CASE t["sync"].at # "none"
  <2>1. r[1] = [x EXCEPT !.queued = TRUE] /\ r[2] = t  BY <1>2 DEF Synced
  <2> QED  BY <1>1, <2>1 DEF LocalOf, Shape, Wanted, SameHolds, MainOf, MainModeOf
<1>3. CASE t["sync"].at = "none" /\ (~x.started \/ Wants(toks) = x.full)
  <2>1. r[1] = [x EXCEPT !.queued = FALSE] /\ r[2] = t  BY <1>3 DEF Synced
  <2> QED  BY <1>1, <2>1 DEF LocalOf, Shape, Wanted, SameHolds, MainOf, MainModeOf
<1>4. CASE t["sync"].at = "none" /\ x.started /\ Wants(toks) # x.full
  <2> DEFINE call == [at |-> "start", mode |-> Wants(toks), life |-> 0]
  <2>1. r[1] = [x EXCEPT !.queued = FALSE] /\ r[2] = [t EXCEPT !["sync"] = call]
    BY <1>4 DEF Synced
  <2>2. call \in Task /\ call.at = "start"  BY DEF Task, Stages, Wants
  <2> HIDE DEF call
  <2>3. /\ r[2] \in Tasks /\ r[2]["sync"].at = "start" /\ r[2]["start"] = t["start"]
        /\ r[2]["shutdown"] = t["shutdown"] /\ r[2]["restart"] = t["restart"]
    BY <2>1, <2>2 DEF Tasks, Kinds
  <2> HIDE DEF r
  <2>4. LocalOf(T, r[1], r[2])
    BY <1>1, <1>4, <2>1, <2>3 DEF LocalOf, Shape, Wanted
  <2>5. SameHolds(x, t, r[1], r[2])
    BY <1>1, <1>4, <2>1, <2>3 DEF SameHolds, MainOf, MainModeOf, ExtraOf, ExtraModeOf
  <2> QED  BY <1>1, <2>1, <2>3, <2>4, <2>5 DEF r
<1> QED  BY <1>2, <1>3, <1>4

\* ensureStarted calls the server, or waits for the stop in flight.
LEMMA EnsureKeeps ==
  ASSUME NEW T \in Tokens, NEW x \in Store, NEW t \in Tasks, Shape(T, x, t), T # {},
         t["restart"].at = "none", NEW toks
  PROVE  LET u == EnsureStarted(x, t, toks)
         IN u \in Tasks /\ LocalOf(T, x, u) /\ SameHolds(x, t, x, u)
<1> DEFINE u == EnsureStarted(x, t, toks)
<1>1. CASE x.started \/ t["start"].at # "none"
  <2>1. u = t  BY <1>1 DEF EnsureStarted
  <2> QED  BY <1>1, <2>1 DEF LocalOf, Wanted, SameHolds
<1>2. CASE ~(x.started \/ t["start"].at # "none")
  <2> DEFINE call == [at |-> IF t["shutdown"].at = "none" THEN "start" ELSE "wait",
                      mode |-> Wants(toks), life |-> x.life]
  <2>1. u = [t EXCEPT !["start"] = call]  BY <1>2 DEF EnsureStarted
  <2>2. /\ call \in Task /\ call.life = x.life
        /\ call.at = IF t["shutdown"].at = "none" THEN "start" ELSE "wait"
    BY DEF Task, Stages, Wants, Store
  <2> HIDE DEF call
  <2>3. /\ u \in Tasks /\ u["start"] = call /\ u["sync"] = t["sync"]
        /\ u["shutdown"] = t["shutdown"] /\ u["restart"] = t["restart"]
    BY <2>1, <2>2 DEF Tasks, Kinds
  <2> HIDE DEF u
  <2>4. LocalOf(T, x, u)  BY <1>2, <2>2, <2>3 DEF LocalOf, Shape, Wanted
  <2>5. SameHolds(x, t, x, u)
    BY <1>2, <2>2, <2>3 DEF SameHolds, MainOf, MainModeOf, ExtraOf, ExtraModeOf
  <2> QED  BY <2>3, <2>4, <2>5 DEF u
<1> QED  BY <1>1, <1>2

-------------------------------------------------------------------------------
(* All stores and the server.                                                  *)

Left  == [tokens : 0..MaxTokens, restarts : 0..MaxRestarts, fails : 0..MaxFails]
Types == /\ server \in [ref : Nat, full : Nat]
         /\ tokens \in [Stores -> Tokens] /\ store \in [Stores -> Store]
         /\ task \in [Stores -> Tasks] /\ again \in [Stores -> {0}] /\ left \in Left

Mains      == {s \in Stores : MainOf(store[s], task[s])}
FullMains  == {s \in Stores : MainModeOf(store[s], task[s])}
Extras     == {s \in Stores : ExtraOf(task[s])}
FullExtras == {s \in Stores : ExtraModeOf(task[s])}

\* The server counts what the stores hold.
Counts == /\ server.ref = Cardinality(Mains) + Cardinality(Extras)
          /\ server.full = Cardinality(FullMains) + Cardinality(FullExtras)

Local(s) == LocalOf(tokens[s], store[s], task[s])
Inv == Types /\ (\A s \in Stores : Local(s)) /\ Counts

\* A step of one store that leaves its subscriptions as they are.
LEMMA StoreStep ==
  ASSUME Inv, NEW s \in Stores, NEW T \in Tokens, NEW x \in Store, NEW t \in Tasks,
         tokens' = [tokens EXCEPT ![s] = T], store' = [store EXCEPT ![s] = x],
         task' = [task EXCEPT ![s] = t], again' \in [Stores -> {0}], left' \in Left,
         server' = server, LocalOf(T, x, t), SameHolds(store[s], task[s], x, t)
  PROVE  Inv'
<1>1. /\ tokens' \in [Stores -> Tokens] /\ tokens'[s] = T
      /\ store' \in [Stores -> Store] /\ store'[s] = x
      /\ task' \in [Stores -> Tasks] /\ task'[s] = t
      /\ \A r \in Stores \ {s} : /\ tokens'[r] = tokens[r] /\ store'[r] = store[r]
                                 /\ task'[r] = task[r]
  BY DEF Inv, Types
<1>2. \A r \in Stores : LocalOf(tokens'[r], store'[r], task'[r])
  BY <1>1 DEF Inv, Local
<1>3. \A r \in Stores : SameHolds(store[r], task[r], store'[r], task'[r])
  BY <1>1 DEF SameHolds
<1>4. /\ Mains' = Mains /\ FullMains' = FullMains
      /\ Extras' = Extras /\ FullExtras' = FullExtras
  BY <1>3 DEF SameHolds, Mains, FullMains, Extras, FullExtras
<1> QED  BY <1>1, <1>2, <1>4 DEF Inv, Types, Counts, Local

-------------------------------------------------------------------------------
(* The steps of a store.                                                       *)

LEMMA AcquireStep ==
  ASSUME BoundsAssumption, Inv, NEW s \in Stores, NEW m \in {"full", "paths"}, Acquire(s, m)
  PROVE  Inv'
<1> DEFINE T  == tokens[s] \cup {m}
           x  == store[s]
           t  == task[s]
           reuse == x.life > 0 /\ (x.started \/ t["start"].at # "none" \/ t["shutdown"].at # "none")
           y  == [x EXCEPT !.timer = FALSE, !.life = IF tokens[s] # {} \/ reuse THEN @ ELSE @ + 1]
<1>1. /\ T \in Tokens /\ T # {} /\ x \in Store /\ t \in Tasks /\ LocalOf(tokens[s], x, t)
      /\ again[s] = 0
  BY DEF Inv, Types, Local, Tokens
<1>2. /\ tokens' = [tokens EXCEPT ![s] = T] /\ server' = server
      /\ left.tokens > 0 /\ left' = [left EXCEPT !.tokens = @ - 1]
  BY DEF Acquire
<1>3. left' \in Left
  <2>1. left \in Left /\ left.tokens \in 0..MaxTokens  BY DEF Inv, Types, Left
  <2>2. left.tokens - 1 \in 0..MaxTokens  BY <1>2, <2>1 DEF BoundsAssumption
  <2> QED  BY <1>2, <2>1, <2>2 DEF Left
<1>4. /\ y \in Store /\ y.started = x.started /\ y.full = x.full /\ y.timer = FALSE
      /\ tokens[s] # {} => y.life = x.life
  <2> DEFINE l == IF tokens[s] # {} \/ reuse THEN x.life ELSE x.life + 1
  <2>1. x.life \in Nat  BY <1>1 DEF Store
  <2>2. l \in Nat /\ (tokens[s] # {} => l = x.life)  BY <2>1
  <2>3. y = [x EXCEPT !.timer = FALSE, !.life = l]  OBVIOUS
  <2> HIDE DEF l, y
  <2> QED  BY <1>1, <2>2, <2>3 DEF Store
<1> HIDE DEF y, reuse
<1>5. Shape(T, y, t)  BY <1>1, <1>4 DEF LocalOf, Shape
<1>6. SameHolds(x, t, y, t)  BY <1>4 DEF SameHolds, MainOf, MainModeOf
<1>7. CASE tokens[s] = {}
  <2>1. t["start"].at = "none" /\ t["restart"].at = "none"
    BY <1>1, <1>7 DEF LocalOf, Shape
  <2>2. again' \in [Stores -> {0}]
    <3>1. again' = [again EXCEPT ![s] = Waiter(s, y, t)]
      BY <1>7 DEF Acquire, y, reuse
    <3>2. Waiter(s, y, t) = 0  BY <1>1, <2>1 DEF Waiter
    <3> QED  BY <3>1, <3>2 DEF Inv, Types
  <2>3. CASE x.timer /\ x.started
    <3> DEFINE r == Synced(y, t, T)
    <3>1. store' = [store EXCEPT ![s] = r[1]] /\ task' = [task EXCEPT ![s] = r[2]]
      BY <1>7, <2>3 DEF Acquire, Set, y, reuse
    <3>2. LocalOf(T, y, t)  BY <1>4, <1>5, <2>3 DEF LocalOf, Wanted
    <3>3. /\ r[1] \in Store /\ r[2] \in Tasks /\ LocalOf(T, r[1], r[2])
          /\ SameHolds(y, t, r[1], r[2])
      BY <1>1, <1>4, <3>2, SyncedKeeps
    <3> HIDE DEF r
    <3>4. SameHolds(x, t, r[1], r[2])  BY <1>6, <3>3 DEF SameHolds
    <3> QED  BY <1>1, <1>2, <1>3, <2>2, <3>1, <3>3, <3>4, StoreStep
  <2>4. CASE ~(x.timer /\ x.started)
    <3> DEFINE u == EnsureStarted(y, t, T)
    <3>1. store' = [store EXCEPT ![s] = y] /\ task' = [task EXCEPT ![s] = u]
      BY <1>7, <2>4 DEF Acquire, Set, y, reuse
    <3>2. u \in Tasks /\ LocalOf(T, y, u) /\ SameHolds(y, t, y, u)
      BY <1>1, <1>4, <1>5, <2>1, EnsureKeeps
    <3> HIDE DEF u
    <3>3. SameHolds(x, t, y, u)  BY <1>6, <3>2 DEF SameHolds
    <3> QED  BY <1>1, <1>2, <1>3, <1>4, <2>2, <3>1, <3>2, <3>3, StoreStep
  <2> QED  BY <2>3, <2>4
<1>8. CASE tokens[s] # {}
  <2>1. LocalOf(T, y, t)  BY <1>1, <1>4, <1>5, <1>8 DEF LocalOf, Wanted
  <2>2. again' \in [Stores -> {0}]  BY <1>8 DEF Acquire, Inv, Types
  <2>3. CASE m = "full"
    <3> DEFINE r == Synced(y, t, T)
    <3>1. store' = [store EXCEPT ![s] = r[1]] /\ task' = [task EXCEPT ![s] = r[2]]
      BY <1>8, <2>3 DEF Acquire, Set, y, reuse
    <3>2. /\ r[1] \in Store /\ r[2] \in Tasks /\ LocalOf(T, r[1], r[2])
          /\ SameHolds(y, t, r[1], r[2])
      BY <1>1, <1>4, <2>1, SyncedKeeps
    <3> HIDE DEF r
    <3>3. SameHolds(x, t, r[1], r[2])  BY <1>6, <3>2 DEF SameHolds
    <3> QED  BY <1>1, <1>2, <1>3, <2>2, <3>1, <3>2, <3>3, StoreStep
  <2>4. CASE m # "full"
    <3>1. store' = [store EXCEPT ![s] = y] /\ task' = [task EXCEPT ![s] = t]
      BY <1>8, <2>4 DEF Acquire, Set, y, reuse
    <3> QED  BY <1>1, <1>2, <1>3, <1>4, <1>6, <2>1, <2>2, <3>1, StoreStep
  <2> QED  BY <2>3, <2>4
<1> QED  BY <1>7, <1>8

LEMMA ReleaseStep ==
  ASSUME Inv, Patient, NEW s \in Stores, NEW m \in {"full", "paths"}, Release(s, m)
  PROVE  Inv'
<1> DEFINE T == tokens[s] \ {m}
           x == store[s]
           t == task[s]
<1>1. /\ T \in Tokens /\ tokens[s] # {} /\ x \in Store /\ t \in Tasks
      /\ LocalOf(tokens[s], x, t)
  BY DEF Inv, Types, Local, Tokens, Release
<1>2. /\ tokens' = [tokens EXCEPT ![s] = T] /\ server' = server
      /\ again' \in [Stores -> {0}] /\ left' \in Left
  BY DEF Release, Inv, Types
<1>3. CASE T = {}
  <2> DEFINE y == [x EXCEPT !.timer = TRUE]
  <2>1. store' = [store EXCEPT ![s] = y] /\ task' = [task EXCEPT ![s] = t]
    BY <1>3 DEF Release, Set
  <2>2. t["start"].at = "none" /\ t["restart"].at = "none"
    <3>1. tokens[s] = {m}  BY <1>3 DEF Release
    <3> QED  BY <3>1 DEF Release, At
  <2>3. y \in Store /\ y.started = x.started /\ y.full = x.full /\ y.life = x.life
    BY <1>1 DEF Store
  <2> HIDE DEF y
  <2>4. LocalOf(T, y, t)
    BY <1>1, <1>3, <2>2, <2>3 DEF LocalOf, Shape, Wanted
  <2>5. SameHolds(x, t, y, t)  BY <2>3 DEF SameHolds, MainOf, MainModeOf
  <2> QED  BY <1>1, <1>2, <2>1, <2>3, <2>4, <2>5, StoreStep
<1>4. CASE T # {}
  <2>1. LocalOf(T, x, t)  BY <1>1, <1>4 DEF LocalOf, Shape, Wanted
  <2>2. CASE m = "full"
    <3> DEFINE r == Synced(x, t, T)
    <3>1. store' = [store EXCEPT ![s] = r[1]] /\ task' = [task EXCEPT ![s] = r[2]]
      BY <1>4, <2>2 DEF Release, Set
    <3>2. /\ r[1] \in Store /\ r[2] \in Tasks /\ LocalOf(T, r[1], r[2])
          /\ SameHolds(x, t, r[1], r[2])
      BY <1>1, <2>1, SyncedKeeps
    <3> HIDE DEF r
    <3> QED  BY <1>1, <1>2, <3>1, <3>2, StoreStep
  <2>3. CASE m # "full"
    <3>1. store' = [store EXCEPT ![s] = x] /\ task' = [task EXCEPT ![s] = t]
      BY <1>4, <2>3 DEF Release, Set
    <3>2. SameHolds(x, t, x, t)  BY DEF SameHolds
    <3> QED  BY <1>1, <1>2, <2>1, <3>1, <3>2, StoreStep
  <2> QED  BY <2>2, <2>3
<1> QED  BY <1>3, <1>4

\* A stop begins only on a store that runs, so that it gives back what is held.
LEMMA BeginShutdownStep ==
  ASSUME Inv, NEW s \in Stores, NEW k \in {"shutdown", "restart"}, BeginShutdown(s, k),
         store[s].started, task[s]["start"].at = "none", k = "restart" <=> tokens[s] # {},
         server' = server, tokens' = tokens, again' = again, left' \in Left
  PROVE  Inv'
<1> DEFINE T == tokens[s]
           x == store[s]
           t == task[s]
           y == [x EXCEPT !.timer = FALSE, !.started = FALSE]
           call == [at |-> IF t["sync"].at = "none" THEN "stop" ELSE "wait",
                    mode |-> x.full, life |-> 0]
           u == [t EXCEPT ![k] = call]
<1>1. T \in Tokens /\ x \in Store /\ t \in Tasks /\ LocalOf(T, x, t)
  BY DEF Inv, Types, Local
<1>2. /\ tokens' = [tokens EXCEPT ![s] = T] /\ again' \in [Stores -> {0}]
      /\ store' = [store EXCEPT ![s] = y] /\ task' = [task EXCEPT ![s] = u]
  BY DEF Inv, Types, BeginShutdown, Set, At
<1>3. y \in Store /\ ~y.started /\ ~y.timer /\ y.full = x.full /\ y.life = x.life
  BY <1>1 DEF Store
<1>4. /\ call \in Task /\ call.mode = x.full
      /\ call.at = IF t["sync"].at = "none" THEN "stop" ELSE "wait"
  BY <1>1 DEF Task, Stages, Store
<1> HIDE DEF y, call
<1>5. /\ u \in Tasks /\ u["start"] = t["start"] /\ u["sync"] = t["sync"] /\ u[k] = call
      /\ \A j \in {"shutdown", "restart"} \ {k} : u[j] = t[j]
  BY <1>1, <1>4 DEF Tasks, Kinds
<1> HIDE DEF u
<1>6. t["shutdown"].at = "none" /\ t["restart"].at = "none"
  BY <1>1 DEF LocalOf, Shape
<1>7. LocalOf(T, y, u)
  BY <1>1, <1>3, <1>4, <1>5, <1>6 DEF LocalOf, Shape, Wanted
<1>8. SameHolds(x, t, y, u)
  BY <1>1, <1>3, <1>4, <1>5, <1>6 DEF SameHolds, MainOf, MainModeOf, ExtraOf, ExtraModeOf
<1> QED  BY <1>1, <1>2, <1>3, <1>5, <1>7, <1>8, StoreStep

\* A step of one task of a store to another stage.
LEMMA TaskMoves ==
  ASSUME Inv, NEW s \in Stores, NEW k \in Kinds, NEW c \in Task,
         task' = [task EXCEPT ![s][k] = c], UNCHANGED <<server, tokens, store, again, left>>,
         LocalOf(tokens[s], store[s], [task[s] EXCEPT ![k] = c]),
         SameHolds(store[s], task[s], store[s], [task[s] EXCEPT ![k] = c])
  PROVE  Inv'
<1> DEFINE u == [task[s] EXCEPT ![k] = c]
<1>1. /\ tokens[s] \in Tokens /\ store[s] \in Store /\ task[s] \in Tasks
      /\ tokens' = [tokens EXCEPT ![s] = tokens[s]] /\ store' = [store EXCEPT ![s] = store[s]]
      /\ again' \in [Stores -> {0}] /\ left' \in Left
  BY DEF Inv, Types
<1>2. u \in Tasks  BY <1>1 DEF Tasks
<1>3. task' = [task EXCEPT ![s] = u]  OBVIOUS
<1>4. server' = server /\ LocalOf(tokens[s], store[s], u)
      /\ SameHolds(store[s], task[s], store[s], u)
  OBVIOUS
<1> HIDE DEF u
<1> QED  BY <1>1, <1>2, <1>3, <1>4, StoreStep

LEMMA StopSteps ==
  ASSUME Inv, NEW s \in Stores,
         \/ \E k \in {"shutdown", "restart"} : Shutdown(s, k)
         \/ ShutdownDone(s) \/ RestartDone(s)
  PROVE  Inv'
<1> DEFINE T == tokens[s]
           x == store[s]
           t == task[s]
<1>1. T \in Tokens /\ x \in Store /\ t \in Tasks /\ LocalOf(T, x, t) /\ again[s] = 0
  BY DEF Inv, Types, Local
<1>2. ASSUME NEW k \in {"shutdown", "restart"}, Shutdown(s, k)  PROVE Inv'
  <2> DEFINE call == [at |-> "stop", mode |-> x.full, life |-> 0]
             u    == [t EXCEPT ![k] = call]
  <2>1. /\ task' = [task EXCEPT ![s][k] = call] /\ t[k].at = "wait" /\ t["sync"].at = "none"
        /\ UNCHANGED <<server, tokens, store, again, left>> /\ k \in Kinds
    BY <1>2 DEF Shutdown, At, Kinds
  <2>2. call \in Task /\ call.at = "stop" /\ call.mode = x.full
    BY <1>1 DEF Task, Stages, Store
  <2> HIDE DEF call
  <2>3. /\ u["start"] = t["start"] /\ u["sync"] = t["sync"] /\ u[k] = call
        /\ \A j \in {"shutdown", "restart"} \ {k} : u[j] = t[j]
    BY <1>1 DEF Tasks, Kinds
  <2> HIDE DEF u
  <2>4. LocalOf(T, x, u)
    BY <1>1, <2>1, <2>2, <2>3 DEF LocalOf, Shape, Wanted
  <2>5. SameHolds(x, t, x, u)
    BY <1>1, <2>1, <2>2, <2>3
       DEF LocalOf, Shape, SameHolds, MainOf, MainModeOf, ExtraOf, ExtraModeOf
  <2> QED  BY <2>1, <2>2, <2>4, <2>5, TaskMoves DEF u
<1>3. CASE ShutdownDone(s)
  <2> DEFINE call == [t["shutdown"] EXCEPT !.at = "none"]
             u    == [t EXCEPT !["shutdown"] = call]
  <2>1. /\ task' = [task EXCEPT ![s]["shutdown"] = call] /\ t["shutdown"].at = "stopped"
        /\ UNCHANGED <<server, tokens, store, again, left>> /\ "shutdown" \in Kinds
    BY <1>3 DEF ShutdownDone, At, Moved, Kinds
  <2>2. t["shutdown"] \in Task  BY <1>1 DEF Tasks, Kinds
  <2>3. call \in Task /\ call.at = "none"  BY <2>2 DEF Task, Stages
  <2> HIDE DEF call
  <2>4. /\ u["start"] = t["start"] /\ u["sync"] = t["sync"] /\ u["shutdown"] = call
        /\ u["restart"] = t["restart"]
    BY <1>1 DEF Tasks, Kinds
  <2> HIDE DEF u
  <2>5. LocalOf(T, x, u)
    BY <1>1, <2>1, <2>3, <2>4 DEF LocalOf, Shape, Wanted
  <2>6. SameHolds(x, t, x, u)
    BY <1>1, <2>1, <2>3, <2>4 DEF SameHolds, MainOf, MainModeOf, ExtraOf, ExtraModeOf
  <2> QED  BY <2>1, <2>3, <2>5, <2>6, TaskMoves DEF u
<1>4. CASE RestartDone(s)
  <2> DEFINE y == [x EXCEPT !.life = @ + 1]
             v == [t EXCEPT !["restart"].at = "none"]
             u == EnsureStarted(y, v, T)
  <2>1. t["restart"].at = "stopped" /\ UNCHANGED <<server, tokens, left>>
    BY <1>4 DEF RestartDone, At
  <2>2. T # {} /\ t["start"].at = "none"  BY <1>1, <2>1 DEF LocalOf, Shape
  <2>3. y \in Store /\ y.started = x.started /\ y.full = x.full /\ y.timer = x.timer
    BY <1>1 DEF Store
  <2>4. /\ v \in Tasks /\ v["start"] = t["start"] /\ v["sync"] = t["sync"]
        /\ v["shutdown"] = t["shutdown"] /\ v["restart"].at = "none"
    <3>1. t["restart"] \in Task  BY <1>1 DEF Tasks, Kinds
    <3>2. /\ [t["restart"] EXCEPT !.at = "none"] \in Task
          /\ [t["restart"] EXCEPT !.at = "none"].at = "none"
      BY <3>1 DEF Task, Stages
    <3> QED  BY <1>1, <3>2 DEF Tasks, Kinds
  <2>5. /\ store' = [store EXCEPT ![s] = y] /\ task' = [task EXCEPT ![s] = u]
        /\ again' = [again EXCEPT ![s] = Waiter(s, y, v)]
    BY <1>4, <2>2 DEF RestartDone, Set
  <2> HIDE DEF y, v
  <2>6. again' \in [Stores -> {0}]
    BY <1>1, <2>2, <2>4, <2>5 DEF Waiter, Inv, Types
  <2>7. Shape(T, y, v)
    BY <1>1, <2>1, <2>2, <2>3, <2>4 DEF LocalOf, Shape
  <2>8. u \in Tasks /\ LocalOf(T, y, u) /\ SameHolds(y, v, y, u)
    BY <1>1, <2>2, <2>3, <2>4, <2>7, EnsureKeeps
  <2> HIDE DEF u
  <2>9. SameHolds(x, t, y, v)
    BY <1>1, <2>1, <2>2, <2>3, <2>4
       DEF LocalOf, Shape, SameHolds, MainOf, MainModeOf, ExtraOf, ExtraModeOf
  <2>10. SameHolds(x, t, y, u)  BY <2>8, <2>9 DEF SameHolds
  <2>11. tokens' = [tokens EXCEPT ![s] = T] /\ left' \in Left /\ server' = server
    BY <2>1 DEF Inv, Types
  <2> QED  BY <1>1, <2>3, <2>5, <2>6, <2>8, <2>10, <2>11, StoreStep
<1> QED  BY <1>2, <1>3, <1>4

\* Faultless and patient starts: the store stays wanted until the start is over.
LEMMA StartSteps ==
  ASSUME Inv, NEW s \in Stores,
         StartCall(s) \/ StartAnswer(s) \/ Listen(s) \/ CatchUp(s) \/ Undone(s)
  PROVE  Inv'
<1> DEFINE T == tokens[s]
           x == store[s]
           t == task[s]
<1>1. T \in Tokens /\ x \in Store /\ t \in Tasks /\ LocalOf(T, x, t) /\ again[s] = 0
  BY DEF Inv, Types, Local
<1>2. /\ t["start"] \in Task
      /\ t["start"].at # "none" => Active(s, t["start"].life)
      /\ tokens = [tokens EXCEPT ![s] = T] /\ store = [store EXCEPT ![s] = x]
  BY <1>1 DEF LocalOf, Shape, Active, Tasks, Kinds, Inv, Types
<1>3. ASSUME NEW at \in Stages
      PROVE  LET u == [t EXCEPT !["start"].at = at]
             IN /\ u \in Tasks /\ u["start"].at = at /\ u["start"].life = t["start"].life
                /\ u["start"].mode = t["start"].mode
                /\ u["sync"] = t["sync"] /\ u["shutdown"] = t["shutdown"]
                /\ u["restart"] = t["restart"]
  <2>1. LET c == [t["start"] EXCEPT !.at = at]
        IN c \in Task /\ c.at = at /\ c.life = t["start"].life /\ c.mode = t["start"].mode
    BY <1>2 DEF Task
  <2> QED  BY <1>1, <2>1 DEF Tasks, Kinds
<1>4. CASE StartCall(s)
  <2> DEFINE c == [at |-> "start", mode |-> Wants(T), life |-> t["start"].life]
             u == [t EXCEPT !["start"] = c]
  <2>1. /\ t["start"].at = "wait" /\ t["shutdown"].at = "none"
        /\ task' = [task EXCEPT ![s]["start"].at = "start", ![s]["start"].mode = Wants(T)]
        /\ UNCHANGED <<server, tokens, store, again, left>>
    BY <1>2, <1>4 DEF StartCall, At
  <2>2. c \in Task /\ c.at = "start" /\ c.life = t["start"].life
    BY <1>2 DEF Task, Stages, Wants
  <2>3. c = [t["start"] EXCEPT !.at = "start", !.mode = Wants(T)]
    <3> DEFINE d == [t["start"] EXCEPT !.at = "start", !.mode = Wants(T)]
    <3>1. \A b \in BOOLEAN :
            LET e == [t["start"] EXCEPT !.at = "start", !.mode = b]
            IN e \in Task /\ e.at = "start" /\ e.mode = b /\ e.life = t["start"].life
      BY <1>2 DEF Task, Stages
    <3>2. Wants(T) \in BOOLEAN  BY DEF Wants
    <3>3. d \in Task /\ d.at = "start" /\ d.mode = Wants(T) /\ d.life = t["start"].life
      BY <3>1, <3>2
    <3>4. c.mode = Wants(T) /\ c.life = t["start"].life  OBVIOUS
    <3> HIDE DEF c, d
    <3>5. c = d  BY <2>2, <3>3, <3>4 DEF Task
    <3> QED  BY <3>5 DEF d
  <2>4. task' = [task EXCEPT ![s]["start"] = c]
    BY <1>1, <2>1, <2>3 DEF Inv, Types, Tasks, Kinds
  <2> HIDE DEF c
  <2>5. /\ u["start"] = c /\ u["sync"] = t["sync"] /\ u["shutdown"] = t["shutdown"]
        /\ u["restart"] = t["restart"] /\ "start" \in Kinds
    BY <1>1 DEF Tasks, Kinds
  <2> HIDE DEF u
  <2>6. LocalOf(T, x, u)  BY <1>1, <2>1, <2>2, <2>5 DEF LocalOf, Shape, Wanted
  <2>7. SameHolds(x, t, x, u)
    BY <1>1, <2>1, <2>2, <2>5 DEF SameHolds, MainOf, MainModeOf, ExtraOf, ExtraModeOf
  <2> QED  BY <2>1, <2>2, <2>4, <2>5, <2>6, <2>7, TaskMoves DEF u
<1>5. CASE StartAnswer(s)
  <2> DEFINE y == [x EXCEPT !.full = t["start"].mode]
             u == [t EXCEPT !["start"].at = "listen"]
  <2>1. /\ t["start"].at = "started" /\ UNCHANGED <<server, tokens, again, left>>
        /\ store' = [store EXCEPT ![s] = y] /\ task' = [task EXCEPT ![s] = u]
    BY <1>2, <1>5 DEF StartAnswer, At, Set
  <2>2. /\ y \in Store /\ y.full = t["start"].mode /\ y.started = x.started
        /\ y.timer = x.timer /\ y.life = x.life
    BY <1>1, <1>2 DEF Store, Task
  <2>3. /\ u \in Tasks /\ u["start"].at = "listen" /\ u["start"].life = t["start"].life
        /\ u["sync"] = t["sync"] /\ u["shutdown"] = t["shutdown"]
        /\ u["restart"] = t["restart"]
    BY <1>3 DEF Stages
  <2> HIDE DEF y, u
  <2>4. LocalOf(T, y, u)  BY <1>1, <2>1, <2>2, <2>3 DEF LocalOf, Shape, Wanted
  <2>5. SameHolds(x, t, y, u)
    BY <1>1, <2>1, <2>2, <2>3
       DEF LocalOf, Shape, SameHolds, MainOf, MainModeOf, ExtraOf, ExtraModeOf
  <2>6. tokens' = [tokens EXCEPT ![s] = T] /\ again' \in [Stores -> {0}] /\ left' \in Left
    BY <1>2, <2>1 DEF Inv, Types
  <2> QED  BY <1>1, <2>1, <2>2, <2>3, <2>4, <2>5, <2>6, StoreStep
<1>6. CASE Listen(s)
  <2> DEFINE y == [x EXCEPT !.started = TRUE]
             u == [t EXCEPT !["start"].at = "catchup"]
  <2>1. /\ t["start"].at = "listen" /\ UNCHANGED <<server, tokens, again, left>>
        /\ store' = [store EXCEPT ![s] = y] /\ task' = [task EXCEPT ![s] = u]
    BY <1>2, <1>6 DEF Listen, At, Set
  <2>2. /\ y \in Store /\ y.full = x.full /\ y.started
        /\ y.timer = x.timer /\ y.life = x.life
    BY <1>1 DEF Store
  <2>3. /\ u \in Tasks /\ u["start"].at = "catchup" /\ u["start"].life = t["start"].life
        /\ u["sync"] = t["sync"] /\ u["shutdown"] = t["shutdown"]
        /\ u["restart"] = t["restart"]
    BY <1>3 DEF Stages
  <2> HIDE DEF y, u
  <2>4. LocalOf(T, y, u)  BY <1>1, <2>1, <2>2, <2>3 DEF LocalOf, Shape, Wanted
  <2>5. SameHolds(x, t, y, u)
    BY <1>1, <2>1, <2>2, <2>3
       DEF LocalOf, Shape, SameHolds, MainOf, MainModeOf, ExtraOf, ExtraModeOf
  <2>6. tokens' = [tokens EXCEPT ![s] = T] /\ again' \in [Stores -> {0}] /\ left' \in Left
    BY <1>2, <2>1 DEF Inv, Types
  <2> QED  BY <1>1, <2>1, <2>2, <2>3, <2>4, <2>5, <2>6, StoreStep
<1>7. CASE CatchUp(s)
  <2>1. t["start"].at = "catchup" /\ UNCHANGED <<server, tokens, left>>
    BY <1>7 DEF CatchUp, At
  <2>2. ASSUME NEW y \in Store, NEW v \in Tasks, LocalOf(T, y, v), SameHolds(x, t, y, v),
               v["start"] = t["start"], y.started, Ended(s, y, v)
        PROVE  Inv'
    <3> DEFINE u == [v EXCEPT !["start"] = NoTask]
    <3>1. /\ store' = [store EXCEPT ![s] = y] /\ task' = [task EXCEPT ![s] = u]
          /\ again' = [again EXCEPT ![s] = 0]
      BY <1>1, <2>2 DEF Ended, Set
    <3>2. NoTask \in Task /\ NoTask.at = "none"  BY DEF NoTask, Task, Stages
    <3>3. /\ u \in Tasks /\ u["start"] = NoTask /\ u["sync"] = v["sync"]
          /\ u["shutdown"] = v["shutdown"] /\ u["restart"] = v["restart"]
      BY <2>2, <3>2 DEF Tasks, Kinds
    <3> HIDE DEF u
    <3>4. LocalOf(T, y, u)  BY <2>1, <2>2, <3>2, <3>3 DEF LocalOf, Shape, Wanted
    <3>5. SameHolds(y, v, y, u)
      BY <2>1, <2>2, <3>2, <3>3
         DEF LocalOf, Shape, SameHolds, MainOf, MainModeOf, ExtraOf, ExtraModeOf
    <3>6. SameHolds(x, t, y, u)  BY <2>2, <3>5 DEF SameHolds
    <3>7. tokens' = [tokens EXCEPT ![s] = T] /\ again' \in [Stores -> {0}] /\ left' \in Left
      BY <1>2, <2>1, <3>1 DEF Inv, Types
    <3> QED  BY <1>1, <2>1, <2>2, <3>1, <3>3, <3>4, <3>6, <3>7, StoreStep
  <2>3. x.started  BY <1>1, <2>1 DEF LocalOf, Shape
  <2>4. CASE server.ref > 0
    <3> DEFINE r == Synced(x, t, T)
    <3>1. Ended(s, r[1], r[2])  BY <1>2, <1>7, <2>1, <2>4 DEF CatchUp
    <3>2. /\ r[1] \in Store /\ r[2] \in Tasks /\ LocalOf(T, r[1], r[2])
          /\ SameHolds(x, t, r[1], r[2])
          /\ r[2]["start"] = t["start"] /\ r[1].started = x.started
      BY <1>1, SyncedKeeps
    <3> HIDE DEF r
    <3> QED  BY <2>2, <2>3, <3>1, <3>2
  <2>5. CASE ~(server.ref > 0)
    <3>1. Ended(s, x, t)  BY <1>7, <2>5 DEF CatchUp
    <3>2. SameHolds(x, t, x, t)  BY DEF SameHolds
    <3> QED  BY <1>1, <2>2, <2>3, <3>1, <3>2
  <2> QED  BY <2>4, <2>5
<1>8. CASE Undone(s)
  BY <1>1, <1>8 DEF Undone, At, LocalOf, Shape
<1> QED  BY <1>4, <1>5, <1>6, <1>7, <1>8

\* A change of the mode: the two subscriptions change places when the new one is held.
LEMMA SyncDoneStep ==
  ASSUME Inv, NEW s \in Stores, SyncDone(s)
  PROVE  Inv'
<1> DEFINE T == tokens[s]
           x == store[s]
           t == task[s]
           v == [t EXCEPT !["sync"] = NoTask]
<1>1. T \in Tokens /\ x \in Store /\ t \in Tasks /\ LocalOf(T, x, t)
  BY DEF Inv, Types, Local
<1>2. t["sync"].at = "stopped" /\ UNCHANGED <<server, tokens, again, left>>
  BY DEF SyncDone, At
<1>3. NoTask \in Task /\ NoTask.at = "none"  BY DEF NoTask, Task, Stages
<1>4. /\ v \in Tasks /\ v["start"] = t["start"] /\ v["sync"] = NoTask
      /\ v["shutdown"] = t["shutdown"] /\ v["restart"] = t["restart"]
  BY <1>1, <1>3 DEF Tasks, Kinds
<1> HIDE DEF v
<1>5. LocalOf(T, x, v)  BY <1>1, <1>2, <1>3, <1>4 DEF LocalOf, Shape, Wanted
<1>6. SameHolds(x, t, x, v)
  BY <1>1, <1>2, <1>3, <1>4 DEF SameHolds, MainOf, MainModeOf, ExtraOf, ExtraModeOf
<1>7. tokens' = [tokens EXCEPT ![s] = T] /\ again' \in [Stores -> {0}] /\ left' \in Left
      /\ server' = server
  BY <1>2 DEF Inv, Types
<1>8. CASE x.queued
  <2> DEFINE r == Synced(x, v, T)
  <2>1. store' = [store EXCEPT ![s] = r[1]] /\ task' = [task EXCEPT ![s] = r[2]]
    BY <1>8 DEF SyncDone, Set, v
  <2>2. /\ r[1] \in Store /\ r[2] \in Tasks /\ LocalOf(T, r[1], r[2])
        /\ SameHolds(x, v, r[1], r[2])
    BY <1>1, <1>4, <1>5, SyncedKeeps
  <2> HIDE DEF r
  <2>3. SameHolds(x, t, r[1], r[2])  BY <1>6, <2>2 DEF SameHolds
  <2> QED  BY <1>1, <1>7, <2>1, <2>2, <2>3, StoreStep
<1>9. CASE ~x.queued
  <2>1. store' = [store EXCEPT ![s] = x] /\ task' = [task EXCEPT ![s] = v]
    BY <1>9 DEF SyncDone, Set, v
  <2> QED  BY <1>1, <1>4, <1>5, <1>6, <1>7, <2>1, StoreStep
<1> QED  BY <1>8, <1>9

\* Sums of cardinalities when one store joins, leaves or changes sets.
LEMMA SetJoins ==
  ASSUME IsFiniteSet(Stores), NEW A \in SUBSET Stores, NEW s \in Stores, s \notin A
  PROVE  IsFiniteSet(A) /\ Cardinality(A) \in Nat /\ Cardinality(A \cup {s}) = Cardinality(A) + 1
BY FS_Subset, FS_CardinalityType, FS_AddElement

LEMMA SetLeaves ==
  ASSUME IsFiniteSet(Stores), NEW A \in SUBSET Stores, NEW s \in A
  PROVE  /\ Cardinality(A) \in Nat \ {0} /\ Cardinality(A \ {s}) = Cardinality(A) - 1
         /\ Cardinality(A \ {s}) \in Nat
<1>1. IsFiniteSet(A) /\ IsFiniteSet(A \ {s})  BY FS_Subset
<1>2. Cardinality(A) \in Nat /\ Cardinality(A \ {s}) \in Nat  BY <1>1, FS_CardinalityType
<1>3. Cardinality((A \ {s}) \cup {s}) = Cardinality(A \ {s}) + 1
  BY <1>1, FS_AddElement
<1>4. (A \ {s}) \cup {s} = A  OBVIOUS
<1>5. Cardinality(A) = Cardinality(A \ {s}) + 1  BY <1>3, <1>4
<1> QED  BY <1>2, <1>5

LEMMA Sizes ==
  ASSUME IsFiniteSet(Stores)
  PROVE  /\ Mains \in SUBSET Stores /\ FullMains \in SUBSET Mains
         /\ Extras \in SUBSET Stores /\ FullExtras \in SUBSET Extras
         /\ \A A \in SUBSET Stores : IsFiniteSet(A) /\ Cardinality(A) \in Nat
         /\ \A A \in SUBSET Stores : Cardinality(A) = 0 <=> A = {}
         /\ Cardinality(FullMains) <= Cardinality(Mains)
         /\ Cardinality(FullExtras) <= Cardinality(Extras)
<1>1. /\ Mains \in SUBSET Stores /\ FullMains \in SUBSET Mains
      /\ Extras \in SUBSET Stores /\ FullExtras \in SUBSET Extras
  BY DEF Mains, FullMains, Extras, FullExtras, MainModeOf, ExtraModeOf
<1>2. \A A \in SUBSET Stores : IsFiniteSet(A) /\ Cardinality(A) \in Nat
  BY FS_Subset, FS_CardinalityType
<1>3. \A A \in SUBSET Stores : Cardinality(A) = 0 <=> A = {}
  BY <1>2, FS_EmptySet
<1> QED  BY <1>1, <1>2, <1>3, FS_Subset

LEMMA SyncAnswerStep ==
  ASSUME IsFiniteSet(Stores), Inv, NEW s \in Stores, SyncAnswer(s)
  PROVE  Inv'
<1> DEFINE T == tokens[s]
           x == store[s]
           t == task[s]
           y == [x EXCEPT !.full = t["sync"].mode]
           c == [at |-> "stop", mode |-> x.full, life |-> t["sync"].life]
           u == [t EXCEPT !["sync"] = c]
<1>1. T \in Tokens /\ x \in Store /\ t \in Tasks /\ LocalOf(T, x, t) /\ t["sync"] \in Task
  BY DEF Inv, Types, Local, Tasks, Kinds
<1>2. t["sync"].at = "started" /\ UNCHANGED <<server, tokens, again, left>>
  BY DEF SyncAnswer, At
<1>3. [t EXCEPT !["sync"].at = "stop", !["sync"].mode = x.full] = u
  <2> DEFINE d == [t["sync"] EXCEPT !.at = "stop", !.mode = x.full]
  <2>1. x.full \in BOOLEAN  BY <1>1 DEF Store
  <2>2. d \in Task /\ d.at = "stop" /\ d.mode = x.full /\ d.life = t["sync"].life
    BY <1>1, <2>1 DEF Task, Stages
  <2>3. c \in Task /\ c.at = "stop" /\ c.mode = x.full /\ c.life = t["sync"].life
    BY <1>1, <2>1 DEF Task, Stages
  <2>4. d = c
    <3> HIDE DEF c, d
    <3> QED  BY <2>2, <2>3 DEF Task
  <2> QED  BY <1>1, <2>4 DEF Tasks, Kinds
<1>4. store' = [store EXCEPT ![s] = y] /\ task' = [task EXCEPT ![s] = u]
  BY <1>3 DEF SyncAnswer, Set
<1>5. c \in Task /\ c.at = "stop" /\ c.mode = x.full  BY <1>1 DEF Task, Stages, Store
<1>6. /\ y \in Store /\ y.full = t["sync"].mode /\ y.started = x.started
      /\ y.timer = x.timer /\ y.life = x.life /\ x.full \in BOOLEAN /\ t["sync"].mode \in BOOLEAN
  BY <1>1 DEF Store, Task
<1> HIDE DEF c, y
<1>7. /\ u \in Tasks /\ u["sync"] = c /\ u["start"] = t["start"]
      /\ u["shutdown"] = t["shutdown"] /\ u["restart"] = t["restart"]
  BY <1>1, <1>5 DEF Tasks, Kinds
<1> HIDE DEF u
<1>8. LocalOf(T, y, u)  BY <1>1, <1>2, <1>5, <1>6, <1>7 DEF LocalOf, Shape, Wanted
<1>9. /\ MainOf(y, u) /\ MainOf(x, t) /\ ExtraOf(u) /\ ExtraOf(t)
      /\ MainModeOf(x, t) <=> x.full
      /\ MainModeOf(y, u) <=> t["sync"].mode
      /\ ExtraModeOf(t) <=> t["sync"].mode
      /\ ExtraModeOf(u) <=> x.full
  BY <1>1, <1>2, <1>5, <1>6, <1>7 DEF LocalOf, Shape, MainOf, MainModeOf, ExtraOf, ExtraModeOf
<1>10. /\ store' \in [Stores -> Store] /\ store'[s] = y
       /\ task' \in [Stores -> Tasks] /\ task'[s] = u
       /\ \A r \in Stores \ {s} : store'[r] = store[r] /\ task'[r] = task[r]
  BY <1>4, <1>6, <1>7 DEF Inv, Types
<1>11. \A r \in Stores : LocalOf(tokens'[r], store'[r], task'[r])
  BY <1>2, <1>8, <1>10 DEF Inv, Local
<1>12. Mains' = Mains /\ Extras' = Extras
  BY <1>9, <1>10 DEF Mains, Extras
<1>13. /\ FullMains \in SUBSET Stores /\ FullExtras \in SUBSET Stores
       /\ \A r \in Stores \ {s} : /\ r \in FullMains' <=> r \in FullMains
                                  /\ r \in FullExtras' <=> r \in FullExtras
       /\ FullMains' \in SUBSET Stores /\ FullExtras' \in SUBSET Stores
       /\ s \in FullMains <=> x.full
       /\ s \in FullExtras' <=> x.full
       /\ s \in FullExtras <=> t["sync"].mode
       /\ s \in FullMains' <=> t["sync"].mode
  BY <1>9, <1>10 DEF FullMains, FullExtras
<1>14. Cardinality(FullMains') + Cardinality(FullExtras')
         = Cardinality(FullMains) + Cardinality(FullExtras)
  <2>1. CASE x.full = t["sync"].mode
    <3>1. FullMains' = FullMains /\ FullExtras' = FullExtras  BY <1>13, <2>1
    <3> QED  BY <3>1
  <2>2. CASE x.full /\ ~t["sync"].mode
    <3>1. FullMains' = FullMains \ {s} /\ FullExtras' = FullExtras \cup {s}
      BY <1>13, <2>2
    <3> QED  BY <1>13, <2>2, <3>1, SetJoins, SetLeaves
  <2>3. CASE ~x.full /\ t["sync"].mode
    <3>1. FullMains' = FullMains \cup {s} /\ FullExtras' = FullExtras \ {s}
      BY <1>13, <2>3
    <3>2. /\ Cardinality(FullMains') = Cardinality(FullMains) + 1
          /\ Cardinality(FullMains) \in Nat
      BY <1>13, <2>3, <3>1, SetJoins
    <3>3. /\ Cardinality(FullExtras') = Cardinality(FullExtras) - 1
          /\ Cardinality(FullExtras) \in Nat
      BY <1>13, <2>3, <3>1, SetLeaves
    <3> QED  BY <3>2, <3>3
  <2> QED  BY <1>6, <2>1, <2>2, <2>3
<1> QED  BY <1>2, <1>10, <1>11, <1>12, <1>14 DEF Inv, Types, Counts, Local

-------------------------------------------------------------------------------
(* The server's answers: one subscription more, or one less.                   *)

\* The counts move by one subscriber, as long as what is given back was counted.
LEMMA CountsUp ==
  ASSUME Types, Counts, NEW mode \in BOOLEAN, server' = Counted(mode)
  PROVE  /\ server' \in [ref : Nat, full : Nat]
         /\ server'.ref = server.ref + 1
         /\ server'.full = server.full + IF mode THEN 1 ELSE 0
BY DEF Types, Counted

LEMMA CountsDown ==
  ASSUME Types, NEW mode \in BOOLEAN, server' = Discounted(mode),
         server.ref > 0, server.full <= server.ref, mode => server.full > 0,
         server.ref = 1 => server.full = IF mode THEN 1 ELSE 0
  PROVE  /\ server' \in [ref : Nat, full : Nat]
         /\ server'.ref = server.ref - 1
         /\ server'.full = server.full - IF mode THEN 1 ELSE 0
<1>1. server.ref \in Nat /\ server.full \in Nat  BY DEF Types
<1>2. CASE server.ref <= 1
  <2>1. server' = [ref |-> 0, full |-> 0] /\ server.ref = 1  BY <1>1, <1>2 DEF Discounted
  <2> QED  BY <1>1, <2>1
<1>3. CASE ~(server.ref <= 1)
  <2>1. server' = [ref |-> server.ref - 1,
                   full |-> IF mode /\ server.full > 0 THEN server.full - 1 ELSE server.full]
    BY <1>3 DEF Discounted
  <2> QED  BY <1>1, <1>3, <2>1
<1> QED  BY <1>2, <1>3

\* What Serve does to the tables, whichever task it answers.
LEMMA ServeKeepsLocal ==
  ASSUME Inv, NEW s \in Stores, NEW k \in Kinds, Serve(s, k)
  PROVE  LET x == store[s]
             t == task[s]
             u == task'[s]
         IN /\ task' \in [Stores -> Tasks] /\ (\A r \in Stores \ {s} : task'[r] = task[r])
            /\ UNCHANGED <<tokens, store, again, left>>
            /\ t[k].at \in {"start", "stop"} /\ t[k].mode \in BOOLEAN
            /\ u[k].at = (IF t[k].at = "start" THEN "started" ELSE "stopped")
            /\ u[k].mode = t[k].mode /\ u[k].life = t[k].life
            /\ (\A j \in Kinds \ {k} : u[j] = t[j])
            /\ server' = IF t[k].at = "start" THEN Counted(t[k].mode) ELSE Discounted(t[k].mode)
            /\ t[k].at = "start" => k \in {"start", "sync"}
            /\ t[k].at = "stop" => k # "start"
            /\ LocalOf(tokens[s], x, t) /\ LocalOf(tokens[s], x, u)
<1> DEFINE T == tokens[s]
           x == store[s]
           t == task[s]
           at == IF t[k].at = "start" THEN "started" ELSE "stopped"
           c == [t[k] EXCEPT !.at = at]
           u == [t EXCEPT ![k] = c]
<1>1. T \in Tokens /\ x \in Store /\ t \in Tasks /\ LocalOf(T, x, t) /\ t[k] \in Task
  BY DEF Inv, Types, Local, Tasks
<1>2. /\ t[k].at \in {"start", "stop"} /\ UNCHANGED <<tokens, store, again, left>>
      /\ server' = IF t[k].at = "start" THEN Counted(t[k].mode) ELSE Discounted(t[k].mode)
      /\ task' = [task EXCEPT ![s] = u]
  BY DEF Serve, At, Moved
<1>3. c \in Task /\ c.at = at /\ c.mode = t[k].mode /\ c.life = t[k].life
  BY <1>1 DEF Task, Stages
<1> HIDE DEF c
<1>4. u \in Tasks /\ u[k] = c /\ \A j \in Kinds \ {k} : u[j] = t[j]
  BY <1>1, <1>3 DEF Tasks
<1> HIDE DEF u
<1>5. /\ task' \in [Stores -> Tasks] /\ task'[s] = u
      /\ \A r \in Stores \ {s} : task'[r] = task[r]
  BY <1>2, <1>4 DEF Inv, Types
<1>6. /\ t[k].at = "start" => k \in {"start", "sync"}
      /\ t[k].at = "stop" => k # "start"
  BY <1>1 DEF LocalOf, Shape, Kinds
<1>7. LocalOf(T, x, u)
  <2>1. CASE k = "start"
    BY <1>1, <1>2, <1>3, <1>4, <1>6, <2>1 DEF LocalOf, Shape, Wanted, Kinds
  <2>2. CASE k = "sync"
    BY <1>1, <1>2, <1>3, <1>4, <1>6, <2>2 DEF LocalOf, Shape, Wanted, Kinds
  <2>3. CASE k \in {"shutdown", "restart"}
    BY <1>1, <1>2, <1>3, <1>4, <1>6, <2>3 DEF LocalOf, Shape, Wanted, Kinds
  <2> QED  BY <2>1, <2>2, <2>3 DEF Kinds
<1>8. t[k].mode \in BOOLEAN  BY <1>1 DEF Task
<1> QED  BY <1>1, <1>2, <1>3, <1>4, <1>5, <1>6, <1>7, <1>8

\* A set of stores after one of them joined it, or left it, if b says so.
LEMMA JoinsIf ==
  ASSUME IsFiniteSet(Stores), NEW A \in SUBSET Stores, NEW B \in SUBSET Stores,
         NEW s \in Stores, NEW b \in BOOLEAN, s \notin A, s \in B <=> b,
         \A r \in Stores \ {s} : r \in B <=> r \in A
  PROVE  Cardinality(B) = Cardinality(A) + IF b THEN 1 ELSE 0
<1>1. CASE b
  <2>1. B = A \cup {s}  BY <1>1
  <2> QED  BY <1>1, <2>1, SetJoins
<1>2. CASE ~b
  <2>1. B = A  BY <1>2
  <2>2. Cardinality(A) \in Nat  BY FS_Subset, FS_CardinalityType
  <2> QED  BY <1>2, <2>1, <2>2
<1> QED  BY <1>1, <1>2

LEMMA LeavesIf ==
  ASSUME IsFiniteSet(Stores), NEW A \in SUBSET Stores, NEW B \in SUBSET Stores,
         NEW s \in Stores, NEW b \in BOOLEAN, s \notin B, s \in A <=> b,
         \A r \in Stores \ {s} : r \in B <=> r \in A
  PROVE  Cardinality(B) = Cardinality(A) - IF b THEN 1 ELSE 0
<1>1. \A r \in Stores \ {s} : r \in A <=> r \in B  OBVIOUS
<1>2. Cardinality(A) = Cardinality(B) + IF b THEN 1 ELSE 0  BY <1>1, JoinsIf
<1>3. Cardinality(A) \in Nat /\ Cardinality(B) \in Nat  BY FS_Subset, FS_CardinalityType
<1> QED  BY <1>2, <1>3

LEMMA ServeStep ==
  ASSUME IsFiniteSet(Stores), Inv, NEW s \in Stores, NEW k \in Kinds, Serve(s, k)
  PROVE  Inv'
<1> DEFINE T == tokens[s]
           x == store[s]
           t == task[s]
           u == task'[s]
           b == t[k].mode
<1>1. /\ task' \in [Stores -> Tasks] /\ (\A r \in Stores \ {s} : task'[r] = task[r])
      /\ UNCHANGED <<tokens, store, again, left>>
      /\ t[k].at \in {"start", "stop"} /\ b \in BOOLEAN
      /\ u[k].at = (IF t[k].at = "start" THEN "started" ELSE "stopped")
      /\ u[k].mode = t[k].mode
      /\ (\A j \in Kinds \ {k} : u[j] = t[j])
      /\ server' = IF t[k].at = "start" THEN Counted(b) ELSE Discounted(b)
      /\ t[k].at = "start" => k \in {"start", "sync"}
      /\ t[k].at = "stop" => k # "start"
      /\ LocalOf(T, x, t) /\ LocalOf(T, x, u)
  BY ServeKeepsLocal
<1>2. \A r \in Stores : LocalOf(tokens'[r], store'[r], task'[r])
  <2>1. tokens' = tokens /\ store' = store  BY <1>1
  <2> QED  BY <1>1, <2>1 DEF Inv, Local
<1>3. /\ Mains \in SUBSET Stores /\ FullMains \in SUBSET Mains
      /\ Extras \in SUBSET Stores /\ FullExtras \in SUBSET Extras
      /\ \A A \in SUBSET Stores : IsFiniteSet(A) /\ Cardinality(A) \in Nat
      /\ \A A \in SUBSET Stores : Cardinality(A) = 0 <=> A = {}
      /\ Cardinality(FullMains) <= Cardinality(Mains)
      /\ Cardinality(FullExtras) <= Cardinality(Extras)
  BY Sizes
<1>4. /\ Mains' \in SUBSET Stores /\ FullMains' \in SUBSET Stores
      /\ Extras' \in SUBSET Stores /\ FullExtras' \in SUBSET Stores
      /\ \A r \in Stores \ {s} : /\ r \in Mains' <=> r \in Mains
                                 /\ r \in FullMains' <=> r \in FullMains
                                 /\ r \in Extras' <=> r \in Extras
                                 /\ r \in FullExtras' <=> r \in FullExtras
  BY <1>1 DEF Mains, FullMains, Extras, FullExtras
<1>5. /\ s \in Mains <=> MainOf(x, t)
      /\ s \in FullMains <=> MainModeOf(x, t)
      /\ s \in Extras <=> ExtraOf(t)
      /\ s \in FullExtras <=> ExtraModeOf(t)
      /\ s \in Mains' <=> MainOf(x, u)
      /\ s \in FullMains' <=> MainModeOf(x, u)
      /\ s \in Extras' <=> ExtraOf(u)
      /\ s \in FullExtras' <=> ExtraModeOf(u)
  BY <1>1 DEF Mains, FullMains, Extras, FullExtras
<1>6. ASSUME s \in Extras' <=> s \in Extras, s \in FullExtras' <=> s \in FullExtras
      PROVE  Extras' = Extras /\ FullExtras' = FullExtras
  BY <1>3, <1>4, <1>6
<1>7. ASSUME s \in Mains' <=> s \in Mains, s \in FullMains' <=> s \in FullMains
      PROVE  Mains' = Mains /\ FullMains' = FullMains
  BY <1>3, <1>4, <1>7
<1>8. ASSUME server' = Counted(b), Cardinality(Mains') + Cardinality(Extras')
               = Cardinality(Mains) + Cardinality(Extras) + 1,
             Cardinality(FullMains') + Cardinality(FullExtras')
               = Cardinality(FullMains) + Cardinality(FullExtras) + IF b THEN 1 ELSE 0
      PROVE  Inv'
  <2>1. /\ server' \in [ref : Nat, full : Nat] /\ server'.ref = server.ref + 1
        /\ server'.full = server.full + IF b THEN 1 ELSE 0
    BY <1>1, <1>8, CountsUp DEF Inv
  <2> QED  BY <1>1, <1>2, <1>8, <2>1 DEF Inv, Types, Counts, Local
<1>9. ASSUME server' = Discounted(b), Cardinality(Mains') + Cardinality(Extras')
               = Cardinality(Mains) + Cardinality(Extras) - 1,
             Cardinality(FullMains') + Cardinality(FullExtras')
               = Cardinality(FullMains) + Cardinality(FullExtras) - IF b THEN 1 ELSE 0,
             s \in Mains \cup Extras, b => s \in FullMains \cup FullExtras,
             Cardinality(FullMains') <= Cardinality(Mains'),
             Cardinality(FullExtras') <= Cardinality(Extras')
      PROVE  Inv'
  <2>1. /\ Cardinality(Mains) \in Nat /\ Cardinality(Extras) \in Nat
        /\ Cardinality(FullMains) \in Nat /\ Cardinality(FullExtras) \in Nat
        /\ Cardinality(Mains') \in Nat /\ Cardinality(Extras') \in Nat
        /\ Cardinality(FullMains') \in Nat /\ Cardinality(FullExtras') \in Nat
    BY <1>3, <1>4
  <2>2. Cardinality(Mains) # 0 \/ Cardinality(Extras) # 0  BY <1>3, <1>9
  <2>3. b => Cardinality(FullMains) # 0 \/ Cardinality(FullExtras) # 0  BY <1>3, <1>9
  <2>4. /\ server.ref > 0 /\ server.full <= server.ref /\ (b => server.full > 0)
        /\ server.ref = 1 => server.full = IF b THEN 1 ELSE 0
    BY <1>1, <1>3, <1>9, <2>1, <2>2, <2>3 DEF Inv, Counts
  <2>5. /\ server' \in [ref : Nat, full : Nat] /\ server'.ref = server.ref - 1
        /\ server'.full = server.full - IF b THEN 1 ELSE 0
    BY <1>1, <1>9, <2>4, CountsDown DEF Inv
  <2> QED  BY <1>1, <1>2, <1>9, <2>1, <2>5 DEF Inv, Types, Counts, Local
<1>10. ASSUME k = "start", t[k].at = "start"  PROVE Inv'
  <2>1. /\ ~MainOf(x, t) /\ MainOf(x, u) /\ (MainModeOf(x, u) <=> b)
        /\ (ExtraOf(u) <=> ExtraOf(t)) /\ (ExtraModeOf(u) <=> ExtraModeOf(t))
    BY <1>1, <1>10 DEF LocalOf, Shape, MainOf, MainModeOf, ExtraOf, ExtraModeOf, Kinds
  <2>2. Extras' = Extras /\ FullExtras' = FullExtras  BY <1>5, <1>6, <2>1
  <2>3. Cardinality(Mains') = Cardinality(Mains) + 1
    BY <1>3, <1>4, <1>5, <2>1, JoinsIf
  <2>4. Cardinality(FullMains') = Cardinality(FullMains) + IF b THEN 1 ELSE 0
    BY <1>1, <1>3, <1>4, <1>5, <2>1, JoinsIf
  <2> QED  BY <1>1, <1>3, <1>8, <1>10, <2>2, <2>3, <2>4
<1>11. ASSUME k = "sync", t[k].at = "start"  PROVE Inv'
  <2>1. /\ ~ExtraOf(t) /\ ExtraOf(u) /\ (ExtraModeOf(u) <=> b)
        /\ (MainOf(x, u) <=> MainOf(x, t)) /\ (MainModeOf(x, u) <=> MainModeOf(x, t))
    BY <1>1, <1>11 DEF MainOf, MainModeOf, ExtraOf, ExtraModeOf, Kinds
  <2>2. Mains' = Mains /\ FullMains' = FullMains  BY <1>5, <1>7, <2>1
  <2>3. Cardinality(Extras') = Cardinality(Extras) + 1
    BY <1>3, <1>4, <1>5, <2>1, JoinsIf
  <2>4. Cardinality(FullExtras') = Cardinality(FullExtras) + IF b THEN 1 ELSE 0
    <3>1. s \notin FullExtras  BY <1>3, <1>5, <2>1
    <3> QED  BY <1>1, <1>3, <1>4, <1>5, <2>1, <3>1, JoinsIf
  <2> QED  BY <1>1, <1>3, <1>8, <1>11, <2>2, <2>3, <2>4
<1>12. ASSUME k \in {"shutdown", "restart"}, t[k].at = "stop"  PROVE Inv'
  <2>1. /\ MainOf(x, t) /\ ~MainOf(x, u) /\ (MainModeOf(x, t) <=> b)
        /\ (ExtraOf(u) <=> ExtraOf(t)) /\ (ExtraModeOf(u) <=> ExtraModeOf(t))
    BY <1>1, <1>12 DEF LocalOf, Shape, MainOf, MainModeOf, ExtraOf, ExtraModeOf, Kinds
  <2>2. Extras' = Extras /\ FullExtras' = FullExtras  BY <1>5, <1>6, <2>1
  <2>3. Cardinality(Mains') = Cardinality(Mains) - 1
    BY <1>3, <1>4, <1>5, <2>1, LeavesIf
  <2>4. Cardinality(FullMains') = Cardinality(FullMains) - IF b THEN 1 ELSE 0
    <3>1. ~MainModeOf(x, u)  BY <2>1 DEF MainModeOf
    <3> QED  BY <1>1, <1>3, <1>4, <1>5, <2>1, <3>1, LeavesIf
  <2>5. Cardinality(FullMains') <= Cardinality(Mains')
    <3>1. FullMains' \in SUBSET Mains'  BY DEF Mains, FullMains, MainModeOf
    <3> QED  BY <1>3, <1>4, <3>1, FS_Subset
  <2> QED  BY <1>1, <1>3, <1>5, <1>9, <1>12, <2>1, <2>2, <2>3, <2>4, <2>5
<1>13. ASSUME k = "sync", t[k].at = "stop"  PROVE Inv'
  <2>1. /\ ExtraOf(t) /\ ~ExtraOf(u) /\ (ExtraModeOf(t) <=> b)
        /\ (MainOf(x, u) <=> MainOf(x, t)) /\ (MainModeOf(x, u) <=> MainModeOf(x, t))
    BY <1>1, <1>13 DEF MainOf, MainModeOf, ExtraOf, ExtraModeOf, Kinds
  <2>2. Mains' = Mains /\ FullMains' = FullMains  BY <1>5, <1>7, <2>1
  <2>3. Cardinality(Extras') = Cardinality(Extras) - 1
    BY <1>3, <1>4, <1>5, <2>1, LeavesIf
  <2>4. Cardinality(FullExtras') = Cardinality(FullExtras) - IF b THEN 1 ELSE 0
    <3>1. ~ExtraModeOf(u)  BY <2>1 DEF ExtraModeOf
    <3> QED  BY <1>1, <1>3, <1>4, <1>5, <2>1, <3>1, LeavesIf
  <2>5. Cardinality(FullExtras') <= Cardinality(Extras')
    <3>1. FullExtras' \in SUBSET Extras'  BY DEF Extras, FullExtras, ExtraModeOf
    <3> QED  BY <1>3, <1>4, <3>1, FS_Subset
  <2> QED  BY <1>1, <1>3, <1>5, <1>9, <1>13, <2>1, <2>2, <2>3, <2>4, <2>5
<1> QED  BY <1>1, <1>10, <1>11, <1>12, <1>13 DEF Kinds

\* The timer of a store that still runs, and a restart by hand of one with views.
LEMMA TimerSteps ==
  ASSUME BoundsAssumption, Inv, Patient, NEW s \in Stores, Fire(s) \/ Restart(s)
  PROVE  Inv'
<1>1. LocalOf(tokens[s], store[s], task[s])  BY DEF Inv, Local
<1>2. CASE Fire(s)
  <2>1. /\ BeginShutdown(s, "shutdown") /\ UNCHANGED <<server, tokens, again, left>>
        /\ store[s].timer
    BY <1>2 DEF Fire
  <2>2. store[s].started /\ task[s]["start"].at = "none" /\ tokens[s] = {}
    BY <1>1, <2>1 DEF LocalOf, Shape
  <2>3. left' \in Left  BY <2>1 DEF Inv, Types
  <2> QED  BY <2>1, <2>2, <2>3, BeginShutdownStep
<1>3. CASE Restart(s)
  <2>1. /\ BeginShutdown(s, "restart") /\ UNCHANGED <<server, tokens, again>>
        /\ left.restarts > 0 /\ left' = [left EXCEPT !.restarts = @ - 1]
        /\ tokens[s] # {} /\ task[s]["restart"].at = "none" /\ task[s]["start"].at = "none"
    BY <1>3 DEF Restart, At
  <2>2. store[s].started  BY <1>1, <2>1 DEF LocalOf, Wanted
  <2>3. left' \in Left
    <3>1. left \in Left /\ left.restarts \in 0..MaxRestarts  BY DEF Inv, Types, Left
    <3>2. left.restarts - 1 \in 0..MaxRestarts  BY <2>1, <3>1 DEF BoundsAssumption
    <3> QED  BY <2>1, <3>1, <3>2 DEF Left
  <2> QED  BY <2>1, <2>2, <2>3, BeginShutdownStep
<1> QED  BY <1>2, <1>3

LEMMA InitHolds ==
  ASSUME BoundsAssumption, Init
  PROVE  Inv
<1>1. NoTask \in Task /\ NoTask.at = "none"  BY DEF NoTask, Task, Stages
<1>2. \A s \in Stores : /\ tokens[s] = {} /\ store[s] \in Store
                        /\ ~store[s].started /\ ~store[s].timer
                        /\ \A k \in Kinds : task[s][k].at = "none"
  BY <1>1 DEF Init, Store
<1>3. Types
  <2>1. server \in [ref : Nat, full : Nat] /\ tokens \in [Stores -> Tokens]
    BY DEF Init, Tokens
  <2>2. store \in [Stores -> Store]  BY DEF Init, Store
  <2>3. task \in [Stores -> Tasks] /\ again \in [Stores -> {0}]
    BY <1>1 DEF Init, Tasks
  <2>4. left \in Left
    <3>1. MaxTokens \in 0..MaxTokens /\ MaxRestarts \in 0..MaxRestarts /\ MaxFails \in 0..MaxFails
      BY DEF BoundsAssumption
    <3> QED  BY <3>1 DEF Init, Left
  <2> QED  BY <2>1, <2>2, <2>3, <2>4 DEF Types
<1>4. \A s \in Stores : Local(s)
  BY <1>2 DEF Local, LocalOf, Shape, Wanted, Kinds
<1>5. Mains = {} /\ FullMains = {} /\ Extras = {} /\ FullExtras = {}
  BY <1>2 DEF Mains, FullMains, Extras, FullExtras, MainOf, MainModeOf, ExtraOf, ExtraModeOf,
              Kinds
<1>6. Counts  BY <1>5, FS_EmptySet DEF Counts, Init
<1> QED  BY <1>3, <1>4, <1>6 DEF Inv

\* The bounds of the environment, and stores that can be counted.
Faultless == IsFiniteSet(Stores) /\ BoundsAssumption /\ Patient /\ MaxFails = 0

LEMMA InvIsInductive ==
  ASSUME Faultless, Inv, [Next]_vars
  PROVE  Inv'
<1> USE DEF Faultless
<1>1. ASSUME NEW s \in Stores, NEW m \in {"full", "paths"}, Acquire(s, m)  PROVE Inv'
  BY <1>1, AcquireStep
<1>2. ASSUME NEW s \in Stores, NEW m \in {"full", "paths"}, Release(s, m)  PROVE Inv'
  BY <1>2, ReleaseStep
<1>3. ASSUME NEW s \in Stores, Fire(s) \/ Restart(s)  PROVE Inv'
  BY <1>3, TimerSteps
<1>4. ASSUME NEW s \in Stores, StartFails(s)  PROVE Inv'
  <2>1. left.fails \in 0..0 /\ left.fails > 0  BY <1>4 DEF Inv, Types, Left, StartFails
  <2> QED  BY <2>1
<1>5. ASSUME NEW s \in Stores, NEW k \in Kinds, Serve(s, k)  PROVE Inv'
  BY <1>5, ServeStep
<1>6. ASSUME NEW s \in Stores,
             \/ \E k \in {"shutdown", "restart"} : Shutdown(s, k)
             \/ ShutdownDone(s) \/ RestartDone(s)
      PROVE  Inv'
  BY <1>6, StopSteps
<1>7. ASSUME NEW s \in Stores,
             StartCall(s) \/ StartAnswer(s) \/ Listen(s) \/ CatchUp(s) \/ Undone(s)
      PROVE  Inv'
  BY <1>7, StartSteps
<1>8. ASSUME NEW s \in Stores, SyncAnswer(s)  PROVE Inv'
  BY <1>8, SyncAnswerStep
<1>9. ASSUME NEW s \in Stores, SyncDone(s)  PROVE Inv'
  BY <1>9, SyncDoneStep
<1>10. CASE UNCHANGED vars
  BY <1>10 DEF vars, Inv, Types, Counts, Local, Mains, FullMains, Extras, FullExtras
<1>11. ASSUME NEW s \in Stores, Step(s)  PROVE Inv'
  BY <1>5, <1>6, <1>7, <1>8, <1>9, <1>11 DEF Step
<1> QED  BY <1>1, <1>2, <1>3, <1>4, <1>10, <1>11 DEF Next

LEMMA InvHolds == ASSUME Faultless PROVE Spec => []Inv
<1>1. Init => Inv  BY InitHolds DEF Faultless
<1>2. Inv /\ [Next]_vars => Inv'  BY InvIsInductive
<1> QED  BY <1>1, <1>2, PTL DEF Spec

-------------------------------------------------------------------------------
(* The theorems.                                                               *)

\* The counts of the server (ref_count, full_subscribers in workspace_state/mod.rs) and
\* the records of the stores have their types; no more subscribers scan the tree than
\* there are.
THEOREM RefsTypeCorrect == ASSUME Faultless PROVE Spec => []TypeOK
<1>1. Inv => TypeOK
  <2> SUFFICES ASSUME Inv PROVE TypeOK  OBVIOUS
  <2>1. server \in [ref : Nat, full : Nat] /\ server.full <= server.ref
    <3>1. /\ Cardinality(Mains) \in Nat /\ Cardinality(Extras) \in Nat
          /\ Cardinality(FullMains) \in Nat /\ Cardinality(FullExtras) \in Nat
          /\ Cardinality(FullMains) <= Cardinality(Mains)
          /\ Cardinality(FullExtras) <= Cardinality(Extras)
      BY Sizes, FS_Subset, FS_CardinalityType DEF Faultless
    <3> QED  BY <3>1 DEF Inv, Types, Counts
  <2>2. /\ again \in [Stores -> Nat]
        /\ \A s \in Stores : again[s] <= store[s].life
    <3>1. \A s \in Stores : again[s] = 0 /\ store[s].life \in Nat
      BY DEF Inv, Types, Store
    <3> QED  BY <3>1 DEF Inv, Types
  <2>3. /\ tokens \in [Stores -> SUBSET {"full", "paths"}] /\ store \in [Stores -> Store]
        /\ task \in [Stores -> [Kinds -> [at : Stages, mode : BOOLEAN, life : Nat]]]
        /\ left \in [tokens : 0..MaxTokens, restarts : 0..MaxRestarts, fails : 0..MaxFails]
    BY DEF Inv, Types, Tokens, Tasks, Task, Left
  <2> QED  BY <2>1, <2>2, <2>3 DEF TypeOK
<1> QED  BY <1>1, InvHolds, PTL

\* stop_workspace_state_stream_core never takes the stream, or the scan of the tree, from
\* a store that is started: a stop gives back what its own store holds.
THEOREM StreamIsServed == ASSUME Faultless PROVE Spec => []Served
<1>1. Inv => Served
  <2> SUFFICES ASSUME Inv, NEW s \in Stores, store[s].started
               PROVE  /\ server.ref > 0
                      /\ store[s].full /\ At(s, "sync") = "none" => server.full > 0
    BY DEF Served
  <2>1. s \in Mains  BY DEF Mains, MainOf
  <2>2. /\ Cardinality(Mains) \in Nat /\ Cardinality(Extras) \in Nat
        /\ Cardinality(FullMains) \in Nat /\ Cardinality(FullExtras) \in Nat
        /\ Cardinality(Mains) # 0
    BY <2>1, Sizes DEF Faultless
  <2>3. server.ref > 0  BY <2>2 DEF Inv, Counts
  <2>4. ASSUME store[s].full, At(s, "sync") = "none"  PROVE server.full > 0
    <3>1. LocalOf(tokens[s], store[s], task[s])  BY DEF Inv, Local
    <3>2. s \in FullMains
      BY <2>4, <3>1 DEF FullMains, MainModeOf, MainOf, LocalOf, Shape
    <3>3. Cardinality(FullMains) # 0  BY <3>2, Sizes DEF Faultless
    <3> QED  BY <2>2, <3>3 DEF Inv, Counts
  <2> QED  BY <2>3, <2>4
<1> QED  BY <1>1, InvHolds, PTL

\* When no call is on its way, the counts of the server are the numbers of the started
\* stores and of those among them that asked for the tree: no subscription is leaked by
\* ensureStarted, syncBackendMode or shutdown, and none is given back twice.
THEOREM CountsAreBalanced == ASSUME Faultless PROVE Spec => []Balanced
<1>1. Inv => Balanced
  <2> SUFFICES ASSUME Inv, \A s \in Stores, k \in Kinds : At(s, k) = "none"
               PROVE  server = [ref |-> Cardinality({s \in Stores : store[s].started}),
                                full |-> Cardinality({s \in Stores :
                                           store[s].started /\ store[s].full})]
    BY DEF Balanced
  <2>1. \A s \in Stores : /\ MainOf(store[s], task[s]) <=> store[s].started
                          /\ MainModeOf(store[s], task[s]) <=> store[s].started /\ store[s].full
                          /\ ~ExtraOf(task[s])
    BY DEF At, Kinds, MainOf, MainModeOf, ExtraOf
  <2>2. /\ Mains = {s \in Stores : store[s].started}
        /\ FullMains = {s \in Stores : store[s].started /\ store[s].full}
        /\ Extras = {} /\ FullExtras = {}
    BY <2>1 DEF Mains, FullMains, Extras, FullExtras, ExtraModeOf
  <2>3. Cardinality({}) = 0  BY FS_EmptySet
  <2>4. Cardinality(Mains) \in Nat /\ Cardinality(FullMains) \in Nat
    BY Sizes DEF Faultless
  <2>5. server.ref = Cardinality(Mains) /\ server.full = Cardinality(FullMains)
    BY <2>2, <2>3, <2>4 DEF Inv, Counts
  <2>6. server = [ref |-> server.ref, full |-> server.full]  BY DEF Inv, Types
  <2> QED  BY <2>2, <2>5, <2>6
<1> QED  BY <1>1, InvHolds, PTL
================================================================================
