----------------------------- MODULE WorkspaceFeed -----------------------------
(* The state stream of one workspace: workspace_state/mod.rs (the snapshot of    *)
(* the file tree and of the git status, its numbered deltas, the watch loop and   *)
(* the resync endpoint) and the stores of its clients                             *)
(* (hooks/use-workspace-state-store.ts).  The contents of the tree and of the     *)
(* status are 0 or 1, so that an edit can be undone; a status of 0 has no entries.*)
EXTENDS Naturals, FiniteSets, SequencesExt

CONSTANTS
  Clients,      \* the stores that follow the stream
  Capacity,     \* RECENT_EVENT_CAPACITY
  MaxEdits,     \* bound on changes of the files
  MaxAsks,      \* bound on resyncs a person or a command asks for
  Flips,        \* may the folder become, or stop being, a git repository?
  Racing,       \* may files change while a resync request scans them?
  Ordered,      \* do replies and events reach a client in the order they were sent?
  MaxDrops,     \* bound on lost connections of clients
  MaxRestarts,  \* bound on restarts of the server
  None

BoundsAssumption ==
  /\ {MaxEdits, MaxAsks, MaxDrops, MaxRestarts} \subseteq Nat
  /\ Capacity \in Nat \ {0}
  /\ {Flips, Racing, Ordered} \subseteq BOOLEAN

VARIABLES
  disk,    \* what a scan of the folder would find: tree, git, repo
  batch,   \* WatchEventBatch: none, a modification only, or more than that
  core,    \* WorkspaceStateCore: seq, tree_snapshot, git_snapshot, is_git_repo
  recent,  \* recent_events
  flush,   \* the watch loop: idle, with its scan, or with an event to emit
  req,     \* req[c]: the resync of store c that is in flight
  net,     \* net[c]: what is on its way to store c
  view,    \* view[c]: the state store c shows
  left     \* what is left of the bounds

vars == <<disk, batch, core, recent, flush, req, net, view, left>>

Bits == {0, 1}
Envelope == [seq : Nat, tree : Bits \cup {None}, git : Bits \cup {None}, resync : BOOLEAN]
View == [seq : Nat, tree : Bits, git : Bits, repo : BOOLEAN]

TypeOK ==
  /\ disk \in [tree : Bits, git : Bits, repo : BOOLEAN] /\ (disk.git = 1 => disk.repo)
  /\ batch \in {"none", "modify", "create"}
  /\ core \in View
  /\ recent \in Seq(Envelope) /\ Len(recent) <= Capacity
  /\ \A i \in 1..Len(recent) : recent[i].seq = core.seq - Len(recent) + i
  /\ flush.at \in {"idle", "scanned", "emit"}
  /\ \A c \in Clients : req[c].at \in {"none", "sent", "scanned", "replied"}
  /\ view \in [Clients -> View]
  /\ left \in [edits : 0..MaxEdits, asks : 0..MaxAsks, drops : 0..MaxDrops, restarts : 0..MaxRestarts]

Idle == [at |-> "idle"]
NoReq == [at |-> "none"]

Init ==
  /\ disk \in [tree : {0}, git : {0}, repo : IF Flips THEN BOOLEAN ELSE {TRUE}]
  /\ batch = "none"
  /\ core = [seq |-> 0, tree |-> 0, git |-> 0, repo |-> disk.repo]
  /\ recent = <<>>
  /\ flush = Idle
  /\ req = [c \in Clients |-> NoReq]
  /\ net = [c \in Clients |-> <<>>]
  /\ view = [c \in Clients |-> core]
  /\ left = [edits |-> MaxEdits, asks |-> MaxAsks, drops |-> MaxDrops, restarts |-> MaxRestarts]

-------------------------------------------------------------------------------
(* The folder changes, and the watcher notices.                                *)

Edit ==
  /\ left.edits > 0
  /\ Racing \/ \A c \in Clients : req[c].at # "scanned"
  /\ \/ /\ disk' = [disk EXCEPT !.tree = 1 - @, !.git = IF disk.repo THEN 1 - @ ELSE 0]
        /\ batch' = "create"
     \/ /\ disk.repo
        /\ disk' = [disk EXCEPT !.git = 1 - @]
        /\ batch' = IF batch = "none" THEN "modify" ELSE batch
     \/ /\ Flips
        /\ \E g \in Bits :
             /\ disk.repo => g = 0
             /\ disk' = [disk EXCEPT !.repo = ~@, !.git = g]
        /\ batch' = "create"
  /\ left' = [left EXCEPT !.edits = @ - 1]
  /\ UNCHANGED <<core, recent, flush, req, net, view>>

-------------------------------------------------------------------------------
(* WorkspaceStateCore.                                                         *)

\* Faulty variant: a replacement strips the older events of everything.
StrippedBoth(e, by) ==
  [e EXCEPT !.tree = IF by.tree # None \/ by.git # None THEN None ELSE @,
            !.git = IF by.tree # None \/ by.git # None THEN None ELSE @]

\* push_recent_event: what a newer replacement makes superfluous is dropped; the
\* numbers stay.
Stripped(e, by) == [e EXCEPT !.tree = IF by.tree # None THEN None ELSE @,
                             !.git = IF by.git # None THEN None ELSE @]

\* Faulty variant: one event too many is kept.
NewestLate(s) == SubSeq(s, IF Len(s) > Capacity + 1 THEN Len(s) - Capacity ELSE 1, Len(s))

Newest(s) == SubSeq(s, IF Len(s) > Capacity THEN Len(s) - Capacity + 1 ELSE 1, Len(s))

\* append_event; the payload of an event that asks for a resync is not applied.
Appended(e, repo) ==
  [core   |-> [seq  |-> e.seq,
               tree |-> IF e.tree # None /\ ~e.resync THEN e.tree ELSE core.tree,
               git  |-> IF e.git # None /\ ~e.resync THEN e.git ELSE core.git,
               repo |-> repo],
   recent |-> Newest(Append([i \in 1..Len(recent) |-> Stripped(recent[i], e)], e))]

\* The event of a scan: what differs from the snapshot, and no entries where there
\* is no repository.
EventOf(scan, resync) ==
  [seq    |-> core.seq + 1,
   tree   |-> IF scan.tree = core.tree THEN None ELSE scan.tree,
   git    |-> IF ~scan.repo THEN (IF core.git = 0 THEN None ELSE 0)
              ELSE IF scan.git = core.git THEN None ELSE scan.git,
   resync |-> resync]

\* can_replay_from
CanReplay(since, s) ==
  \/ since = s.core.seq
  \/ since < s.core.seq /\ s.recent # <<>> /\ since + 1 >= Head(s.recent).seq

\* snapshot(since_seq)
Snapshot(since, s) ==
  IF CanReplay(since, s)
  THEN [kind |-> "deltas", core |-> s.core,
        deltas |-> SelectSeq(s.recent, LAMBDA e : e.seq > since)]
  ELSE [kind |-> "full", core |-> s.core, deltas |-> <<>>]

-------------------------------------------------------------------------------
(* flush_watch_batch: scan, apply under the lock, emit.                        *)

FlushScan ==
  /\ flush.at = "idle" /\ batch # "none"
  /\ flush' = [at |-> "scanned", all |-> batch = "create", scan |-> disk]
  /\ batch' = "none"
  /\ UNCHANGED <<disk, core, recent, req, net, view, left>>

FlushApply ==
  /\ flush.at = "scanned"
  /\ LET found == [flush.scan EXCEPT !.tree = IF flush.all THEN @ ELSE core.tree]
         e == EventOf(found, found.repo # core.repo)
         s == Appended(e, found.repo)
     IN /\ core' = s.core
        /\ recent' = s.recent
        /\ flush' = [at |-> "emit", event |-> e]
  /\ UNCHANGED <<disk, batch, req, net, view, left>>

FlushEmit ==
  /\ flush.at = "emit"
  /\ net' = [c \in Clients |-> Append(net[c], [kind |-> "event", event |-> flush.event])]
  /\ flush' = Idle
  /\ UNCHANGED <<disk, batch, core, recent, req, view, left>>

-------------------------------------------------------------------------------
(* get_workspace_snapshot_core: scan; apply under the lock, which emits nothing *)
(* to the other stores; answer.                                                *)

ServeScan(c) ==
  /\ req[c].at = "sent"
  /\ req' = [req EXCEPT ![c] = [at |-> "scanned", since |-> req[c].since, scan |-> disk]]
  /\ UNCHANGED <<disk, batch, core, recent, flush, net, view, left>>

ServeApply(c) ==
  /\ req[c].at = "scanned"
  /\ LET scan == req[c].scan
         e == EventOf(scan, FALSE)
         s == IF e.tree = None /\ e.git = None /\ scan.repo = core.repo
              THEN [core |-> core, recent |-> recent]
              ELSE Appended(e, scan.repo)
         r == Snapshot(req[c].since, s)
     IN /\ core' = s.core
        /\ recent' = s.recent
        /\ IF Ordered
           THEN /\ net' = [net EXCEPT ![c] = Append(@, r)]
                /\ req' = [req EXCEPT ![c] = [at |-> "replied"]]
           ELSE /\ req' = [req EXCEPT ![c] = [at |-> "replied", reply |-> r]]
                /\ UNCHANGED net
  /\ UNCHANGED <<disk, batch, flush, view, left>>

-------------------------------------------------------------------------------
(* The store.                                                                  *)

\* requestResync: one at a time; a further call joins the one in flight.
Asked(c) == IF req[c].at = "none"
            THEN [req EXCEPT ![c] = [at |-> "sent", since |-> view[c].seq]]
            ELSE req

\* A person reloads the tree, or a command of the client has changed files.
Ask(c) ==
  /\ left.asks > 0 /\ req[c].at = "none"
  /\ req' = Asked(c)
  /\ left' = [left EXCEPT !.asks = @ - 1]
  /\ UNCHANGED <<disk, batch, core, recent, flush, net, view>>

\* applyDeltaToState, for each delta of an envelope
Apply(v, e) == [v EXCEPT !.seq = e.seq,
                         !.tree = IF e.tree = None THEN @ ELSE e.tree,
                         !.git = IF e.git = None THEN @ ELSE e.git]

\* Faulty variant: an event that does not follow is ignored.
HandleNextEvent(c, e) ==
  /\ view' = IF e.seq = view[c].seq + 1 THEN [view EXCEPT ![c] = Apply(@, e)] ELSE view
  /\ UNCHANGED req

\* handleEvent
HandleEvent(c, e) ==
  IF e.resync \/ e.seq # view[c].seq + 1
  THEN /\ req' = Asked(c) /\ UNCHANGED view
  ELSE /\ view' = [view EXCEPT ![c] = Apply(@, e)] /\ UNCHANGED req

\* Faulty variant: an older full snapshot is applied too.
ApplyAnySnapshot(v, r) ==
  IF r.kind = "full" THEN r.core
  ELSE LET w == FoldLeft(LAMBDA x, e : IF e.seq <= x.seq THEN x ELSE Apply(x, e), v, r.deltas)
       IN [w EXCEPT !.seq = IF @ >= r.core.seq THEN @ ELSE r.core.seq, !.repo = r.core.repo]

\* Faulty variant: replayed events leave the presence of the repository alone.
ApplyReplay(v, r) ==
  IF r.kind = "full" THEN IF r.core.seq < v.seq THEN v ELSE r.core
  ELSE LET w == FoldLeft(LAMBDA x, e : IF e.seq <= x.seq THEN x ELSE Apply(x, e), v, r.deltas)
       IN [w EXCEPT !.seq = IF @ >= r.core.seq THEN @ ELSE r.core.seq]

\* applySnapshot; no gap is possible: a reply holds every event after a number the
\* store had reached when it asked.
ApplySnapshot(v, r) ==
  IF r.kind = "full" THEN IF r.core.seq < v.seq THEN v ELSE r.core
  ELSE LET w == FoldLeft(LAMBDA x, e : IF e.seq <= x.seq THEN x ELSE Apply(x, e), v, r.deltas)
       IN [w EXCEPT !.seq = IF @ >= r.core.seq THEN @ ELSE r.core.seq, !.repo = r.core.repo]

Receive(c) ==
  /\ net[c] # <<>>
  /\ net' = [net EXCEPT ![c] = Tail(@)]
  /\ LET m == Head(net[c]) IN
     IF m.kind = "event" THEN HandleEvent(c, m.event)
     ELSE /\ view' = [view EXCEPT ![c] = ApplySnapshot(@, m)]
          /\ req' = [req EXCEPT ![c] = NoReq]
  /\ UNCHANGED <<disk, batch, core, recent, flush, left>>

ReceiveReply(c) ==
  /\ ~Ordered /\ req[c].at = "replied"
  /\ view' = [view EXCEPT ![c] = ApplySnapshot(@, req[c].reply)]
  /\ req' = [req EXCEPT ![c] = NoReq]
  /\ UNCHANGED <<disk, batch, core, recent, flush, net, left>>

-------------------------------------------------------------------------------
(* Failures.                                                                   *)

\* The connection of the client drops and returns: the events on their way are
\* lost, a request in flight fails, and the store does not ask again.
Drop(c) ==
  /\ left.drops > 0
  /\ net' = [net EXCEPT ![c] = <<>>]
  /\ req' = [req EXCEPT ![c] = NoReq]
  /\ left' = [left EXCEPT !.drops = @ - 1]
  /\ UNCHANGED <<disk, batch, core, recent, flush, view>>

\* The server restarts, and store c, whose page was loaded again, is the first to
\* start the stream: it is seeded by a scan, its numbers begin at 0
\* (start_workspace_state_stream_core); ensureStarted applies the snapshot.
Restart(c) ==
  /\ left.restarts > 0
  /\ core' = [seq |-> 0, tree |-> disk.tree, git |-> disk.git, repo |-> disk.repo]
  /\ recent' = <<>>
  /\ flush' = Idle
  /\ batch' = "none"
  /\ net' = [x \in Clients |-> <<>>]
  /\ req' = [x \in Clients |-> NoReq]
  /\ view' = [view EXCEPT ![c] = core']
  /\ left' = [left EXCEPT !.restarts = @ - 1]
  /\ UNCHANGED disk

Next ==
  \/ Edit \/ FlushScan \/ FlushApply \/ FlushEmit
  \/ \E c \in Clients :
       \/ ServeScan(c) \/ ServeApply(c) \/ Ask(c)
       \/ Receive(c) \/ ReceiveReply(c) \/ Drop(c) \/ Restart(c)

Spec == Init /\ [][Next]_vars

\* The watch loop and the handlers of requests are tasks that run, and what is sent
\* on a live connection arrives.
FairSpec ==
  /\ Spec
  /\ WF_vars(FlushScan \/ FlushApply \/ FlushEmit)
  /\ \A c \in Clients : /\ WF_vars(ServeScan(c) \/ ServeApply(c))
                        /\ WF_vars(Receive(c))
                        /\ WF_vars(ReceiveReply(c))

-------------------------------------------------------------------------------
(* Properties.                                                                 *)

\* A number stands for one state: two stores that have reached the same number show
\* the same tree and the same status, whether they applied events, replayed them or
\* took a full snapshot, and a store that has reached the number of the server shows
\* what the server holds.
SameSeqSameView ==
  \A c \in Clients :
    /\ view[c].seq = core.seq => view[c].tree = core.tree /\ view[c].git = core.git
    /\ \A o \in Clients :
         view[c].seq = view[o].seq => view[c].tree = view[o].tree /\ view[c].git = view[o].git

\* A store never goes back to an earlier number, though replies and events overtake
\* each other; only a page that starts the stream anew begins again.
NeverBack == \A c \in Clients : view'[c].seq >= view[c].seq \/ left'.restarts < left.restarts

\* Every store shows the files as they are.
FilesShown == \A c \in Clients : view[c].tree = disk.tree /\ view[c].git = disk.git

\* Every store knows whether the folder is a repository.
RepoKnown == \A c \in Clients : view[c].repo = disk.repo

================================================================================
