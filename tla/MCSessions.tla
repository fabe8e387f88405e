------------------------------ MODULE MCSessions ------------------------------
(* Small instances of the modules about one connection, its conversation, its   *)
(* mail and the row of the task it works for, side by side: a behaviour chooses *)
(* one of them and is a behaviour of it.                                        *)
EXTENDS Integers, Sequences, FiniteSets

CONSTANTS
  Parts,  \* the instances that a configuration checks
  None, c1, c2, c3, w1, w2, q1, q2, q3, sA, sB, sC, Old, Forked, t1, i1, i2

VARIABLES
  part,   \* the instance that runs
  perms, todo, reply, arrived, card, depth, tracked, clicked, loop, cmds, flight, status, open,
  victim, used, reg, ask, shot, seen, clearing, abandoned, of, left, turn, cancels, token, inMap, row,
  phase, known, linked, op, events, worker, last, ext, want, sess, conv, write, pc, sid, got,
  lock, live, log, mail, sender, bus, turns, reached, waived, crashes,
  task, failed, missing, unsaved

OneSession == [x \in {c1, c2} |-> sB]
OneConn    == [x \in {c1} |-> sB]

\* Messages that the Sessions may send.
Note(from, key, to)   == [from |-> from, key |-> key, to |-> to, policy |-> "store_only",
                          expects |-> FALSE, reply |-> FALSE]
Asking(from, key, to) == [from |-> from, key |-> key, to |-> to, policy |-> "invoke_when_idle",
                          expects |-> TRUE, reply |-> FALSE]
Answer(from, key, to) == [from |-> from, key |-> key, to |-> to, policy |-> "store_only",
                          expects |-> FALSE, reply |-> TRUE]

\* Two notes wait for b, which has two views; a asks b and c, and both may
\* answer; a asks b two things.
TwoNotes     == {Note(sA, k, {sB}) : k \in 1..2}
Questions    == {Asking(sA, 1, {sB, sC}), Answer(sB, 1, {sA}), Answer(sC, 1, {sA})}
TwoQuestions == {Asking(sA, k, {sB}) : k \in 1..2}

(* The instances. A proof module extends the module it is about, and is         *)
(* instantiated in its place so that MCSessionsProofs can cite its lemmas.      *)
Cards == INSTANCE PermissionQueueProofs WITH
  Requests <- {q1, q2, q3}, Clients <- {w1, w2}, MaxPrompts <- 2, MaxCancels <- 1,
  MaxControls <- 0, MaxSweeps <- 0, MaxDeaths <- 1
ASSUME CardsAssumption == Cards!NoneAssumption /\ Cards!BoundsAssumption
Answered == INSTANCE PermissionQueueProofs WITH
  Requests <- {q1, q2}, Clients <- {w1}, MaxPrompts <- 1, MaxCancels <- 1, MaxControls <- 1,
  MaxSweeps <- 1, MaxDeaths <- 1
ASSUME AnsweredAssumption == Answered!NoneAssumption /\ Answered!BoundsAssumption
Returned == INSTANCE PendingRequestProofs WITH
  Asks <- {q1, q3}, Plans <- {}, Mcp <- {q1}, Timed <- {q3}, MaxPrompts <- 1, MaxCancels <- 1
ASSUME ReturnedAssumption == Returned!AsksAssumption /\ Returned!BoundsAssumption
AsksEnd == INSTANCE PendingRequestProofs WITH
  Asks <- {q1, q2}, Plans <- {q2}, Mcp <- {q1}, Timed <- {}, MaxPrompts <- 1, MaxCancels <- 1
ASSUME AsksEndAssumption == AsksEnd!AsksAssumption /\ AsksEnd!BoundsAssumption
Shown == INSTANCE ConversationStatusProofs WITH
  Conns <- {c1, c2}, Bound <- {}, Early <- {}, Overtaking <- FALSE, MaxPrompts <- 3,
  MaxCancels <- 1, MaxCloses <- 2, MaxDrops <- 0, MaxFails <- 1, MaxLost <- 1
ASSUME ShownAssumption == Shown!SetsAssumption /\ Shown!BoundsAssumption
RowKept == INSTANCE ConversationStatusProofs WITH
  Conns <- {c1, c2}, Bound <- {}, Early <- {"end"}, Overtaking <- TRUE, MaxPrompts <- 2,
  MaxCancels <- 1, MaxCloses <- 1, MaxDrops <- 0, MaxFails <- 3, MaxLost <- 1
ASSUME RowKeptAssumption == RowKept!SetsAssumption /\ RowKept!BoundsAssumption
Dropped == INSTANCE ConversationStatusProofs WITH
  Conns <- {c1}, Bound <- {c1}, Early <- {}, Overtaking <- FALSE, MaxPrompts <- 2,
  MaxCancels <- 1, MaxCloses <- 1, MaxDrops <- 1, MaxFails <- 1, MaxLost <- 1
ASSUME DroppedAssumption == Dropped!SetsAssumption /\ Dropped!BoundsAssumption
Settles == INSTANCE ConversationStatus WITH
  Conns <- {c1, c2}, Bound <- {}, Early <- {"end"}, Overtaking <- TRUE, MaxPrompts <- 2,
  MaxCancels <- 1, MaxCloses <- 1, MaxDrops <- 0, MaxFails <- 1, MaxLost <- 1
ASSUME SettlesAssumption == Settles!SetsAssumption /\ Settles!BoundsAssumption
Identity == INSTANCE SessionIdentityProofs WITH
  Conns <- {c1, c2, c3}, Clients <- {w1, w2}, History <- TRUE, Forgetful <- FALSE,
  Timeouts <- FALSE, Overtaking <- FALSE, MaxConnects <- 3, MaxForks <- 1,
  MaxCloses <- 1, MaxFaults <- 1
ASSUME IdentityAssumption == Identity!FlagsAssumption /\ Identity!BoundsAssumption /\ Identity!NamesAssumption
Saved == INSTANCE SessionIdentityProofs WITH
  Conns <- {c1}, Clients <- {w1}, History <- FALSE, Forgetful <- FALSE, Timeouts <- FALSE,
  Overtaking <- FALSE, MaxConnects <- 1, MaxForks <- 1,
  MaxCloses <- 1, MaxFaults <- 1
ASSUME SavedAssumption == Saved!FlagsAssumption /\ Saved!BoundsAssumption /\ Saved!NamesAssumption
Connects == INSTANCE SessionIdentity WITH
  Conns <- {c1, c2}, Clients <- {w1, w2}, History <- TRUE, Forgetful <- TRUE, Timeouts <- TRUE,
  Overtaking <- FALSE, MaxConnects <- 2, MaxForks <- 0,
  MaxCloses <- 1, MaxFaults <- 0
ASSUME ConnectsAssumption == Connects!FlagsAssumption /\ Connects!BoundsAssumption /\ Connects!NamesAssumption
Notes == INSTANCE Mail WITH
  Sessions <- {sA, sB}, Conns <- {c1, c2}, SessionOf <- OneSession, Drafts <- TwoNotes,
  Deletable <- {}, MaxBatch <- 1, MaxTurns <- 2, MaxLog <- 2, MaxCrashes <- 1, Faults <- TRUE,
  Overtaking <- TRUE
ASSUME NotesAssumption == Notes!DraftsAssumption /\ Notes!ConnsAssumption /\ Notes!BoundsAssumption /\ Notes!InputAssumption
Attached == INSTANCE Mail WITH
  Sessions <- {sA, sB}, Conns <- {c1, c2}, SessionOf <- OneSession, Drafts <- TwoNotes,
  Deletable <- {}, MaxBatch <- 2, MaxTurns <- 2, MaxLog <- 2, MaxCrashes <- 0, Faults <- FALSE,
  Overtaking <- TRUE
ASSUME AttachedAssumption == Attached!DraftsAssumption /\ Attached!ConnsAssumption /\ Attached!BoundsAssumption /\ Attached!InputAssumption
Owed == INSTANCE Mail WITH
  Sessions <- {sA, sB, sC}, Conns <- {c1}, SessionOf <- OneConn, Drafts <- Questions,
  Deletable <- {sA}, MaxBatch <- 1, MaxTurns <- 2, MaxLog <- 4, MaxCrashes <- 0,
  Faults <- FALSE, Overtaking <- TRUE
ASSUME OwedAssumption == Owed!DraftsAssumption /\ Owed!ConnsAssumption /\ Owed!BoundsAssumption /\ Owed!InputAssumption
Asked == INSTANCE Mail WITH
  Sessions <- {sA, sB}, Conns <- {c1}, SessionOf <- OneConn, Drafts <- TwoQuestions,
  Deletable <- {}, MaxBatch <- 1, MaxTurns <- 2, MaxLog <- 4, MaxCrashes <- 1, Faults <- FALSE,
  Overtaking <- TRUE
ASSUME AskedAssumption == Asked!DraftsAssumption /\ Asked!ConnsAssumption /\ Asked!BoundsAssumption /\ Asked!InputAssumption
OneReply == INSTANCE Mail WITH
  Sessions <- {sA, sB}, Conns <- {c1}, SessionOf <- OneConn, Drafts <- TwoQuestions,
  Deletable <- {}, MaxBatch <- 1, MaxTurns <- 2, MaxLog <- 4, MaxCrashes <- 0, Faults <- FALSE,
  Overtaking <- FALSE
ASSUME OneReplyAssumption == OneReply!DraftsAssumption /\ OneReply!ConnsAssumption /\ OneReply!BoundsAssumption /\ OneReply!InputAssumption
Board == INSTANCE TaskStoreProofs WITH
  Tasks <- {t1}, Intents <- {i1, i2}, Conns <- {c1}, MaxSeq <- 4
ASSUME BoardAssumption == Board!NoneAssumption /\ Board!BoundsAssumption

(* The variables of one component, and nothing in the others.                 *)
PermissionQueueRest == <<
  part, reg, ask, shot, seen, clearing, abandoned, of, left, turn, cancels, token, inMap, row, phase,
  known, linked, op, events, worker, last, ext, want, sess, conv, write, pc, sid, got, lock, live,
  log, mail, sender, bus, turns, reached, waived, crashes, task,
  failed, missing, unsaved>>
PermissionQueueAlone ==
  /\ reg = None /\ ask = None /\ shot = None /\ seen = None /\ clearing = None
  /\ abandoned = None /\ left = None /\ of = None /\ turn = None /\ cancels = None /\ token = None
  /\ inMap = None /\ row = None /\ phase = None /\ known = None /\ linked = None /\ op = None
  /\ events = None /\ worker = None /\ last = None /\ ext = None /\ want = None
  /\ sess = None /\ conv = None /\ write = None /\ pc = None /\ sid = None /\ got = None
  /\ lock = None /\ live = None /\ log = None /\ mail = None /\ sender = None /\ bus = None
  /\ turns = None /\ reached = None /\ waived = None /\ crashes = None
  /\ task = None /\ failed = None
  /\ missing = None
  /\ unsaved = None
PendingRequestRest == <<
  part, perms, todo, reply, arrived, depth, tracked, clicked, cmds, flight, status, open, victim,
  used, row, phase, known, linked, op, events, worker, last, ext, want, sess, conv, write, pc,
  sid, got, lock, live, log, mail, sender, bus, turns, reached, waived, crashes, task,
  failed, missing, unsaved>>
PendingRequestAlone ==
  /\ perms = None /\ todo = None /\ reply = None /\ arrived = None /\ depth = None
  /\ tracked = None /\ clicked = None /\ cmds = None /\ flight = None /\ status = None
  /\ open = None /\ victim = None /\ used = None /\ row = None /\ phase = None
  /\ known = None /\ linked = None /\ op = None /\ events = None /\ worker = None
  /\ last = None /\ ext = None /\ want = None /\ sess = None /\ conv = None /\ write = None
  /\ pc = None /\ sid = None /\ got = None /\ lock = None /\ live = None /\ log = None
  /\ mail = None /\ sender = None /\ bus = None /\ turns = None /\ reached = None
  /\ waived = None /\ crashes = None
  /\ task = None /\ failed = None
  /\ missing = None
  /\ unsaved = None
ConversationStatusRest == <<
  part, perms, todo, reply, arrived, card, depth, tracked, clicked, loop, status, open, victim,
  reg, ask, shot, seen, clearing, abandoned, of, left, cancels, token, inMap, ext, want, sess, conv,
  write, pc, sid, got, lock, live, log, mail, sender, bus, turns, reached, waived, crashes, task,
  failed, unsaved>>
ConversationStatusAlone ==
  /\ perms = None /\ todo = None /\ reply = None /\ arrived = None /\ card = None
  /\ depth = None /\ tracked = None /\ clicked = None /\ loop = None /\ status = None
  /\ open = None /\ victim = None /\ reg = None /\ ask = None /\ shot = None /\ seen = None
  /\ clearing = None /\ abandoned = None /\ left = None /\ of = None /\ cancels = None /\ token = None
  /\ inMap = None /\ ext = None /\ want = None /\ sess = None /\ conv = None /\ write = None
  /\ pc = None /\ sid = None /\ got = None /\ lock = None /\ live = None /\ log = None
  /\ mail = None /\ sender = None /\ bus = None /\ turns = None /\ reached = None
  /\ waived = None /\ crashes = None
  /\ task = None /\ failed = None
  /\ unsaved = None
SessionIdentityRest == <<
  part, perms, todo, reply, arrived, card, depth, tracked, clicked, loop, cmds, flight, status,
  open, victim, reg, ask, shot, seen, clearing, abandoned, of, left, turn, cancels, token, inMap, row,
  linked, worker, last, live, log, mail, sender, bus, turns, reached, waived, crashes, task,
  failed, missing>>
SessionIdentityAlone ==
  /\ perms = None /\ todo = None /\ reply = None /\ arrived = None /\ card = None
  /\ depth = None /\ tracked = None /\ clicked = None /\ loop = None /\ cmds = None
  /\ flight = None /\ status = None /\ open = None /\ victim = None /\ reg = None
  /\ ask = None /\ shot = None /\ seen = None /\ clearing = None /\ abandoned = None /\ left = None
  /\ of = None /\ turn = None /\ cancels = None /\ token = None /\ inMap = None /\ row = None
  /\ linked = None /\ worker = None /\ last = None /\ live = None /\ log = None
  /\ mail = None /\ sender = None /\ bus = None /\ turns = None /\ reached = None
  /\ waived = None /\ crashes = None
  /\ task = None /\ failed = None
  /\ missing = None
MailRest == <<
  part, perms, todo, reply, arrived, card, depth, tracked, clicked, cmds, flight, status, open,
  victim, used, reg, ask, shot, seen, clearing, abandoned, of, left, cancels, token, inMap, row, phase,
  known, linked, op, events, worker, ext, want, sess, conv, write, pc, sid, got, lock, task,
  failed, missing, unsaved>>
MailAlone ==
  /\ perms = None /\ todo = None /\ reply = None /\ arrived = None /\ card = None
  /\ depth = None /\ tracked = None /\ clicked = None /\ cmds = None /\ flight = None
  /\ status = None /\ open = None /\ victim = None /\ used = None /\ reg = None /\ ask = None
  /\ shot = None /\ seen = None /\ clearing = None /\ abandoned = None /\ left = None /\ of = None
  /\ cancels = None /\ token = None /\ inMap = None /\ row = None /\ phase = None
  /\ known = None /\ linked = None /\ op = None /\ events = None /\ worker = None
  /\ ext = None /\ want = None /\ sess = None /\ conv = None /\ write = None /\ pc = None
  /\ sid = None /\ got = None /\ lock = None
  /\ task = None /\ failed = None
  /\ missing = None
  /\ unsaved = None
TaskStoreRest == <<
  part, perms, todo, reply, arrived, card, depth, tracked, clicked, loop, cmds, flight, status,
  open, victim, used, reg, ask, shot, seen, clearing, abandoned, of, left, turn, cancels, token, inMap,
  row, phase, known, linked, op, events, worker, last, ext, want, sess, conv, write, pc, sid, got,
  lock, live, log, mail, sender, bus, turns, reached, waived, crashes, missing, unsaved>>
TaskStoreAlone ==
  /\ perms = None /\ todo = None /\ reply = None /\ arrived = None /\ card = None
  /\ depth = None /\ tracked = None /\ clicked = None /\ loop = None /\ cmds = None
  /\ flight = None /\ status = None /\ open = None /\ victim = None /\ used = None
  /\ reg = None /\ ask = None /\ shot = None /\ seen = None /\ clearing = None
  /\ abandoned = None /\ left = None /\ of = None /\ turn = None /\ cancels = None /\ token = None
  /\ inMap = None /\ row = None /\ phase = None /\ known = None /\ linked = None
  /\ op = None /\ events = None /\ worker = None /\ last = None /\ ext = None
  /\ want = None /\ sess = None /\ conv = None /\ write = None /\ pc = None /\ sid = None
  /\ got = None /\ lock = None /\ live = None /\ log = None /\ mail = None /\ sender = None
  /\ bus = None /\ turns = None /\ reached = None /\ waived = None /\ crashes = None
  /\ missing = None
  /\ unsaved = None

Init ==
  /\ part \in Parts
  /\ \/ part = "cards" /\ Cards!Init /\ PermissionQueueAlone
     \/ part = "answered" /\ Answered!Init /\ PermissionQueueAlone
     \/ part = "returned" /\ Returned!Init /\ PendingRequestAlone
     \/ part = "asksEnd" /\ AsksEnd!Init /\ PendingRequestAlone
     \/ part = "shown" /\ Shown!Init /\ ConversationStatusAlone
     \/ part = "rowKept" /\ RowKept!Init /\ ConversationStatusAlone
     \/ part = "dropped" /\ Dropped!Init /\ ConversationStatusAlone
     \/ part = "settles" /\ Settles!Init /\ ConversationStatusAlone
     \/ part = "identity" /\ Identity!Init /\ SessionIdentityAlone
     \/ part = "saved" /\ Saved!Init /\ SessionIdentityAlone
     \/ part = "connects" /\ Connects!Init /\ SessionIdentityAlone
     \/ part = "notes" /\ Notes!Init /\ MailAlone
     \/ part = "attached" /\ Attached!Init /\ MailAlone
     \/ part = "owed" /\ Owed!Init /\ MailAlone
     \/ part = "asked" /\ Asked!Init /\ MailAlone
     \/ part = "oneReply" /\ OneReply!Init /\ MailAlone
     \/ part = "board" /\ Board!Init /\ TaskStoreAlone

Next ==
  \/ part = "cards" /\ Cards!Next /\ UNCHANGED PermissionQueueRest
  \/ part = "answered" /\ Answered!Next /\ UNCHANGED PermissionQueueRest
  \/ part = "returned" /\ Returned!Next /\ UNCHANGED PendingRequestRest
  \/ part = "asksEnd" /\ AsksEnd!Next /\ UNCHANGED PendingRequestRest
  \/ part = "shown" /\ Shown!Next /\ UNCHANGED ConversationStatusRest
  \/ part = "rowKept" /\ RowKept!Next /\ UNCHANGED ConversationStatusRest
  \/ part = "dropped" /\ Dropped!Next /\ UNCHANGED ConversationStatusRest
  \/ part = "settles" /\ Settles!Next /\ UNCHANGED ConversationStatusRest
  \/ part = "identity" /\ Identity!Next /\ UNCHANGED SessionIdentityRest
  \/ part = "saved" /\ Saved!Next /\ UNCHANGED SessionIdentityRest
  \/ part = "connects" /\ Connects!Next /\ UNCHANGED SessionIdentityRest
  \/ part = "notes" /\ Notes!Next /\ UNCHANGED MailRest
  \/ part = "attached" /\ Attached!Next /\ UNCHANGED MailRest
  \/ part = "owed" /\ Owed!Next /\ UNCHANGED MailRest
  \/ part = "asked" /\ Asked!Next /\ UNCHANGED MailRest
  \/ part = "oneReply" /\ OneReply!Next /\ UNCHANGED MailRest
  \/ part = "board" /\ Board!Next /\ UNCHANGED TaskStoreRest

vars == <<
  part, perms, todo, reply, arrived, card, depth, tracked, clicked, loop, cmds, flight, status,
  open, victim, used, reg, ask, shot, seen, clearing, abandoned, of, left, turn, cancels, token, inMap,
  row, phase, known, linked, op, events, worker, last, ext, want, sess, conv, write, pc, sid, got,
  lock, live, log, mail, sender, bus, turns, reached, waived, crashes, task,
  failed, missing, unsaved>>
Spec == Init /\ [][Next]_vars

-------------------------------------------------------------------------------
(* Permission cards: the card all clients see is the one whose request is next,    *)
(* none is up without a blocked request and none hides one, in the order of        *)
(* arrival, with the true count of those behind; and no prompt reaches a loop that *)
(* is in a turn and would drop it (PermissionQueue, send_prompt_inner).            *)
CardsSound ==
  /\ part = "cards" => /\ Cards!TypeOK /\ Cards!QueueSound /\ Cards!CardIsShowing
                       /\ Cards!DepthIsTrue /\ Cards!OldestFirst /\ Cards!NoPromptDropped
  /\ part = "answered" => Answered!QueueSound /\ Answered!CardIsShowing

(* Questions and plan approvals: a card nobody waits behind is about to go         *)
(* (register_question, answer_question, the sweeps).                               *)
AsksSound ==
  /\ part = "returned" => Returned!TypeOK /\ Returned!NoDeadCard
  /\ part = "asksEnd"  => AsksEnd!TypeOK /\ AsksEnd!NoDeadCard

(* The rows of the board, whatever calls meet: no plan outlives "todo", no parked  *)
(* merge outlives "review", and a verdict is the current generation's              *)
(* (work_task_service.rs).                                                         *)
RowsHonest == part = "board" => Board!RowsSound

(* A work task does not leave awaiting_input between one card and the next, the    *)
(* resolved event of one ask does not take down the card of another, and after a   *)
(* merge has failed nothing dispatches one unattended until a user has acted on    *)
(* the task (finish_resolve, track_request, apply_event, claim_merge_auto).        *)
SessionsStep ==
  [][/\ part = "cards" => Cards!NoFlap
     /\ part = "returned" => Returned!CardKept
     /\ part = "asksEnd"  => AsksEnd!CardKept
     /\ part = "board"    => Board!NoUnattendedRetry]_vars

(* The status of a conversation: a row in progress has a turn, a turn has its row  *)
(* in progress, and the row tells how the last prompt ended (send_prompt_linked,   *)
(* handle_event, handle_terminal_event).                                           *)
StatusSound ==
  /\ part = "shown" => Shown!TurnShown /\ Shown!OutcomeShown
  /\ part = "rowKept"   => RowKept!TypeOK /\ RowKept!NeverStranded
  /\ part = "dropped"   => Dropped!TypeOK

(* The Session behind a conversation: one process for a Session, one runtime for a *)
(* row, forks that leave the original alone, and a row that names the Session of   *)
(* its connection (spawn_agent, fork_session, persist_external_id).                *)
IdentitySound ==
  /\ part = "identity" => /\ Identity!TypeOK /\ Identity!OneProcess /\ Identity!OneRuntime
                          /\ Identity!ForkKeepsOriginal /\ Identity!ForkKeepsSession
  /\ part = "saved" => Saved!Persisted

(* Mail between Agents: context is put before its Agent once and shown where it    *)
(* was, none is left behind by a turn, an obligation stands until its recipient    *)
(* answers, and the fallback reply is the answer of the turn the question started  *)
(* (collaboration_service.rs, prompt_queue.rs).                                   *)
MailSound ==
  /\ part = "notes" => Notes!TypeOK /\ Notes!ContextOnce /\ Notes!EmbeddedInItsTurn
  /\ part = "attached" => Attached!NoneLeftBehind
  /\ part = "owed" => Owed!OwedUntilAnswered /\ Owed!FallbackOnly
  /\ part = "asked" => Asked!AnswerOfItsTurn

-------------------------------------------------------------------------------
\* Fairness of each component, for the instance that runs: part never changes, so a
\* conjunct speaks of one action only.
Fairness ==
  /\ WF_vars(\/ part = "answered" /\ Answered!Emit /\ UNCHANGED PermissionQueueRest
             \/ part = "returned" /\ Returned!CancelSweeps /\ UNCHANGED PendingRequestRest
             \/ part = "asksEnd" /\ AsksEnd!CancelSweeps /\ UNCHANGED PendingRequestRest
             \/ part = "settles" /\ Settles!Loop(c1) /\ UNCHANGED ConversationStatusRest
             \/ part = "connects" /\ Connects!Waited(w1) /\ UNCHANGED SessionIdentityRest
             \/ part = "oneReply" /\ OneReply!HandleEnd /\ UNCHANGED MailRest)
  /\ WF_vars(\/ part = "answered" /\ Answered!Loop /\ UNCHANGED PermissionQueueRest
             \/ part = "returned" /\ Returned!Cleanup /\ UNCHANGED PendingRequestRest
             \/ part = "asksEnd" /\ AsksEnd!Cleanup /\ UNCHANGED PendingRequestRest
             \/ part = "settles" /\ Settles!TurnEnds(c1) /\ UNCHANGED ConversationStatusRest
             \/ part = "connects" /\ Connects!Waited(w2) /\ UNCHANGED SessionIdentityRest
             \/ part = "oneReply" /\ OneReply!AutoReply /\ UNCHANGED MailRest)
  /\ WF_vars(\/ part = "answered" /\ Answered!AgentReplies /\ UNCHANGED PermissionQueueRest
             \/ part = "returned" /\ (~inMap /\ Returned!LoopEnds) /\ UNCHANGED PendingRequestRest
             \/ part = "asksEnd" /\ (~inMap /\ AsksEnd!LoopEnds) /\ UNCHANGED PendingRequestRest
             \/ part = "settles" /\ Settles!Sender(c1) /\ UNCHANGED ConversationStatusRest
             \/ part = "oneReply" /\ OneReply!Dispatch(c1) /\ UNCHANGED MailRest)
  /\ WF_vars(\/ part = "answered" /\ Answered!disconnect /\ UNCHANGED PermissionQueueRest
             \/ part = "returned" /\ Returned!Serve(q1) /\ UNCHANGED PendingRequestRest
             \/ part = "asksEnd" /\ AsksEnd!Serve(q1) /\ UNCHANGED PendingRequestRest
             \/ part = "settles" /\ Settles!Worker(c1) /\ UNCHANGED ConversationStatusRest
             \/ part = "oneReply" /\ OneReply!Finish(c1) /\ UNCHANGED MailRest)
  /\ WF_vars(\/ part = "answered" /\ Answered!respond_permission(w1) /\ UNCHANGED PermissionQueueRest
             \/ part = "returned" /\ Returned!EmitResolved(q1) /\ UNCHANGED PendingRequestRest
             \/ part = "asksEnd" /\ AsksEnd!EmitResolved(q1) /\ UNCHANGED PendingRequestRest
             \/ part = "settles" /\ Settles!Insert(c1) /\ UNCHANGED ConversationStatusRest
             \/ part = "oneReply" /\ OneReply!EndTurn(c1) /\ UNCHANGED MailRest)
  /\ WF_vars(\/ part = "returned" /\ Returned!answers_shown(q1) /\ UNCHANGED PendingRequestRest
             \/ part = "asksEnd" /\ AsksEnd!answers_shown(q1) /\ UNCHANGED PendingRequestRest
             \/ part = "settles" /\ Settles!Loop(c2) /\ UNCHANGED ConversationStatusRest)
  /\ WF_vars(\/ part = "returned" /\ Returned!Serve(q3) /\ UNCHANGED PendingRequestRest
             \/ part = "asksEnd" /\ AsksEnd!Serve(q2) /\ UNCHANGED PendingRequestRest
             \/ part = "settles" /\ Settles!TurnEnds(c2) /\ UNCHANGED ConversationStatusRest)
  /\ WF_vars(\/ part = "returned" /\ Returned!EmitResolved(q3) /\ UNCHANGED PendingRequestRest
             \/ part = "asksEnd" /\ AsksEnd!EmitResolved(q2) /\ UNCHANGED PendingRequestRest
             \/ part = "settles" /\ Settles!Sender(c2) /\ UNCHANGED ConversationStatusRest)
  /\ WF_vars(\/ part = "returned" /\ Returned!answers_shown(q3) /\ UNCHANGED PendingRequestRest
             \/ part = "asksEnd" /\ AsksEnd!answers_shown(q2) /\ UNCHANGED PendingRequestRest
             \/ part = "settles" /\ Settles!Worker(c2) /\ UNCHANGED ConversationStatusRest)
  /\ WF_vars(part = "settles" /\ Settles!Insert(c2) /\ UNCHANGED ConversationStatusRest)
  /\ SF_vars(part = "connects" /\ (Connects!Reuse(w1) \/ Connects!Spawn(w1)) /\ UNCHANGED SessionIdentityRest)
  /\ SF_vars(part = "connects" /\ (Connects!Reuse(w2) \/ Connects!Spawn(w2)) /\ UNCHANGED SessionIdentityRest)

FairSpec == Spec /\ Fairness

(* Every request an Agent is blocked on is answered or cancelled, nobody stays     *)
(* blocked on a connection that is gone, and an ask given up by its Agent leaves   *)
(* the registry (the command loop, the sweeps, the reaper).                        *)
RequestsEnd ==
  []<>(/\ part = "answered" => Answered!AllAnswered
       /\ part = "returned" => Returned!AllReturned /\ Returned!ZombiesReaped
       /\ part = "asksEnd"  => AsksEnd!AsksEnded)

(* No row stays in progress, an open of a conversation ends though the Agent never  *)
(* answers, and the answer of a turn that one message started goes back to its     *)
(* sender (handle_terminal_event, the wait of spawn_agent, prompt_queue.rs).      *)
ConversationsSettle ==
  []<>(/\ part = "settles"  => Settles!Settled
       /\ part = "connects" => Connects!Connected
       /\ part = "oneReply" => OneReply!AnswersReturned)
===============================================================================
