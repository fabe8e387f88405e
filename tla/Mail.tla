--------------------------------- MODULE Mail ----------------------------------
(* Messages between Sessions: db/service/collaboration_service.rs, the sends    *)
(* of acp/manager.rs that attach waiting messages to a turn, and the one loop   *)
(* of prompt_queue.rs that dispatches invoking messages and turns the end of a  *)
(* turn into a fallback reply.  What the queue table adds (claims, leases,      *)
(* pauses, steering) is the subject of PromptQueue and Interrupt.               *)
EXTENDS Naturals, FiniteSets, Sequences

CONSTANTS
  Sessions,    \* the conversations
  Conns,       \* the connections to their Harnesses
  SessionOf,   \* SessionOf[c]: the conversation c is bound to
  Drafts,      \* what a Session may send: [from, key, to, policy, expects, reply]
  Deletable,   \* the Sessions that may be deleted
  MaxBatch,    \* MAX_STORE_ONLY_DELIVERIES_PER_TURN
  MaxTurns,    \* bound on prompts
  MaxLog,      \* bound on messages
  MaxCrashes,  \* bound on process losses
  Faults,      \* may a database call around a send fail?
  Overtaking,  \* may a prompt start before the loop has seen the last turn's end?
  None

DraftsAssumption ==
  Drafts \subseteq [from : Sessions, key : Nat, to : SUBSET Sessions \ {{}},
                    policy : {"store_only", "invoke_when_idle"},
                    expects : BOOLEAN, reply : BOOLEAN]
ConnsAssumption ==
  SessionOf \in [Conns -> Sessions] /\ Deletable \subseteq Sessions
BoundsAssumption ==
  {MaxBatch, MaxTurns, MaxLog, MaxCrashes} \subseteq Nat /\ {Faults, Overtaking} \subseteq BOOLEAN
\* validate_input
InputAssumption == \A d \in Drafts : d.from \notin d.to /\ (d.reply => d.key > 0)

VARIABLES
  live,     \* the conversations that are not deleted
  log,      \* collaboration_event, in the order of creation; auto = the turn a
            \* fallback reply answers for, 0 for a message somebody sent
  mail,     \* collaboration_delivery, by <<position in log, target>>
  sender,   \* sender[c]: the send that holds c's prompt_lock
  turn,     \* turn[c]: the turn in flight
  last,     \* last[c]: last_completed_user_message_id, and whether the turn ended
            \* normally with an answer
  bus,      \* TurnComplete events the loop has not received
  loop,     \* the loop of prompt_queue.rs: the connection it sends on, or the
            \* delivery and the turn it is about to answer for
  turns,    \* every prompt so far: [main, end, out] (its number is its turn_ref)
  reached,  \* <<delivery, turn>>: the text was put before that Harness (history)
  waived,   \* deliveries whose obligation a person resolved (history)
  crashes

vars == <<live, log, mail, sender, turn, last, bus, loop, turns, reached, waived, crashes>>

Refs     == 1..MaxTurns
Entries  == [from : Sessions, key : Nat, re : 0..MaxLog, expects : BOOLEAN, auto : 0..MaxTurns]
Slots    == (1..MaxLog) \X Sessions
Delivery == [policy : {"store_only", "invoke_when_idle"},
             state : {"pending", "queued", "embedding", "embedded", "failed", "dismissed"},
             ref : 0..MaxTurns, owed : {"none", "awaiting_reply", "resolved"}]
Send     == [n : Refs, batch : SUBSET Slots, main : Slots \cup {None},
             at : {"claimed", "sent", "refused", "unsure"}]

TypeOK ==
  /\ live \subseteq Sessions
  /\ log \in Seq(Entries) /\ Len(log) <= MaxLog
  /\ DOMAIN mail \subseteq Slots /\ \A d \in DOMAIN mail : mail[d] \in Delivery
  /\ \A c \in Conns : sender[c] = None \/ sender[c] \in Send
  /\ turn \in [Conns -> 0..MaxTurns]
  /\ last \in [Conns -> [n : 0..MaxTurns, answered : BOOLEAN]]
  /\ bus \in Seq(Conns)
  /\ loop \in {None} \cup Conns \cup (Slots \X Refs)
  /\ turns \in Seq([main : Slots \cup {None}, end : {"open", "answered", "abnormal"},
                    out : {"open", "sent", "refused", "unsure"}])
  /\ reached \subseteq Slots \X Refs
  /\ waived \subseteq Slots
  /\ crashes \in 0..MaxCrashes

Init ==
  /\ live = Sessions
  /\ log = <<>>
  /\ mail = [d \in {} |-> None]
  /\ sender = [c \in Conns |-> None]
  /\ turn = [c \in Conns |-> 0]
  /\ last = [c \in Conns |-> [n |-> 0, answered |-> FALSE]]
  /\ bus = <<>>
  /\ loop = None
  /\ turns = <<>>
  /\ reached = {}
  /\ waived = {}
  /\ crashes = 0

-------------------------------------------------------------------------------
(* Messages and replies: send_with_initially_inactive_targets_guarded.         *)

\* a reply to message e by the Session s
Replied(e, s) == \E i \in 1..Len(log) : log[i].re = e /\ log[i].from = s

\* A retry with the same (source, client_dedupe_id) gets the original message.
Sent(from, key) == \E i \in 1..Len(log) : log[i].from = from /\ log[i].key = key

\* validate_reply_relation
MayReply(d, e) == /\ <<e, d.from>> \in DOMAIN mail
                  /\ d.to = {log[e].from}

NewDelivery(d, t) ==
  [policy |-> d.policy,
   state  |-> IF t \notin live THEN "failed"
              ELSE IF d.policy = "store_only" THEN "pending" ELSE "queued",
   ref    |-> 0,
   owed   |-> IF d.expects /\ t \in live THEN "awaiting_reply" ELSE "none"]

\* Faulty variant: an answer settles the message for every recipient.
SettleAll(e, s) == [x \in DOMAIN mail |->
  IF x[1] = e /\ mail[x].owed = "awaiting_reply"
  THEN [mail[x] EXCEPT !.owed = "resolved"] ELSE mail[x]]

Settle(e, s) == [x \in DOMAIN mail |->
  IF x = <<e, s>> /\ mail[x].owed = "awaiting_reply"
  THEN [mail[x] EXCEPT !.owed = "resolved"] ELSE mail[x]]

\* The transaction: the message, the obligation it answers, its deliveries.
Persist(d, e, n) ==
  LET new == Len(log) + 1
      settled == Settle(e, d.from)
  IN /\ new <= MaxLog
     /\ d.from \in live
     /\ log' = Append(log, [from |-> d.from, key |-> d.key, re |-> e,
                            expects |-> d.expects, auto |-> n])
     /\ mail' = [x \in DOMAIN mail \cup ({new} \X d.to) |->
                   IF x[1] = new THEN NewDelivery(d, x[2]) ELSE settled[x]]

\* A person, or an Agent through send_message.
SendMessage(d, e) ==
  /\ ~Sent(d.from, d.key)
  /\ IF d.reply THEN e # 0 /\ MayReply(d, e) ELSE e = 0
  /\ Persist(d, e, 0)
  /\ UNCHANGED <<live, sender, turn, last, bus, loop, turns, reached, waived, crashes>>

humanVars == <<live, log, sender, turn, last, bus, loop, turns, reached, crashes>>

ResolveObligation(d) ==
  /\ mail[d].owed = "awaiting_reply" /\ d[2] \in live
  /\ mail' = [mail EXCEPT ![d].owed = "resolved"]
  /\ waived' = waived \cup {d}
  /\ UNCHANGED humanVars

Dismiss(d) ==
  /\ mail[d].state = "pending" /\ d[2] \in live
  /\ mail' = [mail EXCEPT ![d].state = "dismissed"]
  /\ UNCHANGED <<humanVars, waived>>

Restore(d) ==
  /\ mail[d].policy = "store_only" /\ mail[d].state = "dismissed" /\ d[2] \in live
  /\ mail' = [mail EXCEPT ![d].state = "pending", ![d].ref = 0]
  /\ UNCHANGED <<humanVars, waived>>

\* prepare_origin_retry: a new queue row, so a new turn_ref.
Retry(d) ==
  /\ mail[d].policy = "invoke_when_idle" /\ mail[d].state = "failed" /\ d[2] \in live
  /\ mail' = [mail EXCEPT ![d].state = "queued", ![d].ref = 0]
  /\ UNCHANGED <<humanVars, waived>>

DeleteSession(s) ==
  /\ s \in live \cap Deletable
  /\ live' = live \ {s}
  /\ UNCHANGED <<log, mail, sender, turn, last, bus, loop, turns, reached, waived, crashes>>

-------------------------------------------------------------------------------
(* A prompt under prompt_lock: claim, send, finalize.                          *)

Idle(c) == /\ sender[c] = None /\ turn[c] = 0 /\ SessionOf[c] \in live
           /\ Len(turns) < MaxTurns
           /\ Overtaking \/ \A i \in 1..Len(bus) : bus[i] # c

Waiting(t) == {d \in DOMAIN mail : d[2] = t /\ mail[d].policy = "store_only"
                                            /\ mail[d].state = "pending"}
\* the oldest MaxBatch messages that wait for Session t
Oldest(t) == {d \in Waiting(t) : Cardinality({x \in Waiting(t) : x[1] < d[1]}) < MaxBatch}

Claim(c, claimed, main) ==
  LET n == Len(turns) + 1 IN
    /\ mail' = [x \in DOMAIN mail |-> IF x \in claimed
                  THEN [mail[x] EXCEPT !.state = "embedding", !.ref = n] ELSE mail[x]]
    /\ turns' = Append(turns, [main |-> main, end |-> "open", out |-> "open"])
    /\ sender' = [sender EXCEPT ![c] =
                    [n |-> n, batch |-> claimed \ {main}, main |-> main, at |-> "claimed"]]

\* An ordinary prompt takes the oldest waiting messages along; when they cannot
\* be claimed it goes without them.
PromptClaims(c) ==
  /\ Idle(c)
  /\ \E claimed \in {Oldest(SessionOf[c])} \cup (IF Faults THEN {{}} ELSE {}) :
       Claim(c, claimed, None)
  /\ UNCHANGED <<live, log, turn, last, bus, loop, reached, waived, crashes>>

\* process(): the loop dispatches the head of a Session's queue.  A prompt that
\* has an origin of its own takes no waiting message along.
QueueClaims(c) ==
  /\ loop = None /\ Idle(c)
  /\ \E d \in DOMAIN mail :
       /\ d[2] = SessionOf[c] /\ mail[d].state = "queued"
       /\ \A x \in DOMAIN mail : x[2] = d[2] /\ mail[x].state = "queued" => d[1] <= x[1]
       /\ Claim(c, {d}, d)
  /\ loop' = c
  /\ UNCHANGED <<live, log, turn, last, bus, reached, waived, crashes>>

Carried(c) == sender[c].batch \cup ({sender[c].main} \ {None})

\* send_prompt_inner: the Harness has the prompt (its UserMessage, which only a
\* chat channel's prompt goes without, clears what is known of the last turn),
\* has not, or the confirmation did not come.
Dispatch(c) ==
  /\ sender[c] # None /\ sender[c].at = "claimed"
  /\ \E out \in {"sent", "refused", "unsure"}, arrives \in BOOLEAN :
       /\ out = "sent" => arrives
       /\ out = "refused" => ~arrives
       /\ sender' = [sender EXCEPT ![c].at = out]
       /\ turns' = [turns EXCEPT ![sender[c].n].out = out]
       /\ IF arrives
          THEN /\ turn' = [turn EXCEPT ![c] = sender[c].n]
               /\ \/ last' = [last EXCEPT ![c] = [n |-> 0, answered |-> FALSE]]
                  \/ sender[c].main = None /\ UNCHANGED last
               /\ reached' = reached \cup (Carried(c) \X {sender[c].n})
          ELSE UNCHANGED <<turn, last, reached>>
  /\ UNCHANGED <<live, log, mail, bus, loop, waived, crashes>>

\* what becomes of a delivery whose send ended this way; a refused prompt of the
\* queue is put back when the Session was busy, and fails otherwise
Outcome(d, at, back) ==
  IF at = "sent" THEN "embedded"
  ELSE IF mail[d].policy = "store_only"
       THEN IF at = "refused" THEN "pending" ELSE "embedding"
       ELSE IF at = "refused" THEN back ELSE "failed"

\* Faulty variant: every failed send puts the messages back.
FinishReleases(c) ==
  /\ sender[c] # None /\ sender[c].at # "claimed"
  /\ mail' = [x \in DOMAIN mail |->
                IF x \in Carried(c) /\ mail[x].state = "embedding" /\ mail[x].ref = sender[c].n
                THEN [mail[x] EXCEPT !.state = Outcome(x, IF sender[c].at = "sent" THEN "sent" ELSE "refused", "queued")]
                ELSE mail[x]]
  /\ sender' = [sender EXCEPT ![c] = None]
  /\ loop' = IF sender[c].main # None THEN None ELSE loop
  /\ UNCHANGED <<live, log, turn, last, bus, turns, reached, waived, crashes>>

\* Faulty variant: an unconfirmed message of the queue gets a state of its own.
FinishUnsettled(c) ==
  /\ sender[c] # None /\ sender[c].at # "claimed"
  /\ mail' = [x \in DOMAIN mail |-> IF x \in Carried(c)
                THEN [mail[x] EXCEPT !.state = sender[c].at] ELSE mail[x]]
  /\ sender' = [sender EXCEPT ![c] = None]
  /\ UNCHANGED <<live, log, turn, last, bus, loop, turns, reached, waived, crashes>>

\* Faulty variant: an unconfirmed prompt is taken for a sent one.
FinishOptimistic(c) ==
  /\ sender[c] # None /\ sender[c].at # "claimed"
  /\ mail' = [x \in DOMAIN mail |->
                IF x \in Carried(c) /\ mail[x].state = "embedding" /\ mail[x].ref = sender[c].n
                THEN [mail[x] EXCEPT !.state = Outcome(x, IF sender[c].at = "refused" THEN "refused" ELSE "sent", "queued")]
                ELSE mail[x]]
  /\ sender' = [sender EXCEPT ![c] = None]
  /\ loop' = IF sender[c].main # None THEN None ELSE loop
  /\ UNCHANGED <<live, log, turn, last, bus, turns, reached, waived, crashes>>

\* Faulty variant: only a queued prompt is put back.
FinishForgets(c) ==
  /\ sender[c] # None /\ sender[c].at # "claimed"
  /\ mail' = [x \in DOMAIN mail |->
                IF x \in Carried(c) /\ (sender[c].at = "sent" \/ sender[c].main # None)
                THEN [mail[x] EXCEPT !.state = Outcome(x, sender[c].at, "queued")]
                ELSE mail[x]]
  /\ sender' = [sender EXCEPT ![c] = None]
  /\ loop' = IF sender[c].main # None THEN None ELSE loop
  /\ UNCHANGED <<live, log, turn, last, bus, turns, reached, waived, crashes>>

\* mark_store_only_batch_embedded, release_store_only_batch, nothing after an
\* uncertain dispatch; mark_origin_embedded / _queued / _failed.
Finish(c) ==
  /\ sender[c] # None /\ sender[c].at # "claimed"
  /\ \/ \E back \in {"queued", "failed"} :
          mail' = [x \in DOMAIN mail |->
            IF x \in Carried(c) /\ mail[x].state = "embedding" /\ mail[x].ref = sender[c].n
            THEN LET to == Outcome(x, sender[c].at, back) IN
                 [mail[x] EXCEPT !.state = to,
                                 !.ref = IF to \in {"pending", "queued"} THEN 0 ELSE @]
            ELSE mail[x]]
     \/ Faults /\ UNCHANGED mail
  /\ sender' = [sender EXCEPT ![c] = None]
  /\ loop' = IF sender[c].main # None THEN None ELSE loop
  /\ UNCHANGED <<live, log, turn, last, bus, turns, reached, waived, crashes>>

\* recover_expired: a dispatch nobody carries any more has an unknown outcome.
RecoverLease(d) ==
  /\ loop = None
  /\ mail[d].policy = "invoke_when_idle" /\ mail[d].state = "embedding"
  /\ mail' = [mail EXCEPT ![d].state = "failed"]
  /\ UNCHANGED <<humanVars, waived>>

-------------------------------------------------------------------------------
(* The end of a turn, and the fallback reply.                                  *)

\* Faulty variant: the message id is read after pending_user_message was cleared.
EndTurnCleared(c) ==
  /\ turn[c] # 0
  /\ last' = [last EXCEPT ![c] = [n |-> 0, answered |-> TRUE]]
  /\ turns' = [turns EXCEPT ![turn[c]].end = "answered"]
  /\ turn' = [turn EXCEPT ![c] = 0]
  /\ bus' = Append(bus, c)
  /\ UNCHANGED <<live, log, mail, sender, loop, reached, waived, crashes>>

\* TurnComplete: the state remembers the turn, the event goes to the bus.
EndTurn(c) ==
  /\ turn[c] # 0
  /\ \E answered \in BOOLEAN :
       /\ last' = [last EXCEPT ![c] = [n |-> turn[c], answered |-> answered]]
       /\ turns' = [turns EXCEPT ![turn[c]].end = IF answered THEN "answered" ELSE "abnormal"]
  /\ turn' = [turn EXCEPT ![c] = 0]
  /\ bus' = Append(bus, c)
  /\ UNCHANGED <<live, log, mail, sender, loop, reached, waived, crashes>>

\* Faulty variant: any message the Session has read counts as answered.
UnansweredAny(t, n) ==
  {d \in DOMAIN mail :
     /\ d[2] = t /\ mail[d].state = "embedded" /\ mail[d].policy = "invoke_when_idle"
     /\ log[d[1]].expects /\ mail[d].owed = "awaiting_reply"
     /\ ~Replied(d[1], t)}

\* the message turn n of Session t was started for, while it has no answer
Unanswered(t, n) ==
  {d \in DOMAIN mail :
     /\ d[2] = t /\ mail[d].ref = n
     /\ mail[d].state = "embedded" /\ mail[d].policy = "invoke_when_idle"
     /\ log[d[1]].expects /\ mail[d].owed = "awaiting_reply"
     /\ ~Replied(d[1], t)}

\* on_acp_event: the state is read when the event is handled.
HandleEnd ==
  /\ loop = None /\ bus # <<>>
  /\ LET c == Head(bus)
         found == IF last[c].answered THEN Unanswered(SessionOf[c], last[c].n) ELSE {}
     IN IF found = {} THEN loop' = None
                      ELSE \E d \in found : loop' = <<d, last[c].n>>
  /\ bus' = Tail(bus)
  /\ UNCHANGED <<live, log, mail, sender, turn, last, turns, reached, waived, crashes>>

Fallback(d) == [from |-> d[2], key |-> 0, to |-> {log[d[1]].from}, policy |-> "store_only",
                expects |-> FALSE, reply |-> TRUE]

\* Faulty variant: the insert trusts what HandleEnd read.
AutoReplyUnguarded ==
  /\ loop \notin Conns \cup {None}
  /\ LET d == loop[1] IN Persist(Fallback(d), d[1], loop[2])
  /\ loop' = None
  /\ UNCHANGED <<live, sender, turn, last, bus, turns, reached, waived, crashes>>

\* auto_reply_for_completed_turn: inserted unless a reply was in the meantime.
AutoReply ==
  /\ loop \notin Conns \cup {None}
  /\ LET d == loop[1] IN
       IF Replied(d[1], d[2]) \/ d[2] \notin live
       THEN UNCHANGED <<log, mail>>
       ELSE Persist(Fallback(d), d[1], loop[2])
  /\ loop' = None
  /\ UNCHANGED <<live, sender, turn, last, bus, turns, reached, waived, crashes>>

\* The process, its connections and its loop are gone; the tables stay.
Crash ==
  /\ crashes < MaxCrashes
  /\ crashes' = crashes + 1
  /\ sender' = [c \in Conns |-> None]
  /\ turn' = [c \in Conns |-> 0]
  /\ last' = [c \in Conns |-> [n |-> 0, answered |-> FALSE]]
  /\ bus' = <<>>
  /\ loop' = None
  /\ UNCHANGED <<live, log, mail, turns, reached, waived>>

Messages ==
  \/ \E d \in Drafts, e \in 0..Len(log) : SendMessage(d, e)
  \/ \E d \in DOMAIN mail : \/ ResolveObligation(d) \/ Dismiss(d) \/ Restore(d) \/ Retry(d)
  \/ \E s \in Sessions : DeleteSession(s)

Next ==
  \/ Messages
  \/ \E c \in Conns : PromptClaims(c) \/ QueueClaims(c) \/ Dispatch(c) \/ Finish(c) \/ EndTurn(c)
  \/ \E d \in DOMAIN mail : RecoverLease(d)
  \/ HandleEnd \/ AutoReply \/ Crash

Spec == Init /\ [][Next]_vars

\* The loop keeps receiving, sends and turns end.
FairSpec ==
  /\ Spec
  /\ WF_vars(HandleEnd) /\ WF_vars(AutoReply)
  /\ \A c \in Conns : WF_vars(Dispatch(c)) /\ WF_vars(Finish(c)) /\ WF_vars(EndTurn(c))

-------------------------------------------------------------------------------
\* A message that waits for a turn is put before its Agent in one turn at most,
\* and never while it waits or is dismissed: what may have arrived is not sent
\* again (claim_pending_store_only_for_turn, release_store_only_batch).
ContextOnce ==
  \A d \in DOMAIN mail : mail[d].policy = "store_only" =>
    LET in == {n \in Refs : <<d, n>> \in reached} IN
      /\ Cardinality(in) <= 1
      /\ mail[d].state \in {"pending", "dismissed"} => in = {}

\* A message is shown as part of a turn only when that turn carried it, whichever
\* view claimed it and however its send ended.
EmbeddedInItsTurn ==
  \A d \in DOMAIN mail : mail[d].state = "embedded" => <<d, mail[d].ref>> \in reached

\* As long as the database answers and the process lives, a waiting message that
\* was claimed goes back unless its turn has it or its outcome is unknown.
NoneLeftBehind ==
  ~Faults /\ crashes = 0 =>
    \A d \in DOMAIN mail :
      mail[d].policy = "store_only" /\ mail[d].state = "embedding" =>
        \/ turns[mail[d].ref].out = "unsure"
        \/ \E c \in Conns : sender[c] # None /\ d \in sender[c].batch

\* An obligation stands until its own recipient answers or waives it: the answer
\* of one recipient leaves the others' alone, and no answer leaves its own open.
OwedUntilAnswered ==
  \A d \in DOMAIN mail :
    /\ mail[d].owed = "awaiting_reply" => ~Replied(d[1], d[2])
    /\ mail[d].owed = "resolved" => Replied(d[1], d[2]) \/ d \in waived

\* The fallback reply is a fallback: at most one for a recipient, and none after
\* an answer the Agent or the person gave while the turn's end was handled.
FallbackOnly ==
  \A i \in 1..Len(log) : log[i].auto # 0 =>
    \A j \in 1..(i - 1) : log[j].re = log[i].re => log[j].from # log[i].from

\* A fallback reply is the answer of the very turn that was started for the
\* message it replies to, and of a turn that ended normally.
AnswerOfItsTurn ==
  \A i \in 1..Len(log) : log[i].auto # 0 =>
    /\ turns[log[i].auto].main = <<log[i].re, log[i].from>>
    /\ turns[log[i].auto].end = "answered"

\* "Persist the normal final answer of a turn whose main user message was one
\* exact collaboration delivery": the obligation of such a turn, ended with an
\* answer, is closed.
AnswersReturned ==
  \A n \in 1..Len(turns) : \A d \in Slots :
    ( /\ turns[n].end = "answered" /\ turns[n].main = d
      /\ turns[n].out = "sent" /\ log[d[1]].expects )
    => \/ d \in DOMAIN mail /\ mail[d].owed # "awaiting_reply"
       \/ Len(log) = MaxLog \/ crashes > 0 \/ live # Sessions
================================================================================
