----------------------- MODULE ConversationStatusProofs ------------------------
(* Theorems about ConversationStatus, for every number of connections, prompts, *)
(* cancels and closes: what the row says of the turns of its conversation.      *)
EXTENDS ConversationStatus, TLAPS

-------------------------------------------------------------------------------
(* Channels and event queues: what they hold, and in which order.               *)

Behind(s, a, b) == \E i, j \in DOMAIN s : i < j /\ s[i] = a /\ s[j] = b

\* How an Append and a Tail change both.
Ordered(s) ==
  /\ \A e : Elems(Append(s, e)) = Elems(s) \cup {e}
  /\ \A e, a, b : Behind(Append(s, e), a, b) <=> Behind(s, a, b) \/ (a \in Elems(s) /\ b = e)
  /\ s # <<>> => /\ Elems(s) = Elems(Tail(s)) \cup {Head(s)}
                 /\ \A a, b : Behind(s, a, b) <=> \/ Behind(Tail(s), a, b)
                                                  \/ a = Head(s) /\ b \in Elems(Tail(s))

LEMMA AppendOrdered ==
  ASSUME NEW S, NEW s \in Seq(S), NEW e
  PROVE  /\ Elems(Append(s, e)) = Elems(s) \cup {e}
         /\ \A a, b : Behind(Append(s, e), a, b) <=> Behind(s, a, b) \/ (a \in Elems(s) /\ b = e)
<1> DEFINE n == Len(s)
           t == Append(s, e)
<1>1. /\ n \in Nat /\ DOMAIN s = 1..n /\ DOMAIN t = 1..(n + 1) /\ t[n + 1] = e
      /\ \A i \in 1..n : t[i] = s[i]
  OBVIOUS
<1> HIDE DEF n, t
<1>2. Elems(t) = Elems(s) \cup {e}  BY <1>1 DEF Elems
<1>3. ASSUME NEW a, NEW b  PROVE Behind(t, a, b) <=> Behind(s, a, b) \/ (a \in Elems(s) /\ b = e)
  <2>1. ASSUME Behind(t, a, b)  PROVE Behind(s, a, b) \/ (a \in Elems(s) /\ b = e)
    <3>1. PICK i, j \in 1..(n + 1) : i < j /\ t[i] = a /\ t[j] = b  BY <1>1, <2>1 DEF Behind
    <3>2. i \in 1..n /\ s[i] = a  BY <1>1, <3>1
    <3>3. CASE j = n + 1  BY <1>1, <3>1, <3>2, <3>3 DEF Elems
    <3>4. CASE j # n + 1
      <4>1. j \in 1..n /\ s[j] = b  BY <1>1, <3>1, <3>4
      <4> QED  BY <1>1, <3>1, <3>2, <4>1 DEF Behind
    <3> QED  BY <3>3, <3>4
  <2>2. ASSUME Behind(s, a, b)  PROVE Behind(t, a, b)
    <3>1. PICK i, j \in 1..n : i < j /\ s[i] = a /\ s[j] = b  BY <1>1, <2>2 DEF Behind
    <3>2. i \in 1..(n + 1) /\ j \in 1..(n + 1) /\ t[i] = a /\ t[j] = b  BY <1>1, <3>1
    <3> QED  BY <1>1, <3>1, <3>2 DEF Behind
  <2>3. ASSUME a \in Elems(s), b = e  PROVE Behind(t, a, b)
    <3>1. PICK i \in 1..n : s[i] = a  BY <1>1, <2>3 DEF Elems
    <3>2. i \in 1..(n + 1) /\ n + 1 \in 1..(n + 1) /\ i < n + 1 /\ t[i] = a  BY <1>1, <3>1
    <3> QED  BY <1>1, <2>3, <3>2 DEF Behind
  <2> QED  BY <2>1, <2>2, <2>3
<1> QED  BY <1>2, <1>3 DEF t

LEMMA TailOrdered ==
  ASSUME NEW S, NEW s \in Seq(S), s # <<>>
  PROVE  /\ Elems(s) = Elems(Tail(s)) \cup {Head(s)}
         /\ \A a, b : Behind(s, a, b) <=> \/ Behind(Tail(s), a, b)
                                          \/ a = Head(s) /\ b \in Elems(Tail(s))
<1> DEFINE n == Len(s)
           t == Tail(s)
<1>1. /\ n \in Nat \ {0} /\ DOMAIN s = 1..n /\ DOMAIN t = 1..(n - 1) /\ Head(s) = s[1]
      /\ \A i \in 1..(n - 1) : t[i] = s[i + 1]
  OBVIOUS
<1>2. \A i \in 1..(n - 1) : i + 1 \in 1..n  BY <1>1
<1>3. \A i \in 1..n : i = 1 \/ (i - 1 \in 1..(n - 1) /\ t[i - 1] = s[i])
  <2> SUFFICES ASSUME NEW i \in 1..n, i # 1  PROVE i - 1 \in 1..(n - 1) /\ t[i - 1] = s[i]
    OBVIOUS
  <2>1. i - 1 \in 1..(n - 1) /\ (i - 1) + 1 = i  BY <1>1
  <2> QED  BY <1>1, <2>1
<1> HIDE DEF n, t
<1>4. Elems(s) = Elems(t) \cup {Head(s)}
  <2>1. ASSUME NEW i \in 1..n  PROVE s[i] \in Elems(t) \cup {Head(s)}
    BY <1>1, <1>3 DEF Elems
  <2>2. Elems(t) \subseteq Elems(s)  BY <1>1, <1>2 DEF Elems
  <2>3. Head(s) \in Elems(s)  BY <1>1 DEF Elems
  <2>4. Elems(s) \subseteq Elems(t) \cup {Head(s)}  BY <1>1, <2>1 DEF Elems
  <2> QED  BY <2>2, <2>3, <2>4
<1>5. ASSUME NEW a, NEW b
      PROVE  Behind(s, a, b) <=> Behind(t, a, b) \/ (a = Head(s) /\ b \in Elems(t))
  <2>1. ASSUME Behind(s, a, b)  PROVE Behind(t, a, b) \/ (a = Head(s) /\ b \in Elems(t))
    <3>1. PICK i, j \in 1..n : i < j /\ s[i] = a /\ s[j] = b  BY <1>1, <2>1 DEF Behind
    <3>2. j - 1 \in 1..(n - 1) /\ t[j - 1] = b  BY <1>1, <1>3, <3>1
    <3>3. CASE i = 1  BY <1>1, <3>1, <3>2, <3>3 DEF Elems
    <3>4. CASE i # 1
      <4>1. i - 1 \in 1..(n - 1) /\ t[i - 1] = a /\ i - 1 < j - 1  BY <1>1, <1>3, <3>1, <3>4
      <4> QED  BY <1>1, <3>2, <4>1 DEF Behind
    <3> QED  BY <3>3, <3>4
  <2>2. ASSUME Behind(t, a, b)  PROVE Behind(s, a, b)
    <3>1. PICK i, j \in 1..(n - 1) : i < j /\ t[i] = a /\ t[j] = b  BY <1>1, <2>2 DEF Behind
    <3>2. i + 1 \in 1..n /\ j + 1 \in 1..n /\ i + 1 < j + 1 /\ s[i + 1] = a /\ s[j + 1] = b
      BY <1>1, <1>2, <3>1
    <3> QED  BY <1>1, <3>2 DEF Behind
  <2>3. ASSUME a = Head(s), b \in Elems(t)  PROVE Behind(s, a, b)
    <3>1. PICK j \in 1..(n - 1) : t[j] = b  BY <1>1, <2>3 DEF Elems
    <3>2. 1 \in 1..n /\ j + 1 \in 1..n /\ 1 < j + 1 /\ s[j + 1] = b  BY <1>1, <1>2, <3>1
    <3> QED  BY <1>1, <2>3, <3>2 DEF Behind
  <2> QED  BY <2>1, <2>2, <2>3
<1> QED  BY <1>4, <1>5 DEF t

LEMMA SeqOrdered == ASSUME NEW S, NEW s \in Seq(S)  PROVE Ordered(s)
BY AppendOrdered, TailOrdered DEF Ordered

LEMMA NoneOrdered == Elems(<<>>) = {} /\ \A a, b : ~Behind(<<>>, a, b)
BY DEF Elems, Behind
-------------------------------------------------------------------------------
(* Types.                                                                       *)

Cmds   == {"prompt", "cancel", "disconnect"}
Queued == {"linked", "terminal", "end_turn", "refusal", "cancelled"}
Ops    == {None, "link", "status", "lookup", "reserve", "rollback", "cancel"}
Writers == [cached : BOOLEAN, write : Statuses \cup {None}, tries : 0 .. 3]
Kinds  == {"prompts", "cancels", "closes", "drops", "fails", "lost"}
Spent  == [prompts : Nat, cancels : Nat, closes : Nat, drops : Nat, fails : Nat,
           lost : Nat]

\* The steps that one connection makes, or that are made for it.
Step(c) ==
  \/ Spawn(c) \/ Insert(c) \/ disconnect(c) \/ AgentDies(c) \/ Cleanup(c)
  \/ Loop(c) \/ TurnEnds(c)
  \/ SendStart(c) \/ Sender(c) \/ SenderFails(c) \/ SendDropped(c) \/ CancelStart(c)
  \/ Worker(c) \/ WorkerMisses(c)

LEMMA StepMoves ==
  ASSUME NEW c \in Conns, Step(c)
  PROVE  /\ phase' = phase \/ \E x \in {"building", "live", "over"} : phase' = Set(phase, c, x)
         /\ known' = known \/ \E x \in BOOLEAN : known' = Set(known, c, x)
         /\ linked' = linked \/ linked' = Set(linked, c, TRUE)
         /\ flight' = flight \/ \E x \in BOOLEAN : flight' = Set(flight, c, x)
         /\ turn' = turn \/ \E x \in BOOLEAN : turn' = Set(turn, c, x)
         /\ op' = op \/ \E x \in Ops : op' = Set(op, c, x)
         /\ \/ cmds' = cmds \/ cmds' = Set(cmds, c, <<>>)
            \/ cmds[c] # <<>> /\ cmds' = Set(cmds, c, Tail(cmds[c]))
            \/ \E x \in Cmds : cmds' = Push(cmds, c, x)
         /\ \/ events' = events
            \/ events[c] # <<>> /\ events' = Set(events, c, Tail(events[c]))
            \/ \E x \in Queued : events' = Push(events, c, x)
<1>1. CASE Spawn(c) \/ Insert(c) \/ disconnect(c) \/ AgentDies(c) \/ Cleanup(c)
  BY <1>1 DEF Spawn, Insert, disconnect, AgentDies, Cleanup, Ends, Cmds, Queued
<1>2. CASE Loop(c) \/ TurnEnds(c)
  BY <1>2 DEF Loop, LoopDisconnect, LoopPrompt, LoopCancel, Ends, Completes, TurnEnds, conns, Queued
<1>3. CASE SendStart(c) \/ Sender(c) \/ SenderFails(c) \/ SendDropped(c) \/ CancelStart(c)
  <2>1. UNCHANGED <<phase, known, turn>>
    BY <1>3 DEF SendStart, Sender, SendLink, SendStatus, SendLookup, SendEnqueue, SendRollback,
                CancelRow, SenderFails, RollbackFails, CancelRowFails, SendDropped, CancelStart,
                conns
  <2>2. \E x \in Ops : op' = Set(op, c, x)
    BY <1>3 DEF SendStart, Sender, SendLink, SendStatus, Admit, SendLookup, SendEnqueue,
                SendRollback, CancelRow, SenderFails, RollbackFails, CancelRowFails, SendDropped,
                CancelStart, Ops
  <2>3. /\ linked' = linked \/ linked' = Set(linked, c, TRUE)
        /\ flight' = flight \/ \E x \in BOOLEAN : flight' = Set(flight, c, x)
    BY <1>3 DEF SendStart, Sender, SendLink, SendStatus, SendLookup, SendEnqueue, SendRollback,
                CancelRow, SenderFails, RollbackFails, CancelRowFails, SendDropped, CancelStart,
                conns
  <2>4. /\ cmds' = cmds \/ \E x \in Cmds : cmds' = Push(cmds, c, x)
        /\ events' = events \/ \E x \in Queued : events' = Push(events, c, x)
    BY <1>3 DEF SendStart, Sender, SendLink, SendStatus, SendLookup, SendEnqueue, SendRollback,
                CancelRow, SenderFails, RollbackFails, CancelRowFails, SendDropped, CancelStart,
                Cmds, Queued
  <2> QED  BY <2>1, <2>2, <2>3, <2>4
<1>4. CASE Worker(c) \/ WorkerMisses(c)
  BY <1>4 DEF Worker, WorkerLinked, WorkerComplete, WorkerWrite, WorkerTerminal, WorkerMisses,
              WorkerFails, TerminalFails, EventLost, conns
<1> QED  BY <1>1, <1>2, <1>3, <1>4 DEF Step

\* The types of all but the row; a write that is still tried has failed twice at most.
Typed ==
  /\ phase \in [Conns -> {"none", "building", "live", "over"}]
  /\ known \in [Conns -> BOOLEAN] /\ linked \in [Conns -> BOOLEAN]
  /\ flight \in [Conns -> BOOLEAN] /\ turn \in [Conns -> BOOLEAN]
  /\ cmds \in [Conns -> Seq(Cmds)] /\ op \in [Conns -> Ops] /\ events \in [Conns -> Seq(Queued)]
  /\ worker \in [Conns -> Writers] /\ used \in Spent
  /\ \A c \in Conns : worker[c].write # None => worker[c].tries <= 2

LEMMA PushTyped ==
  ASSUME NEW S, NEW T, NEW f \in [S -> Seq(T)], NEW c \in S, NEW e \in T
  PROVE  /\ Push(f, c, e) \in [S -> Seq(T)] /\ Push(f, c, e)[c] = Append(f[c], e)
         /\ \A d \in S : d # c => Push(f, c, e)[d] = f[d]
BY DEF Push

LEMMA SetTyped ==
  ASSUME NEW S, NEW T, NEW f \in [S -> T], NEW c \in S, NEW v \in T
  PROVE  /\ Set(f, c, v) \in [S -> T] /\ Set(f, c, v)[c] = v
         /\ \A d \in S : d # c => Set(f, c, v)[d] = f[d]
BY DEF Set

LEMMA SpendTyped ==
  ASSUME used \in Spent, NEW what \in Kinds, NEW bound, Spend(what, bound)
  PROVE  /\ used' \in Spent /\ used[what] < bound /\ used'[what] = used[what] + 1
<1>1. used' = [used EXCEPT ![what] = used[what] + 1] /\ used[what] < bound  BY DEF Spend
<1>2. used[what] + 1 \in Nat /\ used[what] \in Nat  BY DEF Spent, Kinds
<1> QED  BY <1>1, <1>2 DEF Spent, Kinds

LEMMA SpentStep ==
  ASSUME used \in Spent, NEW c \in Conns, Step(c)
  PROVE  used' \in Spent
<1>1. CASE \E what \in Kinds : \E bound : Spend(what, bound)
  BY <1>1, SpendTyped
<1>2. CASE used' = used  BY <1>2 DEF Spent
<1>3. used' = used \/ \E what \in Kinds : \E bound : Spend(what, bound)
  BY DEF Step, Spawn, Insert, disconnect, MayClose, AgentDies, Cleanup, Loop, LoopDisconnect,
         LoopPrompt, LoopCancel, Completes, TurnEnds, SendStart, Sender, SendLink, SendStatus,
         SendLookup, SendEnqueue, SendRollback, CancelRow, SenderFails, RollbackFails,
         CancelRowFails, SendDropped, CancelStart, Worker, WorkerLinked, WorkerComplete,
         WorkerWrite, WorkerTerminal, WorkerMisses, WorkerFails, TerminalFails, EventLost,
         Kinds
<1> QED  BY <1>1, <1>2, <1>3

\* Only an admitted prompt makes up for what is missing, and never for a link.
LEMMA MissingMoves ==
  ASSUME SetsAssumption, missing \subseteq {"end", "link"}, Typed, NEW c \in Conns, Step(c)
  PROVE  /\ missing' \subseteq {"end", "link"} /\ missing \ {"end"} \subseteq missing'
         /\ \/ missing \subseteq missing'
            \/ SendStatus(c) /\ op[c] = "status" /\ op'[c] = "lookup"
<1>1. CASE SendStatus(c)
  <2>1. op \in [Conns -> Ops]  BY DEF Typed
  <2> QED  BY <1>1, <2>1 DEF SendStatus, Admit, Set
<1>2. CASE SenderFails(c) \/ SendDropped(c)
  BY <1>2 DEF SenderFails, RollbackFails, CancelRowFails, SendDropped
<1>3. CASE WorkerMisses(c)
  BY <1>3 DEF WorkerMisses, WorkerFails, TerminalFails, EventLost, TakenBy
<1>4. CASE ~SendStatus(c) /\ ~SenderFails(c) /\ ~SendDropped(c) /\ ~WorkerMisses(c)
  <2>1. missing' = missing
    BY <1>4 DEF Step, Spawn, Insert, disconnect, AgentDies, Cleanup, Loop, LoopDisconnect,
         LoopPrompt, LoopCancel, Completes, TurnEnds, SendStart, Sender, SendLink, SendLookup,
         SendEnqueue, SendRollback, CancelRow, CancelStart, Worker, WorkerLinked, WorkerComplete,
         WorkerWrite, WorkerTerminal
  <2> QED  BY <2>1
<1> QED  BY <1>1, <1>2, <1>3, <1>4

\* The faults that take nothing: a prompt dropped before the row says that it runs, a
\* write that is tried again, the loss of an event that ends in no write.
LEMMA NoneMissed ==
  ASSUME SetsAssumption, Typed, NEW c \in Conns, missing' = {}
  PROVE  /\ ~SenderFails(c)
         /\ SendDropped(c) => op[c] \in {"link", "status"}
         /\ WorkerMisses(c) => \/ WorkerFails(c) /\ worker[c].tries < 2
                               \/ EventLost(c) /\ Head(events[c]) = "cancelled"
<1>1. ~SenderFails(c)  BY DEF SenderFails, RollbackFails, CancelRowFails
<1>2. SendDropped(c) => op[c] \in {"link", "status"}  BY DEF SendDropped
<1>3. ~TerminalFails(c)  BY DEF TerminalFails
<1>4. WorkerFails(c) => worker[c].tries < 2
  <2>1. worker[c].tries \in 0..3 /\ (worker[c].write # None => worker[c].tries <= 2)
    BY DEF Typed, Writers
  <2>2. WorkerFails(c) => worker[c].write # None /\ worker[c].tries # 2  BY DEF WorkerFails
  <2> QED  BY <2>1, <2>2
<1>5. EventLost(c) => Head(events[c]) = "cancelled"
  <2>1. EventLost(c) => TakenBy(Head(events[c])) = {}  BY DEF EventLost
  <2> QED  BY <2>1 DEF TakenBy
<1> QED  BY <1>1, <1>2, <1>3, <1>4, <1>5 DEF WorkerMisses

\* What a step leaves of the worker of a connection.
LEMMA WorkerMoves ==
  ASSUME SetsAssumption, Typed, NEW c \in Conns, Step(c)
  PROVE  /\ worker' \in [Conns -> Writers]
         /\ worker'[c].write # None => worker'[c].tries <= 2
         /\ \A d \in Conns : d # c => worker'[d] = worker[d]
<1> USE DEF Writers
<1>0. worker \in [Conns -> Writers] /\ worker[c] \in Writers /\ known \in [Conns -> BOOLEAN]
  BY DEF Typed
<1>1. CASE worker' = worker  BY <1>0, <1>1 DEF Typed
<1>2. CASE WorkerLinked(c)
  <2>1. worker' = [worker EXCEPT ![c].cached = worker[c].cached \/ known[c]] /\ worker[c].write = None
    BY <1>2 DEF WorkerLinked
  <2>2. PICK b \in BOOLEAN : b = (worker[c].cached \/ known[c])  BY <1>0
  <2>3. worker' = [worker EXCEPT ![c].cached = b] /\ worker[c].write = None  BY <2>1, <2>2
  <2> QED  BY <1>0, <2>3
<1>3. CASE WorkerComplete(c)
  <2>1. worker' = [worker EXCEPT ![c].write = HandledAs(c, Head(events[c])), ![c].tries = 0]
    BY <1>3 DEF WorkerComplete
  <2>2. PICK w \in Statuses \cup {None} : w = HandledAs(c, Head(events[c]))
    BY DEF HandledAs, Target, Statuses
  <2>3. worker' = [worker EXCEPT ![c].write = w, ![c].tries = 0]  BY <2>1, <2>2
  <2>4. worker'[c].tries = 0 /\ 0 \in 0..3 /\ 0 <= 2  BY <1>0, <2>3
  <2> QED  BY <1>0, <2>3, <2>4
<1>4. CASE WorkerWrite(c)
  <2>1. worker' = [worker EXCEPT ![c].write = None]  BY <1>4 DEF WorkerWrite
  <2> QED  BY <1>0, <2>1
<1>5. CASE WorkerTerminal(c)
  <2>1. worker' = [worker EXCEPT ![c].cached = FALSE] /\ worker[c].write = None
    BY <1>5 DEF WorkerTerminal
  <2> QED  BY <1>0, <2>1
<1>6. CASE WorkerFails(c)
  <2>1. worker' = [worker EXCEPT ![c].write = Retried(c), ![c].tries = worker[c].tries + 1]
        /\ worker[c].tries <= 2
    BY <1>6 DEF WorkerFails, Typed
  <2>2. worker[c].tries + 1 \in 0..3  BY <1>0, <2>1
  <2>3. Retried(c) \in Statuses \cup {None} /\ (Retried(c) # None => worker[c].tries + 1 <= 2)
    BY <1>0 DEF Retried
  <2> QED  BY <1>0, <2>1, <2>2, <2>3
<1>8. CASE TerminalFails(c)
  <2>1. worker' = [worker EXCEPT ![c].cached = FALSE] /\ worker[c].write = None
    BY <1>8 DEF TerminalFails
  <2> QED  BY <1>0, <2>1
<1>9. CASE EventLost(c)  BY <1>1, <1>9 DEF EventLost
<1>7. worker' = worker \/ Worker(c) \/ WorkerMisses(c)
  BY DEF Step, Spawn, Insert, disconnect, AgentDies, Cleanup, Loop, LoopDisconnect, LoopPrompt,
         LoopCancel, Completes, TurnEnds, SendStart, Sender, SendLink, SendStatus, SendLookup,
         SendEnqueue, SendRollback, CancelRow, SenderFails, RollbackFails, CancelRowFails,
         SendDropped, CancelStart
<1> QED  BY <1>1, <1>2, <1>3, <1>4, <1>5, <1>6, <1>7, <1>8, <1>9 DEF Worker, WorkerMisses

\* A step of one connection says nothing of the others.
Same(d) == /\ phase'[d] = phase[d] /\ known'[d] = known[d] /\ linked'[d] = linked[d]
           /\ flight'[d] = flight[d] /\ turn'[d] = turn[d] /\ cmds'[d] = cmds[d]
           /\ op'[d] = op[d] /\ events'[d] = events[d] /\ worker'[d] = worker[d]

LEMMA TypedStep ==
  ASSUME SetsAssumption, Typed, NEW c \in Conns, Step(c)
  PROVE  Typed' /\ \A d \in Conns : d # c => Same(d)
<1>0. /\ phase \in [Conns -> {"none", "building", "live", "over"}]
      /\ known \in [Conns -> BOOLEAN] /\ linked \in [Conns -> BOOLEAN]
      /\ flight \in [Conns -> BOOLEAN] /\ turn \in [Conns -> BOOLEAN]
      /\ cmds \in [Conns -> Seq(Cmds)] /\ op \in [Conns -> Ops] /\ events \in [Conns -> Seq(Queued)]
      /\ used \in Spent /\ \A d \in Conns : worker[d].write # None => worker[d].tries <= 2
  BY DEF Typed
<1>1. /\ phase' \in [Conns -> {"none", "building", "live", "over"}]
      /\ \A d \in Conns : d # c => phase'[d] = phase[d]
  BY <1>0, StepMoves DEF Set
<1>2. /\ known' \in [Conns -> BOOLEAN] /\ linked' \in [Conns -> BOOLEAN]
      /\ \A d \in Conns : d # c => known'[d] = known[d] /\ linked'[d] = linked[d]
  <2>1. known' = known \/ \E x \in BOOLEAN : known' = Set(known, c, x)  BY StepMoves
  <2>2. linked' = linked \/ \E x \in BOOLEAN : linked' = Set(linked, c, x)  BY StepMoves
  <2>3. known' \in [Conns -> BOOLEAN] /\ \A d \in Conns : d # c => known'[d] = known[d]
    BY <1>0, <2>1 DEF Set
  <2>4. linked' \in [Conns -> BOOLEAN] /\ \A d \in Conns : d # c => linked'[d] = linked[d]
    BY <1>0, <2>2 DEF Set
  <2> QED  BY <2>3, <2>4
<1>3. /\ flight' \in [Conns -> BOOLEAN] /\ turn' \in [Conns -> BOOLEAN]
      /\ \A d \in Conns : d # c => flight'[d] = flight[d] /\ turn'[d] = turn[d]
  <2>1. flight' = flight \/ \E x \in BOOLEAN : flight' = Set(flight, c, x)  BY StepMoves
  <2>2. turn' = turn \/ \E x \in BOOLEAN : turn' = Set(turn, c, x)  BY StepMoves
  <2>3. flight' \in [Conns -> BOOLEAN] /\ \A d \in Conns : d # c => flight'[d] = flight[d]
    BY <1>0, <2>1 DEF Set
  <2>4. turn' \in [Conns -> BOOLEAN] /\ \A d \in Conns : d # c => turn'[d] = turn[d]
    BY <1>0, <2>2 DEF Set
  <2> QED  BY <2>3, <2>4
<1>4. op' \in [Conns -> Ops] /\ \A d \in Conns : d # c => op'[d] = op[d]
  <2>1. op' = op \/ \E x \in Ops : op' = Set(op, c, x)  BY StepMoves
  <2> QED  BY <1>0, <2>1 DEF Set
<1>5. cmds' \in [Conns -> Seq(Cmds)] /\ \A d \in Conns : d # c => cmds'[d] = cmds[d]
  <2>1. \/ cmds' = cmds \/ cmds' = Set(cmds, c, <<>>)
        \/ cmds[c] # <<>> /\ cmds' = Set(cmds, c, Tail(cmds[c]))
        \/ \E x \in Cmds : cmds' = Push(cmds, c, x)
    BY StepMoves
  <2>2. CASE \E x \in Cmds : cmds' = Push(cmds, c, x)  BY <1>0, <2>2 DEF Push
  <2>3. <<>> \in Seq(Cmds) /\ (cmds[c] # <<>> => Tail(cmds[c]) \in Seq(Cmds))
    <3>1. cmds[c] \in Seq(Cmds)  BY <1>0
    <3> QED  BY <3>1
  <2>4. CASE cmds' = cmds \/ \E x \in Seq(Cmds) : cmds' = Set(cmds, c, x)  BY <1>0, <2>4 DEF Set
  <2> QED  BY <2>1, <2>2, <2>3, <2>4
<1>6. events' \in [Conns -> Seq(Queued)] /\ \A d \in Conns : d # c => events'[d] = events[d]
  <2>1. \/ events' = events
        \/ events[c] # <<>> /\ events' = Set(events, c, Tail(events[c]))
        \/ \E x \in Queued : events' = Push(events, c, x)
    BY StepMoves
  <2>2. CASE \E x \in Queued : events' = Push(events, c, x)  BY <1>0, <2>2 DEF Push
  <2>3. <<>> \in Seq(Queued) /\ (events[c] # <<>> => Tail(events[c]) \in Seq(Queued))
    <3>1. events[c] \in Seq(Queued)  BY <1>0
    <3> QED  BY <3>1
  <2>4. CASE events' = events \/ \E x \in Seq(Queued) : events' = Set(events, c, x)
    BY <1>0, <2>4 DEF Set
  <2> QED  BY <2>1, <2>2, <2>3, <2>4
<1>7. used' \in Spent  BY <1>0, SpentStep
<1>8. /\ worker' \in [Conns -> Writers] /\ \A d \in Conns : d # c => worker'[d] = worker[d]
      /\ \A d \in Conns : worker'[d].write # None => worker'[d].tries <= 2
  BY <1>0, WorkerMoves
<1> QED  BY <1>1, <1>2, <1>3, <1>4, <1>5, <1>6, <1>7, <1>8 DEF Typed, Same

LEMMA QueuesOrdered ==
  ASSUME Typed, NEW c \in Conns
  PROVE  Ordered(cmds[c]) /\ Ordered(events[c])
BY SeqOrdered DEF Typed
-------------------------------------------------------------------------------
(* One prompt at a time: a prompt is on its way to the loop, or runs, only       *)
(* while turn_in_flight is set, and none is sent while it is.                    *)

Sending   == {"link", "status", "lookup", "reserve", "rollback"}
Prompt(c) ==
  /\ op[c] \in Sending => ~flight[c]
  /\ "prompt" \in Elems(cmds[c]) => flight[c] /\ ~turn[c]
  /\ turn[c] => phase[c] = "live" /\ flight[c]
  /\ ~Behind(cmds[c], "prompt", "prompt")

LEMMA PromptStep ==
  ASSUME SetsAssumption, Typed, NEW c \in Conns, Step(c), Prompt(c)
  PROVE  Prompt(c)'
<1> USE DEF Prompt, Sending
<1>0. /\ phase \in [Conns -> {"none", "building", "live", "over"}]
      /\ flight \in [Conns -> BOOLEAN] /\ turn \in [Conns -> BOOLEAN]
      /\ cmds \in [Conns -> Seq(Cmds)] /\ op \in [Conns -> Ops]
  BY DEF Typed
<1>1. Ordered(cmds[c]) /\ None \notin Sending /\ None # "cancel"
  BY QueuesOrdered DEF SetsAssumption
<1>2. CASE UNCHANGED <<flight, turn, cmds, op>> /\ (phase'[c] = phase[c] \/ phase[c] # "live")
  BY <1>2
<1>3. CASE disconnect(c)
  <2>1. UNCHANGED <<phase, flight, turn, op>> /\ (cmds' = cmds \/ cmds' = Push(cmds, c, "disconnect"))
    BY <1>3 DEF disconnect
  <2>2. cmds'[c] = cmds[c] \/ cmds'[c] = Append(cmds[c], "disconnect")  BY <1>0, <2>1 DEF Push
  <2>3. CASE cmds'[c] = cmds[c]  BY <2>1, <2>3
  <2>4. CASE cmds'[c] = Append(cmds[c], "disconnect")  BY <1>1, <2>1, <2>4 DEF Ordered
  <2> QED  BY <2>2, <2>3, <2>4
<1>4. CASE Ends(c) /\ UNCHANGED <<flight, op>>
  <2>1. turn'[c] = FALSE /\ cmds'[c] = <<>> /\ op'[c] = op[c] /\ flight'[c] = flight[c]
    BY <1>0, <1>4 DEF Ends, Set
  <2> QED  BY <2>1, NoneOrdered
<1>5. CASE LoopPrompt(c)
  <2>1. /\ phase[c] = "live" /\ cmds[c] # <<>> /\ Head(cmds[c]) = "prompt" /\ turn'[c] = TRUE
        /\ cmds'[c] = Tail(cmds[c]) /\ UNCHANGED <<phase, flight, op>>
    BY <1>0, <1>5 DEF LoopPrompt, Set
  <2>2. "prompt" \in Elems(cmds[c]) /\ "prompt" \notin Elems(Tail(cmds[c]))
        /\ ~Behind(Tail(cmds[c]), "prompt", "prompt")
    BY <1>1, <2>1 DEF Ordered
  <2> QED  BY <2>1, <2>2
<1>6. CASE LoopCancel(c) /\ ~turn[c]
  <2>1. /\ cmds[c] # <<>> /\ cmds'[c] = Tail(cmds[c]) /\ UNCHANGED <<phase, flight, op, turn>>
    BY <1>0, <1>6 DEF LoopCancel, Set, conns
  <2> QED  BY <1>1, <1>6, <2>1 DEF Ordered
<1>7. CASE turn[c] /\ (LoopCancel(c) \/ TurnEnds(c))
  <2>1. /\ flight'[c] = FALSE /\ turn'[c] = FALSE /\ UNCHANGED <<phase, op>>
    BY <1>0, <1>7 DEF LoopCancel, TurnEnds, Completes, Set
  <2>2. cmds'[c] = cmds[c] \/ (cmds[c] # <<>> /\ cmds'[c] = Tail(cmds[c]))
    BY <1>0, <1>7 DEF LoopCancel, TurnEnds, Set
  <2> QED  BY <1>1, <1>7, <2>1, <2>2 DEF Ordered
<1>8. CASE SendStart(c) \/ SendLink(c) \/ SendStatus(c) \/ SendLookup(c) \/ SendRollback(c)
             \/ CancelRow(c) \/ SenderFails(c) \/ SendDropped(c)
  <2>1. UNCHANGED <<phase, flight, turn, cmds>>
    BY <1>8 DEF SendStart, SendLink, SendStatus, SendLookup, SendRollback, CancelRow, SenderFails,
                RollbackFails, CancelRowFails, SendDropped, conns
  <2>2. op'[c] \in Sending => ~flight[c]
    BY <1>0, <1>1, <1>8 DEF SendStart, SendLink, SendStatus, Admit, SendLookup, SendRollback,
                            CancelRow, SenderFails, RollbackFails, CancelRowFails, SendDropped, Set
  <2> QED  BY <2>1, <2>2
<1>9. CASE SendEnqueue(c)
  <2>1. CASE phase[c] = "over"
    BY <1>0, <1>9, <2>1 DEF SendEnqueue, Set
  <2>2. CASE phase[c] # "over"
    <3>1. /\ op[c] = "reserve" /\ op'[c] = None /\ flight'[c] = TRUE /\ UNCHANGED <<phase, turn>>
          /\ cmds'[c] = Append(cmds[c], "prompt")
      BY <1>0, <1>9, <2>2 DEF SendEnqueue, Set, Push
    <3>2. ~turn[c] /\ "prompt" \notin Elems(cmds[c])  BY <3>1
    <3> QED  BY <1>1, <3>1, <3>2 DEF Ordered
  <2> QED  BY <2>1, <2>2
<1>10. CASE CancelStart(c)
  <2>1. /\ op'[c] = "cancel" /\ UNCHANGED <<phase, flight, turn>> /\ cmds'[c] = Append(cmds[c], "cancel")
    BY <1>0, <1>10 DEF CancelStart, Set, Push, conns
  <2> QED  BY <1>1, <2>1 DEF Ordered
<1>11. CASE Spawn(c) \/ Insert(c) \/ Cleanup(c) \/ Worker(c) \/ WorkerMisses(c)
  <2>1. /\ UNCHANGED <<flight, turn, cmds, op>> /\ (phase'[c] = phase[c] \/ phase[c] # "live")
    BY <1>0, <1>11 DEF Spawn, Insert, Cleanup, Worker, WorkerLinked, WorkerComplete, WorkerWrite,
                       WorkerTerminal, WorkerMisses, WorkerFails, TerminalFails, EventLost, conns
  <2> QED  BY <1>2, <2>1
<1>12. CASE AgentDies(c) \/ LoopDisconnect(c)
  BY <1>4, <1>12 DEF AgentDies, LoopDisconnect
<1> QED
  BY <1>3, <1>5, <1>6, <1>7, <1>8, <1>9, <1>10, <1>11, <1>12 DEF Step, Loop, Sender, TurnEnds

LEMMA PromptFrame == ASSUME NEW d, Same(d), Prompt(d)  PROVE Prompt(d)'
BY DEF Same, Prompt

Lasts == {"end_turn", "refusal", "cancelled", "cut", "unsent"}
TypeInv == /\ Typed /\ row \in Statuses /\ last \in Lasts /\ missing \subseteq {"end", "link"}
           /\ \A c \in Conns : Prompt(c)

LEMMA RowTyped ==
  ASSUME SetsAssumption, Typed, row \in Statuses, last \in Lasts, NEW c \in Conns, Step(c)
  PROVE  row' \in Statuses /\ last' \in Lasts
<1>1. row' \in Statuses
  <2>1. CASE row' \in {row, "pending_review", "in_progress", "cancelled"}  BY <2>1 DEF Statuses
  <2>2. CASE WorkerWrite(c)
    <3>1. worker[c] \in Writers  BY DEF Typed
    <3> QED  BY <2>2, <3>1 DEF WorkerWrite, Writers
  <2>3. row' \in {row, "pending_review", "in_progress", "cancelled"} \/ WorkerWrite(c)
    BY DEF Step, Spawn, Insert, disconnect, AgentDies, Cleanup, Loop, LoopDisconnect, LoopPrompt,
           LoopCancel, Completes, TurnEnds, SendStart, Sender, SendLink, SendStatus, Admit,
           SendLookup, SendEnqueue, SendRollback, CancelRow, CancelledRow, SenderFails,
           RollbackFails, CancelRowFails, SendDropped, CancelStart, Worker, WorkerLinked,
           WorkerComplete, WorkerTerminal, WorkerMisses, WorkerFails, TerminalFails, EventLost
  <2> QED  BY <2>1, <2>2, <2>3
<1>2. last' \in Lasts
  BY DEF Step, Spawn, Insert, disconnect, AgentDies, Cleanup, Ends, Loop, LoopDisconnect,
         LoopPrompt, LoopCancel, Completes, TurnEnds, SendStart, Sender, SendLink, SendStatus,
         SendLookup, SendEnqueue, SendRollback, CancelRow, SenderFails, RollbackFails,
         CancelRowFails, SendDropped, CancelStart, Worker, WorkerLinked, WorkerComplete,
         WorkerWrite, WorkerTerminal, WorkerMisses, WorkerFails, TerminalFails, EventLost, Lasts
<1> QED  BY <1>1, <1>2

LEMMA TypeStep ==
  ASSUME SetsAssumption, TypeInv, NEW c \in Conns, Step(c)
  PROVE  TypeInv' /\ \A d \in Conns : d # c => Same(d)
<1>1. Typed' /\ \A d \in Conns : d # c => Same(d)  BY TypedStep DEF TypeInv
<1>2. row' \in Statuses /\ last' \in Lasts /\ missing' \subseteq {"end", "link"}
  BY RowTyped, MissingMoves DEF TypeInv
<1>3. ASSUME NEW d \in Conns  PROVE Prompt(d)'
  <2>1. CASE d = c  BY <2>1, PromptStep DEF TypeInv
  <2>2. CASE d # c  BY <1>1, <2>2, PromptFrame DEF TypeInv
  <2> QED  BY <2>1, <2>2
<1> QED  BY <1>1, <1>2, <1>3 DEF TypeInv

LEMMA TypeInit == ASSUME SetsAssumption, Init  PROVE TypeInv
<1>1. Typed
  <2>1. <<>> \in Seq(Cmds) /\ <<>> \in Seq(Queued)  OBVIOUS
  <2>2. [cached |-> FALSE, write |-> None, tries |-> 0] \in Writers  BY DEF Writers
  <2>3. worker \in [Conns -> Writers] /\ \A c \in Conns : worker[c].write = None
    BY <2>2 DEF Init
  <2>4. used \in Spent  BY DEF Init, Spent
  <2>5. None \in Ops  BY DEF Ops
  <2> QED  BY <2>1, <2>3, <2>4, <2>5 DEF Init, Typed
<1>2. ASSUME NEW c \in Conns  PROVE Prompt(c)
  <2>1. cmds[c] = <<>> /\ op[c] = None /\ turn[c] = FALSE /\ flight[c] = FALSE  BY DEF Init
  <2>2. None \notin Sending  BY DEF SetsAssumption, Sending
  <2> QED  BY <2>1, <2>2, NoneOrdered DEF Prompt
<1> QED  BY <1>1, <1>2 DEF Init, TypeInv, Statuses, Lasts

LEMMA TypeStutter == ASSUME TypeInv, UNCHANGED vars  PROVE TypeInv'
BY DEF TypeInv, Typed, Prompt, vars

LEMMA NextSteps == Next <=> \E c \in Conns : Step(c)
BY DEF Next, Step

LEMMA TypeInvHolds == ASSUME SetsAssumption  PROVE Spec => []TypeInv
<1>1. Init => TypeInv  BY TypeInit
<1>2. TypeInv /\ [Next]_vars => TypeInv'
  BY TypeStep, TypeStutter, NextSteps
<1> QED  BY <1>1, <1>2, PTL DEF Spec

LEMMA TypeOKOfInv == ASSUME TypeInv  PROVE TypeOK
BY DEF TypeInv, Typed, TypeOK, Prompt, Running, Lasts, Cmds, Ops, Queued, Writers

\* The row, the session state and the channels keep their types, and a turn runs only
\* on a live connection whose turn_in_flight is set (manager.rs, connection.rs).
THEOREM StatusTypeCorrect == ASSUME SetsAssumption  PROVE Spec => []TypeOK
<1>1. TypeInv => TypeOK  BY TypeOKOfInv
<1> QED  BY <1>1, TypeInvHolds, PTL
-------------------------------------------------------------------------------
(* What holds of one connection, when none is made for an existing row: nothing  *)
(* of it is used before it is known; whatever comes of a prompt is linked.       *)

Final    == {"end_turn", "refusal"}
HasEnd(c) == worker[c].write # None \/ \E e \in Final : e \in Elems(events[c])
Cut(c)    == "terminal" \in Elems(events[c])

Young(c) == phase[c] \in {"none", "building"} =>
  /\ ~known[c] /\ ~linked[c] /\ ~flight[c] /\ op[c] = None /\ cmds[c] = <<>> /\ events[c] = <<>>
  /\ worker[c].write = None /\ ~worker[c].cached
Bonded(c) == flight[c] \/ op[c] \in Sending \ {"link"} \/ HasEnd(c) => linked[c]

LEMMA YoungStep ==
  ASSUME SetsAssumption, Bound = {}, Typed, NEW c \in Conns, Step(c), Prompt(c), Young(c)
  PROVE  Young(c)'
<1> USE DEF Young
<1>0. /\ phase \in [Conns -> {"none", "building", "live", "over"}] /\ known \in [Conns -> BOOLEAN]
      /\ worker \in [Conns -> Writers]
  BY DEF Typed
<1>1. CASE Spawn(c)  BY <1>0, <1>1 DEF Spawn, Set
<1>2. CASE phase'[c] \notin {"none", "building"}  BY <1>2
<1>3. CASE Insert(c) \/ AgentDies(c) \/ LoopDisconnect(c)
  BY <1>0, <1>2, <1>3 DEF Insert, AgentDies, LoopDisconnect, Ends, Set
<1>4. CASE ~(Spawn(c) \/ Insert(c) \/ AgentDies(c) \/ LoopDisconnect(c))
  <2>1. phase' = phase
    BY <1>4 DEF Step, disconnect, Cleanup, Loop, LoopPrompt, LoopCancel, Completes, TurnEnds,
                SendStart, Sender, SendLink, SendStatus, SendLookup, SendEnqueue, SendRollback,
                CancelRow, SenderFails, RollbackFails, CancelRowFails, SendDropped, CancelStart,
                Worker, WorkerLinked, WorkerComplete, WorkerWrite, WorkerTerminal, WorkerMisses,
                WorkerFails, TerminalFails, EventLost, conns
  <2>2. CASE phase[c] \in {"none", "building"}
    <3>1. ~disconnect(c) /\ ~Cleanup(c) /\ ~SendStart(c) /\ ~CancelStart(c)
      BY <2>2 DEF disconnect, Cleanup, SendStart, CancelStart
    <3>2. ~Loop(c) /\ ~TurnEnds(c)
      BY <2>2 DEF Loop, LoopDisconnect, LoopPrompt, LoopCancel, TurnEnds, Prompt
    <3>3. ~Sender(c) /\ ~SenderFails(c) /\ ~SendDropped(c)
      BY <2>2 DEF Sender, SendLink, SendStatus, Admit, SendLookup, SendEnqueue, SendRollback,
                  CancelRow, SenderFails, RollbackFails, CancelRowFails, SendDropped, SetsAssumption
    <3>4. ~Worker(c) /\ ~WorkerMisses(c)
      BY <2>2 DEF Worker, WorkerLinked, WorkerComplete, WorkerWrite, WorkerTerminal, WorkerMisses,
                  WorkerFails, TerminalFails, EventLost
    <3> QED  BY <1>4, <3>1, <3>2, <3>3, <3>4 DEF Step
  <2> QED  BY <2>1, <2>2
<1> QED  BY <1>1, <1>3, <1>4

LEMMA BondedStep ==
  ASSUME SetsAssumption, Bound = {}, Typed, NEW c \in Conns, Step(c), Prompt(c), Bonded(c)
  PROVE  Bonded(c)'
<1>0. /\ linked \in [Conns -> BOOLEAN] /\ flight \in [Conns -> BOOLEAN] /\ op \in [Conns -> Ops]
      /\ events \in [Conns -> Seq(Queued)] /\ worker \in [Conns -> Writers]
      /\ Ordered(events[c]) /\ None \notin Sending /\ "cancel" # None
  BY QueuesOrdered DEF Typed, SetsAssumption, Sending
<1>1. linked[c] => linked'[c]
  <2>1. linked' = linked \/ linked' = Set(linked, c, TRUE)  BY StepMoves
  <2> QED  BY <1>0, <2>1 DEF Set
<1>2. flight'[c] => flight[c] \/ op[c] \in Sending \ {"link"}
  BY <1>0 DEF Step, Spawn, Insert, disconnect, AgentDies, Cleanup, Loop, LoopDisconnect,
              LoopPrompt, LoopCancel, Completes, TurnEnds, SendStart, Sender, SendLink,
              SendStatus, SendLookup, SendEnqueue, SendRollback, CancelRow, SenderFails,
              RollbackFails, CancelRowFails, SendDropped, CancelStart, Worker, WorkerLinked,
              WorkerComplete, WorkerWrite, WorkerTerminal, WorkerMisses, WorkerFails,
              TerminalFails, EventLost, conns, Set, Sending
<1>3. op'[c] \in Sending \ {"link"} => op[c] \in Sending \ {"link"} \/ linked'[c]
  BY <1>0 DEF Step, Spawn, Insert, disconnect, AgentDies, Cleanup, Loop, LoopDisconnect,
              LoopPrompt, LoopCancel, Completes, TurnEnds, SendStart, Sender, SendLink,
              SendStatus, Admit, SendLookup, SendEnqueue, SendRollback, CancelRow, SenderFails,
              RollbackFails, CancelRowFails, SendDropped, CancelStart, Worker, WorkerLinked,
              WorkerComplete, WorkerWrite, WorkerTerminal, WorkerMisses, WorkerFails,
              TerminalFails, EventLost, conns, Set, Sending
<1>4. HasEnd(c)' => HasEnd(c) \/ linked[c]
  <2>1. CASE events' = events /\ worker' = worker  BY <2>1 DEF HasEnd
  <2>2. CASE worker' = worker /\ \E e \in {"linked", "terminal"} : events'[c] = Append(events[c], e)
    BY <1>0, <2>2 DEF HasEnd, Ordered, Final
  <2>3. CASE turn[c]  BY <2>3 DEF Prompt, Bonded
  <2>4. CASE WorkerLinked(c) \/ WorkerTerminal(c) \/ TerminalFails(c) \/ EventLost(c)
    <3>1. events[c] # <<>> /\ events'[c] = Tail(events[c]) /\ worker'[c].write = worker[c].write
      BY <1>0, <2>4 DEF WorkerLinked, WorkerTerminal, TerminalFails, EventLost, Set, Writers
    <3> QED  BY <1>0, <3>1 DEF HasEnd, Ordered
  <2>5. CASE WorkerComplete(c)
    <3>1. events[c] # <<>> /\ events'[c] = Tail(events[c])
          /\ worker'[c].write = HandledAs(c, Head(events[c]))
      BY <1>0, <2>5 DEF WorkerComplete, Set, Writers
    <3> QED  BY <1>0, <3>1 DEF HasEnd, Ordered, HandledAs
  <2>6. CASE WorkerWrite(c) \/ WorkerFails(c)
    BY <2>6 DEF WorkerWrite, WorkerFails, HasEnd
  <2>7. CASE AgentDies(c) \/ LoopDisconnect(c) \/ (SendLink(c) /\ ~linked[c])
    <3>1. worker' = worker /\ (events' = Push(events, c, "terminal") \/ events' = Push(events, c, "linked"))
      BY <2>7 DEF AgentDies, LoopDisconnect, Ends, SendLink
    <3>2. events'[c] = Append(events[c], "terminal") \/ events'[c] = Append(events[c], "linked")
      BY <1>0, <3>1 DEF Push
    <3> QED  BY <2>2, <3>1, <3>2
  <2>8. CASE ~(turn[c] \/ Worker(c) \/ WorkerMisses(c) \/ AgentDies(c) \/ LoopDisconnect(c)
               \/ (SendLink(c) /\ ~linked[c]))
    BY <2>1, <2>8 DEF Step, Spawn, Insert, disconnect, Cleanup, Loop, LoopPrompt, LoopCancel,
                      TurnEnds, SendStart, Sender, SendLink, SendStatus, SendLookup, SendEnqueue,
                      SendRollback, CancelRow, SenderFails, RollbackFails, CancelRowFails,
                      SendDropped, CancelStart, conns
  <2> QED  BY <2>3, <2>4, <2>5, <2>6, <2>7, <2>8 DEF Worker, WorkerMisses
<1> QED  BY <1>1, <1>2, <1>3, <1>4 DEF Bonded

\* A connection out of the map is told to close; nothing but a link comes after the
\* terminal event.
Closing(c) ==
  /\ "disconnect" \in Elems(cmds[c]) => ~known[c]
  /\ phase[c] = "live" /\ ~known[c] => "disconnect" \in Elems(cmds[c])
Order(c) ==
  /\ Cut(c) => phase[c] = "over"
  /\ phase[c] = "over" /\ HasEnd(c) => Cut(c)
  /\ \A e \in Queued \ {"linked"} : ~Behind(events[c], "terminal", e)

LEMMA ClosingStep ==
  ASSUME SetsAssumption, Bound = {}, Typed, NEW c \in Conns, Step(c), Young(c), Closing(c)
  PROVE  Closing(c)'
<1> USE DEF Closing
<1>0. /\ phase \in [Conns -> {"none", "building", "live", "over"}] /\ known \in [Conns -> BOOLEAN]
      /\ cmds \in [Conns -> Seq(Cmds)] /\ Ordered(cmds[c])
  BY QueuesOrdered DEF Typed
<1>1. CASE phase' = phase /\ known' = known /\ cmds' = cmds  BY <1>1
<1>2. CASE Spawn(c)
  <2>1. phase'[c] = "building" /\ known' = known /\ cmds' = cmds  BY <1>0, <1>2 DEF Spawn, Set
  <2> QED  BY <2>1
<1>3. CASE Insert(c)
  <2>1. phase'[c] = "live" /\ known'[c] = TRUE /\ cmds'[c] = <<>>
    BY <1>0, <1>3 DEF Insert, Set, Young
  <2> QED  BY <2>1, NoneOrdered
<1>4. CASE disconnect(c)
  <2>1. known'[c] = FALSE /\ phase' = phase /\ (phase[c] = "live" => cmds' = Push(cmds, c, "disconnect"))
    BY <1>0, <1>4 DEF disconnect, Set
  <2>2. phase[c] = "live" => cmds'[c] = Append(cmds[c], "disconnect")  BY <1>0, <2>1 DEF Push
  <2>3. phase[c] = "live" => "disconnect" \in Elems(cmds'[c])  BY <1>0, <2>2 DEF Ordered
  <2> QED  BY <2>1, <2>3
<1>5. CASE Ends(c) /\ known' = known
  <2>1. phase'[c] = "over" /\ cmds'[c] = <<>>  BY <1>0, <1>5 DEF Ends, Set
  <2> QED  BY <2>1, NoneOrdered
<1>6. CASE Cleanup(c)
  <2>1. phase' = phase /\ phase[c] = "over" /\ known'[c] = FALSE  BY <1>0, <1>6 DEF Cleanup, Set
  <2> QED  BY <2>1
<1>7. CASE LoopPrompt(c) \/ LoopCancel(c)
  <2>1. /\ cmds[c] # <<>> /\ Head(cmds[c]) # "disconnect" /\ cmds'[c] = Tail(cmds[c])
        /\ phase' = phase /\ known' = known
    BY <1>0, <1>7 DEF LoopPrompt, LoopCancel, Completes, Set, conns
  <2> QED  BY <1>0, <2>1 DEF Ordered
<1>8. CASE \E e \in {"prompt", "cancel"} : cmds' = Push(cmds, c, e) /\ phase' = phase /\ known' = known
  <2>1. PICK e \in {"prompt", "cancel"} : cmds'[c] = Append(cmds[c], e)
    BY <1>0, <1>8 DEF Push
  <2> QED  BY <1>0, <1>8, <2>1 DEF Ordered
<1>9. CASE AgentDies(c) \/ LoopDisconnect(c)  BY <1>5, <1>9 DEF AgentDies, LoopDisconnect
<1>10. CASE ~(Spawn(c) \/ Insert(c) \/ disconnect(c) \/ AgentDies(c) \/ Cleanup(c) \/ Loop(c))
  BY <1>1, <1>8, <1>10 DEF Step, TurnEnds, Completes, SendStart, Sender, SendLink, SendStatus,
                           SendLookup, SendEnqueue, SendRollback, CancelRow, SenderFails,
                           RollbackFails, CancelRowFails, SendDropped, CancelStart, Worker,
                           WorkerLinked, WorkerComplete, WorkerWrite, WorkerTerminal,
                           WorkerMisses, WorkerFails, TerminalFails, EventLost, conns
<1> QED  BY <1>2, <1>3, <1>4, <1>6, <1>7, <1>9, <1>10 DEF Loop

\* What a step does to the events of its connection and to what is being written.
LEMMA EventMoves ==
  ASSUME SetsAssumption, Bound = {}, Typed, NEW c \in Conns, Step(c)
  PROVE  \/ events'[c] = events[c] /\ worker'[c] = worker[c]
         \/ /\ Ends(c) /\ phase[c] = "live" /\ events'[c] = Append(events[c], "terminal")
            /\ worker'[c] = worker[c]
         \/ /\ turn[c] /\ worker'[c] = worker[c] /\ phase'[c] = phase[c]
            /\ flight'[c] = FALSE /\ op'[c] = op[c]
            /\ \E e \in {"end_turn", "refusal", "cancelled"} : events'[c] = Append(events[c], e)
         \/ /\ SendLink(c) /\ ~linked[c] /\ events'[c] = Append(events[c], "linked")
            /\ worker'[c] = worker[c]
         \/ Worker(c) \/ WorkerMisses(c)
<1>0. events \in [Conns -> Seq(Queued)] /\ flight \in [Conns -> BOOLEAN]  BY DEF Typed
<1>1. CASE Ends(c) /\ phase[c] = "live" /\ worker' = worker  BY <1>0, <1>1 DEF Ends, Push
<1>2. CASE turn[c] /\ (TurnEnds(c) \/ LoopCancel(c))
  <2>1. PICK e \in {"end_turn", "refusal", "cancelled"} : Completes(c, e)
    BY <1>2 DEF TurnEnds, LoopCancel
  <2>2. events'[c] = Append(events[c], e) /\ flight'[c] = FALSE
    BY <1>0, <2>1 DEF Completes, Push, Set
  <2> QED  BY <1>2, <2>1, <2>2 DEF Completes
<1>3. CASE SendLink(c) /\ ~linked[c]  BY <1>0, <1>3 DEF SendLink, Push
<1>4. CASE events' = events /\ worker' = worker  BY <1>4
<1>5. CASE ~(AgentDies(c) \/ LoopDisconnect(c) \/ TurnEnds(c) \/ (LoopCancel(c) /\ turn[c])
             \/ (SendLink(c) /\ ~linked[c]) \/ Worker(c) \/ WorkerMisses(c))
  BY <1>4, <1>5 DEF Step, Spawn, Insert, disconnect, Cleanup, Loop, LoopPrompt, LoopCancel,
       SendStart, Sender, SendLink, SendStatus, SendLookup, SendEnqueue, SendRollback, CancelRow,
       SenderFails, RollbackFails, CancelRowFails, SendDropped, CancelStart, conns
<1>6. AgentDies(c) \/ LoopDisconnect(c) => Ends(c) /\ phase[c] = "live" /\ worker' = worker
  BY DEF AgentDies, LoopDisconnect
<1> QED  BY <1>1, <1>2, <1>3, <1>5, <1>6 DEF TurnEnds

\* How the worker takes an event, and what is left to write after that.
LEMMA WorkerTakes ==
  ASSUME SetsAssumption, Typed, NEW c \in Conns, Worker(c) \/ WorkerMisses(c)
  PROVE  /\ UNCHANGED <<conns, cmds, op, last>>
         /\ \/ /\ events'[c] = events[c] /\ worker[c].write # None
               /\ worker'[c].write \in {None, worker[c].write} /\ worker'[c].cached = worker[c].cached
            \/ /\ events[c] # <<>> /\ events'[c] = Tail(events[c]) /\ worker[c].write = None
               /\ \/ /\ Head(events[c]) = "linked" /\ worker'[c].write = None
                     /\ worker'[c].cached = (worker[c].cached \/ known[c])
                  \/ /\ Head(events[c]) = "terminal" /\ worker'[c].write = None
                     /\ worker'[c].cached = FALSE
                  \/ /\ Head(events[c]) \in {"end_turn", "refusal", "cancelled"}
                     /\ worker'[c].write = HandledAs(c, Head(events[c]))
                     /\ worker'[c].cached = worker[c].cached
                  \/ /\ TakenBy(Head(events[c])) \subseteq missing' /\ worker'[c] = worker[c]
<1>0. events \in [Conns -> Seq(Queued)] /\ worker \in [Conns -> Writers] /\ worker[c] \in Writers
  BY DEF Typed
<1>1. UNCHANGED <<conns, cmds, op, last>>
  BY DEF Worker, WorkerLinked, WorkerComplete, WorkerWrite, WorkerTerminal, WorkerMisses,
         WorkerFails, TerminalFails, EventLost
<1>2. CASE WorkerLinked(c)
  BY <1>0, <1>1, <1>2 DEF WorkerLinked, Set, Writers
<1>3. CASE WorkerComplete(c)
  <2>1. Head(events[c]) \in Queued  BY <1>0, <1>3 DEF WorkerComplete
  <2>2. /\ events[c] # <<>> /\ Head(events[c]) \notin {"linked", "terminal"} /\ worker[c].write = None
        /\ events'[c] = Tail(events[c]) /\ worker'[c].write = HandledAs(c, Head(events[c]))
        /\ worker'[c].cached = worker[c].cached
    BY <1>0, <1>3 DEF WorkerComplete, Set, Writers
  <2> QED  BY <1>1, <2>1, <2>2 DEF Queued
<1>4. CASE WorkerTerminal(c)
  BY <1>0, <1>1, <1>4 DEF WorkerTerminal, Set, Writers
<1>5. CASE WorkerWrite(c) \/ WorkerFails(c)
  BY <1>0, <1>1, <1>5 DEF WorkerWrite, WorkerFails, Retried, Writers
<1>6. CASE TerminalFails(c)
  BY <1>0, <1>1, <1>6 DEF TerminalFails, Set, Writers
<1>7. CASE EventLost(c)
  BY <1>0, <1>1, <1>7 DEF EventLost, Set
<1> QED  BY <1>2, <1>3, <1>4, <1>5, <1>6, <1>7 DEF Worker, WorkerMisses

LEMMA OrderStep ==
  ASSUME SetsAssumption, Bound = {}, Typed, NEW c \in Conns, Step(c), Prompt(c), Young(c), Order(c)
  PROVE  Order(c)'
<1> USE DEF Order
<1>0. /\ phase \in [Conns -> {"none", "building", "live", "over"}]
      /\ events \in [Conns -> Seq(Queued)] /\ Ordered(events[c])
  BY QueuesOrdered DEF Typed
<1>1. CASE events'[c] = events[c] /\ worker'[c] = worker[c]
  <2>1. CASE phase'[c] = phase[c]  BY <1>1, <2>1 DEF Cut, HasEnd
  <2>2. CASE phase[c] \in {"none", "building"}
    <3>1. events'[c] = <<>> /\ worker'[c].write = None  BY <1>1, <2>2 DEF Young
    <3> QED  BY <3>1, NoneOrdered DEF Cut, HasEnd
  <2>3. phase'[c] = phase[c] \/ phase[c] \in {"none", "building"} \/ AgentDies(c) \/ LoopDisconnect(c)
    BY <1>0 DEF Step, Spawn, Insert, disconnect, Cleanup, Loop, LoopPrompt, LoopCancel, Completes,
                TurnEnds, SendStart, Sender, SendLink, SendStatus, SendLookup, SendEnqueue,
                SendRollback, CancelRow, SenderFails, RollbackFails, CancelRowFails, SendDropped,
                CancelStart, Worker, WorkerLinked, WorkerComplete, WorkerWrite, WorkerTerminal,
                WorkerMisses, WorkerFails, TerminalFails, EventLost, conns
  <2>4. CASE AgentDies(c) \/ LoopDisconnect(c)
    <3>1. events'[c] = Append(events[c], "terminal")
      BY <1>0, <2>4 DEF AgentDies, LoopDisconnect, Ends, Push
    <3>2. "terminal" \in Elems(events[c]) /\ phase[c] = "live"
      BY <1>0, <1>1, <2>4, <3>1 DEF AgentDies, LoopDisconnect, Ordered
    <3> QED  BY <3>2 DEF Cut
  <2> QED  BY <2>1, <2>2, <2>3, <2>4
<1>2. CASE Ends(c) /\ phase[c] = "live" /\ events'[c] = Append(events[c], "terminal")
  <2>1. phase'[c] = "over" /\ ~Cut(c)  BY <1>0, <1>2 DEF Ends, Set
  <2> QED  BY <1>0, <1>2, <2>1 DEF Cut, HasEnd, Ordered
<1>3. CASE turn[c] /\ worker'[c] = worker[c] /\ phase'[c] = phase[c]
           /\ \E e \in {"end_turn", "refusal", "cancelled"} : events'[c] = Append(events[c], e)
  <2>1. phase[c] = "live" /\ ~Cut(c)  BY <1>3 DEF Prompt
  <2> QED  BY <1>0, <1>3, <2>1 DEF Cut, HasEnd, Ordered
<1>4. CASE SendLink(c) /\ events'[c] = Append(events[c], "linked") /\ worker'[c] = worker[c]
  <2>1. phase' = phase  BY <1>4 DEF SendLink
  <2>2. /\ Cut(c)' <=> Cut(c)
        /\ HasEnd(c)' <=> HasEnd(c)
        /\ \A e \in Queued \ {"linked"} : ~Behind(events'[c], "terminal", e)
    BY <1>0, <1>4 DEF Cut, HasEnd, Ordered, Final
  <2> QED  BY <2>1, <2>2
<1>5. CASE Worker(c) \/ WorkerMisses(c)
  <2>0. phase' = phase  BY <1>5, WorkerTakes DEF conns
  <2>1. CASE events'[c] = events[c] /\ worker[c].write # None
    <3>1. HasEnd(c)' => HasEnd(c)  BY <2>1 DEF HasEnd
    <3> QED  BY <2>0, <2>1, <3>1 DEF Cut
  <2>2. CASE /\ events[c] # <<>> /\ events'[c] = Tail(events[c])
             /\ \/ worker'[c].write = None
                \/ /\ Head(events[c]) \in {"end_turn", "refusal", "cancelled"}
                   /\ worker'[c].write = HandledAs(c, Head(events[c]))
    <3>1. \A e \in Queued \ {"linked"} : ~Behind(events'[c], "terminal", e)
      BY <1>0, <2>2 DEF Ordered
    <3>2. Cut(c)' => Cut(c)  BY <1>0, <2>2 DEF Cut, Ordered
    <3>3. CASE Head(events[c]) # "terminal"
      <4>1. Cut(c) => Cut(c)'  BY <1>0, <2>2, <3>3 DEF Cut, Ordered
      <4>2. HasEnd(c)' => HasEnd(c)
        BY <1>0, <2>2 DEF HasEnd, Ordered, HandledAs, Target, Final
      <4> QED  BY <2>0, <3>1, <3>2, <4>1, <4>2
    <3>4. CASE Head(events[c]) = "terminal"
      <4>1. worker'[c].write = None  BY <2>2, <3>4
      <4>2. \A e \in Final : e \notin Elems(events'[c])
        BY <1>0, <2>2, <3>4 DEF Ordered, Final, Queued
      <4> QED  BY <2>0, <3>1, <3>2, <4>1, <4>2 DEF HasEnd
    <3> QED  BY <3>3, <3>4
  <2> QED  BY <1>5, <2>1, <2>2, WorkerTakes
<1> QED  BY <1>1, <1>2, <1>3, <1>4, <1>5, EventMoves

\* The worker knows the link of a connection before it is told of an end, and so does
\* it cancel the row when the connection closes in a turn.
Needs(c)  == flight[c] \/ HasEnd(c) \/ op[c] = "reserve" \/ (known[c] /\ linked[c])
Caches(c) ==
  /\ phase[c] = "live" /\ Needs(c) => worker[c].cached \/ (known[c] /\ "linked" \in Elems(events[c]))
  /\ Cut(c) /\ (flight[c] \/ HasEnd(c)) => worker[c].cached
Cached(c) == "link" \notin missing => Caches(c)

\* A closed connection has no link waiting: either it was out of the map or MayClose
\* said so.
LEMMA ClosedCached ==
  ASSUME "link" \notin Early, NEW c \in Conns, Caches(c), phase[c] = "live", Needs(c),
         ~known[c] \/ MayClose(c)
  PROVE  worker[c].cached
BY DEF Caches, MayClose

LEMMA CachedSends ==
  ASSUME SetsAssumption, Typed, NEW c \in Conns,
         SendStart(c) \/ Sender(c) \/ SenderFails(c) \/ SendDropped(c) \/ CancelStart(c),
         Prompt(c), Bonded(c), Order(c), Caches(c)
  PROVE  Caches(c)'
<1> USE DEF Caches, Needs
<1>0. /\ phase \in [Conns -> {"none", "building", "live", "over"}] /\ op \in [Conns -> Ops]
      /\ flight \in [Conns -> BOOLEAN] /\ linked \in [Conns -> BOOLEAN]
      /\ events \in [Conns -> Seq(Queued)] /\ Ordered(events[c]) /\ None # "reserve"
  BY QueuesOrdered DEF Typed, SetsAssumption
<1>1. CASE SendLink(c)
  <2>0. /\ phase' = phase /\ known' = known /\ flight' = flight /\ worker' = worker
        /\ op[c] = "link" /\ op'[c] = "status"
    BY <1>0, <1>1 DEF SendLink, Set
  <2>1. CASE linked[c]
    <3>1. linked' = linked /\ events' = events  BY <1>1, <2>1 DEF SendLink
    <3> QED  BY <2>0, <3>1 DEF Cut, HasEnd
  <2>2. CASE ~linked[c]
    <3>1. linked'[c] = TRUE /\ events'[c] = Append(events[c], "linked")
      BY <1>0, <1>1, <2>2 DEF SendLink, Set, Push
    <3>2. ~flight[c] /\ ~HasEnd(c)  BY <2>2 DEF Bonded
    <3>3. ~HasEnd(c)' /\ "linked" \in Elems(events'[c])
      BY <1>0, <2>0, <3>1, <3>2 DEF HasEnd, Ordered, Final
    <3> QED  BY <2>0, <3>2, <3>3
  <2> QED  BY <2>1, <2>2
<1>2. CASE SendEnqueue(c)
  <2>0. /\ phase' = phase /\ known' = known /\ linked' = linked /\ worker' = worker /\ events' = events
        /\ op[c] = "reserve" /\ (HasEnd(c)' <=> HasEnd(c))
    BY <1>2 DEF SendEnqueue, HasEnd
  <2>1. CASE phase[c] = "over"
    <3>1. flight' = flight  BY <1>2, <2>1 DEF SendEnqueue
    <3> QED  BY <2>0, <2>1, <3>1 DEF Cut
  <2>2. CASE phase[c] # "over"
    <3>1. ~Cut(c)  BY <2>2 DEF Order
    <3> QED  BY <2>0, <2>2, <3>1 DEF Cut
  <2> QED  BY <2>1, <2>2
<1>3. CASE SendLookup(c)
  <2>0. UNCHANGED <<conns, events, worker>>  BY <1>3 DEF SendLookup
  <2>1. linked[c] /\ (op'[c] = "reserve" => known[c])
    BY <1>0, <1>3 DEF SendLookup, Set, Bonded, Sending
  <2> QED  BY <2>0, <2>1 DEF conns, Cut, HasEnd
<1>4. CASE SendStart(c) \/ SendStatus(c) \/ SendRollback(c) \/ CancelRow(c) \/ SenderFails(c) \/ SendDropped(c)
            \/ CancelStart(c)
  <2>0. UNCHANGED <<conns, events, worker>>
    BY <1>4 DEF SendStart, SendStatus, SendRollback, CancelRow, SenderFails, RollbackFails,
                CancelRowFails, SendDropped, CancelStart
  <2>1. op'[c] # "reserve"
    BY <1>0, <1>4 DEF SendStart, SendStatus, Admit, SendRollback, CancelRow, SenderFails,
                      RollbackFails, CancelRowFails, SendDropped, CancelStart, Set
  <2> QED  BY <2>0, <2>1 DEF conns, Cut, HasEnd
<1> QED  BY <1>1, <1>2, <1>3, <1>4 DEF Sender

LEMMA CachedWorks ==
  ASSUME SetsAssumption, Typed, NEW c \in Conns, Worker(c) \/ WorkerMisses(c), Order(c), Caches(c),
         "link" \notin missing'
  PROVE  Caches(c)'
<1> USE DEF Caches, Needs
<1>0. UNCHANGED conns /\ UNCHANGED op /\ Ordered(events[c]) /\ worker[c].cached \in BOOLEAN
  BY WorkerTakes, QueuesOrdered DEF Typed, Writers
<1>1. CASE /\ events'[c] = events[c] /\ worker[c].write # None
           /\ worker'[c].cached = worker[c].cached
  <2>1. HasEnd(c)' => HasEnd(c)  BY <1>1 DEF HasEnd
  <2> QED  BY <1>0, <1>1, <2>1 DEF conns, Cut
<1>2. CASE /\ events[c] # <<>> /\ events'[c] = Tail(events[c])
           /\ Head(events[c]) = "linked" /\ worker[c].write = None /\ worker'[c].write = None
           /\ worker'[c].cached = (worker[c].cached \/ known[c])
  <2>1. HasEnd(c)' => HasEnd(c)  BY <1>0, <1>2 DEF HasEnd, Ordered
  <2>2. Cut(c)' => Cut(c)  BY <1>0, <1>2 DEF Cut, Ordered
  <2> QED  BY <1>0, <1>2, <2>1, <2>2 DEF conns
<1>3. CASE /\ events[c] # <<>> /\ events'[c] = Tail(events[c]) /\ Head(events[c]) = "terminal"
  <2>1. phase[c] = "over"  BY <1>0, <1>3 DEF Order, Cut, Ordered
  <2>2. ~Cut(c)'  BY <1>0, <1>3 DEF Order, Cut, Ordered, Queued
  <2> QED  BY <1>0, <2>1, <2>2 DEF conns
<1>4. CASE /\ events[c] # <<>> /\ events'[c] = Tail(events[c])
           /\ Head(events[c]) \in {"end_turn", "refusal", "cancelled"} /\ worker[c].write = None
           /\ worker'[c].write = HandledAs(c, Head(events[c]))
           /\ worker'[c].cached = worker[c].cached
  <2>1. HasEnd(c)' => HasEnd(c)
    BY <1>0, <1>4 DEF HasEnd, Ordered, HandledAs, Target, Final
  <2>2. Cut(c)' => Cut(c)  BY <1>0, <1>4 DEF Cut, Ordered
  <2>3. "linked" \in Elems(events[c]) => "linked" \in Elems(events'[c])  BY <1>0, <1>4 DEF Ordered
  <2> QED  BY <1>0, <1>4, <2>1, <2>2, <2>3 DEF conns
<1>5. CASE /\ events[c] # <<>> /\ events'[c] = Tail(events[c]) /\ worker'[c] = worker[c]
           /\ Head(events[c]) # "linked"
  <2>1. HasEnd(c)' => HasEnd(c)  BY <1>0, <1>5 DEF HasEnd, Ordered
  <2>2. Cut(c)' => Cut(c)  BY <1>0, <1>5 DEF Cut, Ordered
  <2>3. "linked" \in Elems(events[c]) => "linked" \in Elems(events'[c])  BY <1>0, <1>5 DEF Ordered
  <2> QED  BY <1>0, <1>5, <2>1, <2>2, <2>3 DEF conns
<1>6. TakenBy("linked") = {"link"}  BY DEF TakenBy
<1> QED  BY <1>1, <1>2, <1>3, <1>4, <1>5, <1>6, WorkerTakes

LEMMA CachedStep ==
  ASSUME SetsAssumption, Bound = {}, "link" \notin Early, Typed, NEW c \in Conns, Step(c),
         Prompt(c), Young(c), Bonded(c), Closing(c), Order(c), Caches(c),
         "link" \notin missing'
  PROVE  Caches(c)'
<1>0. /\ phase \in [Conns -> {"none", "building", "live", "over"}] /\ known \in [Conns -> BOOLEAN]
      /\ flight \in [Conns -> BOOLEAN] /\ events \in [Conns -> Seq(Queued)] /\ Ordered(events[c])
      /\ Ordered(cmds[c])
  BY QueuesOrdered DEF Typed
<1>1. CASE Spawn(c) \/ Insert(c)
  <2>1. /\ phase[c] \in {"none", "building"} /\ events' = events /\ worker' = worker
        /\ flight' = flight /\ op' = op /\ linked' = linked
    BY <1>1 DEF Spawn, Insert
  <2>2. /\ ~flight'[c] /\ op'[c] # "reserve" /\ ~linked'[c] /\ events'[c] = <<>>
        /\ worker'[c].write = None
    BY <2>1 DEF Young, SetsAssumption
  <2>3. ~Cut(c)' /\ ~HasEnd(c)'  BY <2>2, NoneOrdered DEF Cut, HasEnd
  <2> QED  BY <2>2, <2>3 DEF Caches, Needs
<1>2. CASE disconnect(c) \/ Cleanup(c)
  <2>1. /\ UNCHANGED <<phase, linked, flight, op, events, worker>> /\ known'[c] = FALSE
        /\ (phase[c] = "live" => MayClose(c))
    BY <1>0, <1>2 DEF disconnect, Cleanup, Set
  <2>2. /\ Cut(c)' <=> Cut(c)
        /\ HasEnd(c)' <=> HasEnd(c)
        /\ Needs(c)' => Needs(c)
    BY <2>1 DEF Cut, HasEnd, Needs
  <2>3. phase[c] = "live" /\ Needs(c) => worker[c].cached  BY <2>1, ClosedCached
  <2> QED  BY <2>1, <2>2, <2>3 DEF Caches
<1>3. CASE AgentDies(c) \/ LoopDisconnect(c)
  <2>1. /\ phase[c] = "live" /\ phase'[c] = "over" /\ flight' = flight /\ worker' = worker
        /\ events'[c] = Append(events[c], "terminal")
    BY <1>0, <1>3 DEF AgentDies, LoopDisconnect, Ends, Set, Push
  <2>2. HasEnd(c)' => HasEnd(c)  BY <1>0, <2>1 DEF HasEnd, Ordered, Final
  <2>3. ~known[c] \/ MayClose(c)
    BY <1>0, <1>3 DEF AgentDies, LoopDisconnect, Closing, Ordered
  <2>4. flight[c] \/ HasEnd(c) => worker[c].cached  BY <2>1, <2>3, ClosedCached DEF Needs
  <2> QED  BY <2>1, <2>2, <2>4 DEF Caches
<1>4. CASE LoopPrompt(c) \/ (LoopCancel(c) /\ ~turn[c])
  <2>1. UNCHANGED <<phase, known, linked, flight, op, events, worker>>
    BY <1>4 DEF LoopPrompt, LoopCancel, conns
  <2> QED  BY <2>1 DEF Caches, Needs, Cut, HasEnd
<1>5. CASE turn[c] /\ (LoopCancel(c) \/ TurnEnds(c))
  <2>1. PICK e \in {"end_turn", "refusal", "cancelled"} : Completes(c, e)
    BY <1>5 DEF TurnEnds, LoopCancel
  <2>2. /\ events'[c] = Append(events[c], e) /\ UNCHANGED <<phase, known, linked, op, worker>>
    BY <1>0, <2>1 DEF Completes, Push
  <2>3. phase[c] = "live" /\ flight[c] /\ ~Cut(c)  BY <1>5 DEF Prompt, Order
  <2>4. ~Cut(c)' /\ ("linked" \in Elems(events[c]) => "linked" \in Elems(events'[c]))
    BY <1>0, <2>2, <2>3 DEF Cut, Ordered
  <2> QED  BY <2>2, <2>3, <2>4 DEF Caches, Needs
<1> QED
  BY <1>1, <1>2, <1>3, <1>4, <1>5, CachedSends, CachedWorks DEF Step, Loop, TurnEnds

\* An ended turn never writes "in_progress".
Ending(c) == worker[c].write # "in_progress"

LEMMA EndingStep ==
  ASSUME SetsAssumption, Typed, NEW c \in Conns, NEW d \in Conns, Step(d), Ending(c)
  PROVE  Ending(c)'
<1>0. worker \in [Conns -> Writers] /\ worker[c] \in Writers  BY DEF Typed, Writers
<1>1. CASE worker'[c] = worker[c]  BY <1>1 DEF Ending
<1>2. CASE d # c
  <2>1. worker'[c] = worker[c]  BY <1>2, WorkerMoves
  <2> QED  BY <1>1, <2>1
<1>3. CASE d = c /\ (Worker(c) \/ WorkerMisses(c))
  <2>1. worker'[c].write \in {None, worker[c].write, HandledAs(c, Head(events[c]))}
    BY <1>3, WorkerTakes
  <2>2. HandledAs(c, Head(events[c])) # "in_progress"
    BY DEF HandledAs, Target, SetsAssumption
  <2> QED  BY <2>1, <2>2 DEF Ending, SetsAssumption
<1>6. worker' = worker \/ Worker(d) \/ WorkerMisses(d)
  BY DEF Step, Spawn, Insert, disconnect, AgentDies, Cleanup, Loop, LoopDisconnect,
         LoopPrompt, LoopCancel, Completes, TurnEnds, SendStart, Sender, SendLink, SendStatus,
         SendLookup, SendEnqueue, SendRollback, CancelRow, SenderFails, RollbackFails,
         CancelRowFails, SendDropped, CancelStart
<1> QED  BY <1>1, <1>2, <1>3, <1>6
LinkInv == TypeInv /\ \A c \in Conns : Young(c) /\ Bonded(c) /\ Closing(c) /\ Order(c)
WireInv == LinkInv /\ \A c \in Conns : Cached(c) /\ Ending(c)

LEMMA LinkStep ==
  ASSUME SetsAssumption, Bound = {}, LinkInv, NEW c \in Conns, Step(c)
  PROVE  LinkInv' /\ \A d \in Conns : d # c => Same(d)
<1>1. TypeInv' /\ \A d \in Conns : d # c => Same(d)  BY TypeStep DEF LinkInv
<1>2. ASSUME NEW d \in Conns  PROVE Young(d)' /\ Bonded(d)' /\ Closing(d)' /\ Order(d)'
  <2>1. CASE d = c
    BY <2>1, YoungStep, BondedStep, ClosingStep, OrderStep DEF LinkInv, TypeInv
  <2>2. CASE d # c
    <3>1. Same(d)  BY <1>1, <2>2
    <3>2. Young(d)' /\ Bonded(d)'  BY <3>1 DEF LinkInv, Same, Young, Bonded, HasEnd
    <3>3. Closing(d)' /\ Order(d)'  BY <3>1 DEF LinkInv, Same, Closing, Order, Cut, HasEnd
    <3> QED  BY <3>2, <3>3
  <2> QED  BY <2>1, <2>2
<1> QED  BY <1>1, <1>2 DEF LinkInv

LEMMA WireStep ==
  ASSUME SetsAssumption, Bound = {}, "link" \notin Early, WireInv, NEW c \in Conns, Step(c)
  PROVE  WireInv' /\ \A d \in Conns : d # c => Same(d)
<1>1. LinkInv' /\ \A d \in Conns : d # c => Same(d)  BY LinkStep DEF WireInv
<1>2. ASSUME NEW d \in Conns  PROVE Cached(d)'
  <2> SUFFICES ASSUME "link" \notin missing'  PROVE Caches(d)'
    BY DEF Cached
  <2>0. Caches(d) /\ Caches(c)
    <3>1. "link" \notin missing  BY MissingMoves DEF WireInv, LinkInv, TypeInv
    <3> QED  BY <3>1 DEF WireInv, Cached
  <2>1. CASE d = c  BY <2>0, <2>1, CachedStep DEF WireInv, LinkInv, TypeInv
  <2>2. CASE d # c
    <3>1. Same(d)  BY <1>1, <2>2
    <3> QED  BY <2>0, <3>1 DEF Same, Caches, Needs, Cut, HasEnd
  <2> QED  BY <2>1, <2>2
<1>3. ASSUME NEW d \in Conns  PROVE Ending(d)'
  BY EndingStep DEF WireInv, LinkInv, TypeInv
<1> QED  BY <1>1, <1>2, <1>3 DEF WireInv

LEMMA WireInit == ASSUME SetsAssumption, Bound = {}, Init  PROVE WireInv
<1>1. ASSUME NEW c \in Conns
      PROVE  Young(c) /\ Bonded(c) /\ Closing(c) /\ Order(c) /\ Cached(c) /\ Ending(c)
  <2>1. /\ phase[c] = "none" /\ known[c] = FALSE /\ linked[c] = FALSE /\ flight[c] = FALSE
        /\ op[c] = None /\ cmds[c] = <<>> /\ events[c] = <<>>
        /\ worker[c] = [cached |-> FALSE, write |-> None, tries |-> 0]
    BY <1>1 DEF Init
  <2>2. ~Cut(c) /\ ~HasEnd(c)  BY <2>1, NoneOrdered DEF Cut, HasEnd
  <2>3. Young(c) /\ Bonded(c)  BY <2>1, <2>2 DEF Young, Bonded, Sending, SetsAssumption
  <2>4. Closing(c) /\ Order(c) /\ Cached(c)
    BY <2>1, <2>2, NoneOrdered DEF Closing, Order, Cached, Caches
  <2>5. Ending(c)  BY <2>1 DEF Ending, SetsAssumption
  <2> QED  BY <2>3, <2>4, <2>5
<1> QED  BY <1>1, TypeInit DEF WireInv, LinkInv

LEMMA LinkStutter == ASSUME LinkInv, UNCHANGED vars  PROVE LinkInv'
BY TypeStutter DEF LinkInv, vars, Young, Bonded, Closing, Order, Cut, HasEnd

LEMMA WireStutter == ASSUME WireInv, UNCHANGED vars  PROVE WireInv'
BY LinkStutter DEF WireInv, vars, Cached, Caches, Needs, Cut, HasEnd, Ending

-------------------------------------------------------------------------------
(* Who will write the row, when it says that a turn is in progress: the holder   *)
(* of a prompt_lock, a turn nobody has cancelled, the worker that has its end to *)
(* write, or the worker that has a closed connection to clear up after.          *)

CancelAhead(c) == \/ turn[c] /\ "cancel" \in Elems(cmds[c])
                  \/ Behind(cmds[c], "prompt", "cancel")
Owes(c) ==
  \/ op[c] \in {"lookup", "reserve", "rollback"}
  \/ op[c] = "cancel" /\ linked[c]
  \/ phase[c] = "live" /\ flight[c] /\ ~CancelAhead(c)
  \/ known[c] /\ HasEnd(c)
  \/ worker[c].cached /\ (Cut(c) \/ (phase[c] = "live" /\ ~known[c]))
Owed == missing = {} /\ row = "in_progress" => \E c \in Conns : Owes(c)

LEMMA OwesSends ==
  ASSUME SetsAssumption, Bound = {}, missing' = {}, WireInv, NEW c \in Conns,
         SendStart(c) \/ Sender(c) \/ SenderFails(c) \/ SendDropped(c) \/ CancelStart(c), Owes(c)
  PROVE  Owes(c)' \/ row' # "in_progress"
<1>0. /\ phase \in [Conns -> {"none", "building", "live", "over"}] /\ op \in [Conns -> Ops]
      /\ flight \in [Conns -> BOOLEAN] /\ linked \in [Conns -> BOOLEAN]
      /\ cmds \in [Conns -> Seq(Cmds)] /\ Ordered(cmds[c])
      /\ events \in [Conns -> Seq(Queued)] /\ Ordered(events[c])
  BY QueuesOrdered DEF WireInv, LinkInv, TypeInv, Typed
<1>1. Prompt(c) /\ Young(c) /\ Bonded(c)  BY DEF WireInv, LinkInv, TypeInv
<1>2. ~SenderFails(c) /\ (SendDropped(c) => op[c] \in {"link", "status"})
  BY NoneMissed DEF WireInv, LinkInv, TypeInv
<1>3. CASE SendRollback(c) \/ CancelRow(c)
  <2>1. CASE (op[c] = "cancel" /\ linked[c]) \/ SendRollback(c)
    BY <1>3, <2>1 DEF SendRollback, CancelRow, CancelledRow, SetsAssumption
  <2>2. CASE CancelRow(c) /\ ~linked[c]
    <3>1. /\ UNCHANGED <<phase, known, linked, flight, turn, cmds, events, worker>>
          /\ op[c] = "cancel"
      BY <2>2 DEF CancelRow, conns
    <3> QED  BY <2>2, <3>1 DEF Owes, CancelAhead, HasEnd, Cut
  <2> QED  BY <1>3, <2>1, <2>2 DEF CancelRow
<1>4. CASE SendStart(c) \/ SendStatus(c) \/ SendDropped(c)
  <2>1. UNCHANGED <<phase, known, linked, flight, turn, cmds, events, worker>>
        /\ op[c] \in {None, "link", "status"}
    BY <1>2, <1>4 DEF SendStart, SendStatus, Admit, SendDropped, conns
  <2>2. op[c] \notin {"lookup", "reserve", "rollback", "cancel"}  BY <2>1 DEF SetsAssumption
  <2> QED  BY <2>1, <2>2 DEF Owes, CancelAhead, HasEnd, Cut
<1>5. CASE SendLink(c)
  <2>1. /\ UNCHANGED <<phase, known, flight, turn, cmds, worker>> /\ op[c] = "link"
    BY <1>5 DEF SendLink
  <2>2. events'[c] = events[c] \/ events'[c] = Append(events[c], "linked")
    BY <1>0, <1>5 DEF SendLink, Push
  <2>3. Elems(events[c]) \subseteq Elems(events'[c])  BY <1>0, <2>2 DEF Ordered
  <2>4. (HasEnd(c) => HasEnd(c)') /\ (Cut(c) => Cut(c)')  BY <2>1, <2>3 DEF HasEnd, Cut
  <2> QED  BY <2>1, <2>4 DEF Owes, CancelAhead
<1>6. CASE SendLookup(c)
  <2>1. op'[c] \in {"reserve", "rollback"}  BY <1>0, <1>6 DEF SendLookup, Set
  <2> QED  BY <2>1 DEF Owes
<1>7. CASE SendEnqueue(c)
  <2>1. CASE phase[c] = "over"
    <3>1. op'[c] = "rollback"  BY <1>0, <1>7, <2>1 DEF SendEnqueue, Set
    <3> QED  BY <3>1 DEF Owes
  <2>2. CASE phase[c] # "over"
    <3>1. /\ op[c] = "reserve" /\ phase' = phase /\ turn' = turn /\ flight'[c] = TRUE
          /\ cmds'[c] = Append(cmds[c], "prompt")
      BY <1>0, <1>7, <2>2 DEF SendEnqueue, Set, Push
    <3>2. phase[c] = "live"
      BY <1>0, <1>1, <2>2, <3>1 DEF Young, SetsAssumption
    <3>3. ~turn[c] /\ "prompt" \notin Elems(cmds[c]) /\ ~Behind(cmds[c], "prompt", "cancel")
      <4>1. ~flight[c]  BY <1>1, <3>1 DEF Prompt, Sending
      <4>2. ~turn[c] /\ "prompt" \notin Elems(cmds[c])  BY <1>1, <4>1 DEF Prompt
      <4> QED  BY <4>2 DEF Behind, Elems
    <3>4. ~CancelAhead(c)'  BY <1>0, <3>1, <3>3 DEF CancelAhead, Ordered
    <3> QED  BY <3>1, <3>2, <3>4 DEF Owes
  <2> QED  BY <2>1, <2>2
<1>8. CASE CancelStart(c)
  <2>1. /\ op[c] = None /\ phase[c] = "live" /\ op'[c] = "cancel"
        /\ UNCHANGED <<phase, known, linked, flight, turn, events, worker>>
    BY <1>0, <1>8 DEF CancelStart, Set, conns
  <2>2. CASE linked[c]  BY <2>1, <2>2 DEF Owes
  <2>3. CASE ~linked[c]
    <3>1. ~flight[c]  BY <1>1, <2>3 DEF Bonded
    <3> QED  BY <2>1, <2>3, <3>1 DEF Owes, HasEnd, Cut, SetsAssumption
  <2> QED  BY <2>2, <2>3
<1> QED  BY <1>2, <1>3, <1>4, <1>5, <1>6, <1>7, <1>8 DEF Sender

LEMMA OwesWorks ==
  ASSUME SetsAssumption, missing' = {}, WireInv, NEW c \in Conns,
         Worker(c) \/ WorkerMisses(c), Owes(c)
  PROVE  Owes(c)' \/ row' # "in_progress"
<1>0. /\ worker \in [Conns -> Writers] /\ worker[c] \in Writers /\ Ordered(events[c])
      /\ events \in [Conns -> Seq(Queued)]
      /\ Bonded(c) /\ Ending(c) /\ UNCHANGED <<conns, cmds, op, last>>
  BY QueuesOrdered, WorkerTakes DEF WireInv, LinkInv, TypeInv, Typed
<1>1. CASE /\ known[c] /\ HasEnd(c)' /\ UNCHANGED conns
  BY <1>1 DEF Owes, conns
<1>2. CASE /\ (known[c] /\ HasEnd(c) => HasEnd(c)') /\ (Cut(c) => Cut(c)')
           /\ (worker[c].cached => worker'[c].cached)
  BY <1>0, <1>2 DEF Owes, CancelAhead, conns
<1>3. CASE WorkerLinked(c)
  <2>1. /\ events[c] # <<>> /\ Head(events[c]) = "linked" /\ events'[c] = Tail(events[c])
        /\ worker[c].write = None /\ (worker[c].cached => worker'[c].cached)
    BY <1>0, <1>3 DEF WorkerLinked, Set, Writers
  <2>2. \A e \in Final \cup {"terminal"} : e \in Elems(events[c]) => e \in Elems(events'[c])
    BY <1>0, <2>1 DEF Ordered, Final
  <2> QED  BY <1>2, <2>1, <2>2 DEF HasEnd, Cut
<1>4. CASE WorkerComplete(c)
  <2>1. /\ events[c] # <<>> /\ Head(events[c]) \notin {"linked", "terminal"}
        /\ events'[c] = Tail(events[c]) /\ worker[c].write = None
        /\ worker'[c].write = HandledAs(c, Head(events[c])) /\ worker'[c].cached = worker[c].cached
    BY <1>0, <1>4 DEF WorkerComplete, Set, Writers
  <2>2. Cut(c) => Cut(c)'  BY <1>0, <2>1 DEF Cut, Ordered
  <2>3. ASSUME known[c], HasEnd(c)  PROVE HasEnd(c)'
    <3>1. linked[c]  BY <1>0, <2>3 DEF Bonded
    <3>2. CASE Head(events[c]) \in Final
      <4>1. worker'[c].write # None
        BY <2>1, <2>3, <3>1, <3>2 DEF HandledAs, Target, Final, SetsAssumption
      <4> QED  BY <4>1 DEF HasEnd
    <3>3. CASE Head(events[c]) \notin Final
      <4>1. PICK e \in Final : e \in Elems(events[c])  BY <2>1, <2>3 DEF HasEnd
      <4>2. e \in Elems(events'[c])  BY <1>0, <2>1, <3>3, <4>1 DEF Ordered
      <4> QED  BY <4>2 DEF HasEnd
    <3> QED  BY <3>2, <3>3
  <2> QED  BY <1>2, <2>1, <2>2, <2>3
<1>5. CASE WorkerWrite(c)
  BY <1>0, <1>5 DEF WorkerWrite, Ending
<1>6. CASE WorkerTerminal(c)
  <2>1. CASE worker[c].cached
    BY <1>6, <2>1 DEF WorkerTerminal, SetsAssumption
  <2>2. CASE ~worker[c].cached
    <3>1. /\ events[c] # <<>> /\ Head(events[c]) = "terminal" /\ events'[c] = Tail(events[c])
          /\ worker[c].write = None
      BY <1>0, <1>6 DEF WorkerTerminal, Set
    <3>2. \A e \in Final : e \in Elems(events[c]) => e \in Elems(events'[c])
      BY <1>0, <3>1 DEF Ordered, Final
    <3>3. HasEnd(c) => HasEnd(c)'  BY <3>1, <3>2 DEF HasEnd
    <3> QED  BY <1>0, <2>2, <3>3 DEF Owes, CancelAhead, conns
  <2> QED  BY <2>1, <2>2
<1>7. CASE WorkerFails(c) /\ worker[c].tries < 2
  <2>1. /\ worker[c].write # None /\ worker'[c].write = Retried(c) /\ events' = events
        /\ worker'[c].cached = worker[c].cached
    BY <1>0, <1>7 DEF WorkerFails, Writers
  <2>2. known[c] => HasEnd(c)'  BY <1>7, <2>1 DEF Retried, HasEnd
  <2> QED  BY <1>2, <2>1, <2>2 DEF Cut
<1>8. CASE EventLost(c) /\ Head(events[c]) = "cancelled"
  <2>1. events[c] # <<>> /\ events'[c] = Tail(events[c]) /\ worker' = worker
    BY <1>0, <1>8 DEF EventLost, Set
  <2>2. \A e \in Final \cup {"terminal"} : e \in Elems(events[c]) => e \in Elems(events'[c])
    BY <1>0, <1>8, <2>1 DEF Ordered, Final
  <2> QED  BY <1>2, <2>1, <2>2 DEF HasEnd, Cut
<1>9. WorkerMisses(c) => \/ WorkerFails(c) /\ worker[c].tries < 2
                         \/ EventLost(c) /\ Head(events[c]) = "cancelled"
  BY NoneMissed DEF WireInv, LinkInv, TypeInv
<1> QED  BY <1>3, <1>4, <1>5, <1>6, <1>7, <1>8, <1>9 DEF Worker

LEMMA OwesStep ==
  ASSUME SetsAssumption, Bound = {}, "link" \notin Early, missing = {}, missing' = {},
         WireInv, NEW c \in Conns, Step(c), Owes(c)
  PROVE  Owes(c)' \/ row' # "in_progress"
<1>0. /\ phase \in [Conns -> {"none", "building", "live", "over"}] /\ known \in [Conns -> BOOLEAN]
      /\ cmds \in [Conns -> Seq(Cmds)] /\ Ordered(cmds[c]) /\ turn \in [Conns -> BOOLEAN]
      /\ events \in [Conns -> Seq(Queued)] /\ Ordered(events[c])
  BY QueuesOrdered DEF WireInv, LinkInv, TypeInv, Typed
<1>1. Prompt(c) /\ Young(c) /\ Bonded(c) /\ Closing(c) /\ Order(c) /\ Caches(c)
  BY DEF WireInv, LinkInv, TypeInv, Cached
<1>2. CASE Spawn(c) \/ Insert(c)
  <2>1. phase[c] \in {"none", "building"}  BY <1>2 DEF Spawn, Insert
  <2>2. /\ op[c] = None /\ ~flight[c] /\ ~known[c] /\ ~worker[c].cached  BY <1>1, <2>1 DEF Young
  <2> QED  BY <2>1, <2>2 DEF Owes, SetsAssumption
<1>3. CASE disconnect(c) \/ Cleanup(c)
  <2>1. /\ UNCHANGED <<phase, linked, flight, turn, op, events, worker>>
        /\ known[c] /\ known'[c] = FALSE
        /\ (phase[c] = "live" => MayClose(c))
    BY <1>0, <1>3 DEF disconnect, Cleanup, Set
  <2>2. (HasEnd(c) <=> HasEnd(c)') /\ (Cut(c) <=> Cut(c)')  BY <2>1 DEF HasEnd, Cut
  <2>3. ASSUME ~CancelAhead(c)  PROVE ~CancelAhead(c)' \/ phase[c] # "live"
    <3>1. CASE cmds' = cmds  BY <2>1, <2>3, <3>1 DEF CancelAhead
    <3>2. CASE cmds' = Push(cmds, c, "disconnect")
      <4>1. cmds'[c] = Append(cmds[c], "disconnect")  BY <1>0, <3>2 DEF Push
      <4> QED  BY <1>0, <2>1, <2>3, <4>1 DEF CancelAhead, Ordered
    <3> QED  BY <1>3, <3>1, <3>2 DEF disconnect, Cleanup
  <2>4. phase[c] = "live" /\ HasEnd(c) => worker[c].cached
    BY <1>1, <2>1, ClosedCached DEF Needs
  <2>5. phase[c] = "over" /\ HasEnd(c) => worker[c].cached /\ Cut(c)  BY <1>1 DEF Order, Caches
  <2>6. phase[c] \in {"live", "over"}  BY <1>0, <1>1, <2>1 DEF Young
  <2> QED  BY <2>1, <2>2, <2>3, <2>4, <2>5, <2>6 DEF Owes
<1>4. CASE AgentDies(c) \/ LoopDisconnect(c)
  <2>1. /\ phase[c] = "live" /\ UNCHANGED <<known, linked, flight, op, worker>>
        /\ events'[c] = Append(events[c], "terminal")
    BY <1>0, <1>4 DEF AgentDies, LoopDisconnect, Ends, Push
  <2>2. Cut(c)' /\ (HasEnd(c) => HasEnd(c)')  BY <1>0, <2>1 DEF HasEnd, Cut, Ordered, Final
  <2>3. ~known[c] \/ MayClose(c)
    BY <1>0, <1>1, <1>4 DEF AgentDies, LoopDisconnect, Closing, Ordered
  <2>4. flight[c] => worker[c].cached  BY <1>1, <2>1, <2>3, ClosedCached DEF Needs
  <2> QED  BY <2>1, <2>2, <2>4 DEF Owes
<1>5. CASE LoopPrompt(c)
  <2>1. /\ UNCHANGED <<phase, known, linked, flight, op, events, worker>> /\ turn'[c] = TRUE
        /\ cmds[c] # <<>> /\ Head(cmds[c]) = "prompt" /\ cmds'[c] = Tail(cmds[c])
    BY <1>0, <1>5 DEF LoopPrompt, Set
  <2>2. CancelAhead(c)' => CancelAhead(c)  BY <1>0, <2>1 DEF CancelAhead, Ordered
  <2> QED  BY <2>1, <2>2 DEF Owes, HasEnd, Cut
<1>6. CASE LoopCancel(c) /\ ~turn[c]
  <2>1. /\ UNCHANGED <<phase, known, linked, flight, turn, op, events, worker>>
        /\ cmds[c] # <<>> /\ cmds'[c] = Tail(cmds[c])
    BY <1>0, <1>6 DEF LoopCancel, Set, conns
  <2>2. CancelAhead(c)' => CancelAhead(c)  BY <1>0, <2>1 DEF CancelAhead, Ordered
  <2> QED  BY <2>1, <2>2 DEF Owes, HasEnd, Cut
<1>7. CASE turn[c] /\ (LoopCancel(c) \/ TurnEnds(c))
  <2>1. PICK e \in {"end_turn", "refusal", "cancelled"} :
          Completes(c, e) /\ (LoopCancel(c) \/ e \in Final)
    BY <1>7 DEF TurnEnds, LoopCancel, Final
  <2>2. /\ events'[c] = Append(events[c], e) /\ UNCHANGED <<phase, known, linked, op, worker>>
    BY <1>0, <2>1 DEF Completes, Push
  <2>3. phase[c] = "live" /\ flight[c]  BY <1>1, <1>7 DEF Prompt
  <2>4. (HasEnd(c) => HasEnd(c)') /\ (Cut(c) => Cut(c)')
    BY <1>0, <2>2 DEF HasEnd, Cut, Ordered, Final
  <2>5. CASE e \in Final
    <3>1. HasEnd(c)'  BY <1>0, <2>2, <2>5 DEF HasEnd, Ordered
    <3>2. ~known[c] => worker[c].cached  BY <1>1, <2>3 DEF Caches, Needs
    <3> QED  BY <2>2, <2>3, <3>1, <3>2 DEF Owes
  <2>6. CASE LoopCancel(c)
    <3>1. CancelAhead(c)  BY <1>0, <1>7, <2>6 DEF LoopCancel, CancelAhead, Ordered
    <3> QED  BY <2>2, <2>4, <3>1 DEF Owes
  <2> QED  BY <2>1, <2>5, <2>6
<1>8. CASE TurnEnds(c)  BY <1>7, <1>8 DEF TurnEnds
<1> QED
  BY <1>2, <1>3, <1>4, <1>5, <1>6, <1>7, <1>8, OwesSends, OwesWorks DEF Step, Loop

LEMMA OwedStep ==
  ASSUME SetsAssumption, Bound = {}, "link" \notin Early, WireInv, Owed, NEW c \in Conns, Step(c)
  PROVE  Owed'
<1> SUFFICES ASSUME missing' = {}, row' = "in_progress", op'[c] # "lookup"
             PROVE  \E d \in Conns : Owes(d)'
  BY DEF Owed, Owes
<1>1. missing = {}  BY MissingMoves DEF WireInv, LinkInv, TypeInv
<1>2. row = "in_progress"
  <2> SUFFICES ASSUME row # "in_progress"  PROVE FALSE
    OBVIOUS
  <2>1. SendStatus(c) \/ WorkerWrite(c)
    BY DEF Step, Spawn, Insert, disconnect, AgentDies, Cleanup, Loop, LoopDisconnect,
         LoopPrompt, LoopCancel, Completes, TurnEnds, SendStart, Sender, SendLink, SendLookup,
         SendEnqueue, SendRollback, CancelRow, CancelledRow, SenderFails, RollbackFails,
         CancelRowFails, SendDropped, CancelStart, Worker, WorkerLinked, WorkerComplete,
         WorkerTerminal, WorkerMisses, WorkerFails, TerminalFails, EventLost
  <2>2. ~WorkerWrite(c)  BY DEF WorkerWrite, WireInv, Ending
  <2>3. op' = Set(op, c, "lookup")  BY <2>1, <2>2 DEF SendStatus, Admit
  <2> QED  BY <2>3 DEF Set, WireInv, LinkInv, TypeInv, Typed
<1>3. PICK d \in Conns : Owes(d)  BY <1>1, <1>2 DEF Owed
<1>4. CASE d = c  BY <1>1, <1>3, <1>4, OwesStep
<1>5. CASE d # c
  <2>1. Same(d)  BY <1>5, WireStep
  <2> QED  BY <1>3, <2>1 DEF Same, Owes, CancelAhead, HasEnd, Cut
<1> QED  BY <1>4, <1>5

LEMMA OwedStarts == ASSUME SetsAssumption, Bound = {}, Init  PROVE WireInv /\ Owed
BY WireInit DEF Init, Owed, SetsAssumption

LEMMA OwedAlways ==
  ASSUME SetsAssumption, Bound = {}, "link" \notin Early, WireInv, Owed, Next \/ UNCHANGED vars
  PROVE  WireInv' /\ Owed'
<1>1. CASE Next  BY <1>1, WireStep, OwedStep, NextSteps
<1>2. CASE UNCHANGED vars
  BY <1>2, WireStutter DEF Owed, Owes, CancelAhead, HasEnd, Cut, vars
<1> QED  BY <1>1, <1>2

LEMMA NeverStrandedOfOwed == ASSUME SetsAssumption, WireInv, Owed  PROVE NeverStranded
<1> SUFFICES ASSUME NEW c \in Conns, Idle(c)  PROVE ~Owes(c)
  BY DEF NeverStranded, Owed
<1>1. op[c] = None /\ events[c] = <<>> /\ worker[c].write = None /\ cmds[c] = <<>> /\ ~Running(c)
  BY DEF Idle, Handled
<1>2. ~HasEnd(c) /\ ~Cut(c)  BY <1>1, NoneOrdered DEF HasEnd, Cut
<1>3. phase[c] = "live" => known[c]  BY <1>1, NoneOrdered DEF WireInv, LinkInv, Closing
<1> QED  BY <1>1, <1>2, <1>3 DEF Owes, Running, SetsAssumption

\* When nothing of a conversation is on its way any more, its row does not say that a
\* turn is in progress: whoever was left to write it has done so. However many callers
\* go away, writes fail and events are lost, the only rows left are those whose last
\* write one of the faults in missing took (handle_event_with_retry and
\* handle_terminal_event, send_prompt_linked, cancel).
THEOREM NoRowIsStranded ==
  ASSUME SetsAssumption, Bound = {}, "link" \notin Early
  PROVE  Spec => []NeverStranded
<1>1. Init => WireInv /\ Owed  BY OwedStarts
<1>2. WireInv /\ Owed /\ [Next]_vars => WireInv' /\ Owed'  BY OwedAlways
<1>3. WireInv /\ Owed => NeverStranded  BY NeverStrandedOfOwed
<1> QED  BY <1>1, <1>2, <1>3, PTL DEF Spec
-------------------------------------------------------------------------------
(* What is shown while a turn runs, when prompts follow one another: nobody but  *)
(* the connection that sends a prompt or runs its turn has anything to write.    *)

Busy(c)  == op[c] \in Sending \/ Running(c)
Quiet(d) == /\ ~Busy(d) /\ ~HasEnd(d) /\ "linked" \notin Elems(events[d])
            /\ phase[d] # "over" => ~linked[d] /\ ~worker[d].cached
            /\ op[d] = "cancel" => ~linked[d]
            /\ Cut(d) => ~worker[d].cached
Sole(c)  == Busy(c) => ~HasEnd(c) /\ \A d \in Conns \ {c} : Quiet(d)
OnWay(c) == Running(c) => turn[c] \/ "prompt" \in Elems(cmds[c])
Shows(c) ==
  /\ op[c] = "cancel" /\ Running(c) => CancelAhead(c)
  /\ Running(c) => \/ /\ row = "in_progress"
                      /\ CancelAhead(c) => op[c] = "cancel" \/ "end" \in missing
                   \/ row = "cancelled" /\ CancelAhead(c)
  /\ op[c] \in {"lookup", "reserve"} /\ phase[c] = "live" => row = "in_progress"
ShowInv  == LinkInv /\ \A c \in Conns : OnWay(c) /\ Sole(c) /\ Shows(c)

LEMMA QuietStep ==
  ASSUME SetsAssumption, Bound = {}, Overtaking = FALSE, LinkInv,
         NEW c \in Conns, NEW d \in Conns \ {c}, Busy(c), Quiet(d), Step(d)
  PROVE  Quiet(d)' /\ row' = row /\ missing \subseteq missing'
<1>00. missing \subseteq missing'
  BY MissingMoves DEF LinkInv, TypeInv, Sending, Quiet, Busy
<1> SUFFICES Quiet(d)' /\ row' = row
  BY <1>00
<1> USE DEF Quiet, Busy, Running
<1>0. /\ phase \in [Conns -> {"none", "building", "live", "over"}] /\ op \in [Conns -> Ops]
      /\ cmds \in [Conns -> Seq(Cmds)] /\ Ordered(cmds[d])
      /\ events \in [Conns -> Seq(Queued)] /\ Ordered(events[d])
      /\ worker \in [Conns -> Writers] /\ None \notin Sending /\ None # "cancel"
      /\ "cancel" \notin Sending
  BY QueuesOrdered DEF LinkInv, TypeInv, Typed, SetsAssumption, Sending
<1>1. Prompt(d) /\ Young(d) /\ Order(d)  BY DEF LinkInv, TypeInv
<1>2. (~turn[d] /\ "prompt" \notin Elems(cmds[d])) \/ phase[d] # "live"  BY <1>1 DEF Prompt
<1>3. CASE Spawn(d) \/ Insert(d)
  <2>1. /\ UNCHANGED <<linked, flight, op, events, worker, row>> /\ phase[d] \in {"none", "building"}
        /\ phase'[d] # "over"
    BY <1>0, <1>3 DEF Spawn, Insert, Set
  <2>2. ~flight[d]  BY <1>1, <2>1 DEF Young
  <2> QED  BY <2>1, <2>2 DEF HasEnd, Cut
<1>4. CASE disconnect(d) \/ Cleanup(d)
  <2>1. UNCHANGED <<phase, linked, flight, op, events, worker, row>>
    BY <1>4 DEF disconnect, Cleanup
  <2> QED  BY <2>1 DEF HasEnd, Cut
<1>5. CASE AgentDies(d) \/ LoopDisconnect(d)
  <2>1. /\ phase[d] = "live" /\ phase'[d] = "over" /\ UNCHANGED <<linked, flight, op, worker, row>>
        /\ events'[d] = Append(events[d], "terminal")
    BY <1>0, <1>5 DEF AgentDies, LoopDisconnect, Ends, Set, Push
  <2>2. ~HasEnd(d)' /\ "linked" \notin Elems(events'[d])
    BY <1>0, <2>1 DEF HasEnd, Ordered, Final
  <2> QED  BY <2>1, <2>2
<1>6. CASE (Loop(d) /\ ~LoopDisconnect(d)) \/ TurnEnds(d)
  <2>1. LoopCancel(d) /\ ~turn[d]
    BY <1>0, <1>1, <1>2, <1>6 DEF Loop, LoopPrompt, LoopCancel, TurnEnds, Prompt, Ordered
  <2>2. UNCHANGED <<phase, linked, flight, op, events, worker, row>>
    BY <2>1 DEF LoopCancel, conns
  <2> QED  BY <2>2 DEF HasEnd, Cut
<1>7. CASE SendStart(d) \/ Sender(d) \/ SenderFails(d) \/ SendDropped(d) \/ CancelStart(d)
  <2>1. ~SendStart(d)
    <3>1. (op[c] = None /\ phase[c] \in {"none", "over"}) \/ ~SendStart(d)  BY DEF SendStart
    <3> QED  BY <1>0, <3>1
  <2>2. CancelRow(d) \/ CancelStart(d)
    BY <1>7, <2>1 DEF Sender, SendLink, SendStatus, Admit, SendLookup, SendEnqueue, SendRollback,
                      SenderFails, RollbackFails, CancelRowFails, SendDropped, Sending
  <2>3. UNCHANGED <<phase, linked, flight, events, worker, row>>
    BY <2>2 DEF CancelRow, CancelStart, conns
  <2>4. op'[d] = None \/ (op'[d] = "cancel" /\ phase[d] = "live")
    BY <1>0, <2>2 DEF CancelRow, CancelStart, Set
  <2> QED  BY <1>0, <2>3, <2>4 DEF HasEnd, Cut
<1>8. CASE Worker(d) \/ WorkerMisses(d)
  <2>0. worker[d].write = None  BY DEF HasEnd
  <2>1. WorkerComplete(d) \/ WorkerTerminal(d) \/ EventLost(d)
    BY <1>0, <1>8, <2>0 DEF Worker, WorkerLinked, WorkerWrite, WorkerMisses, WorkerFails,
                            TerminalFails, Cut, Ordered
  <2>2. /\ events[d] # <<>> /\ events'[d] = Tail(events[d]) /\ UNCHANGED <<conns, op>>
        /\ worker'[d].cached \in {worker[d].cached, FALSE}
    <3>1. CASE WorkerComplete(d)  BY <1>0, <3>1 DEF WorkerComplete, Set, Writers
    <3>2. CASE WorkerTerminal(d)  BY <1>0, <3>2 DEF WorkerTerminal, Set, Writers
    <3>3. CASE EventLost(d)  BY <1>0, <3>3 DEF EventLost, Set
    <3> QED  BY <2>1, <3>1, <3>2, <3>3
  <2>3. row' = row  BY <1>0, <2>1 DEF WorkerComplete, WorkerTerminal, EventLost, Cut, Ordered
  <2>4. Elems(events'[d]) \subseteq Elems(events[d])  BY <1>0, <2>2 DEF Ordered
  <2>5. worker'[d].write = None
    <3>1. CASE WorkerTerminal(d)  BY <1>0, <2>0, <3>1 DEF WorkerTerminal, Writers
    <3>2. CASE WorkerComplete(d)
      <4>1. worker'[d].write = HandledAs(d, Head(events[d]))
        BY <1>0, <3>2 DEF WorkerComplete, Writers
      <4>2. Head(events[d]) \notin Final  BY <1>0, <2>2 DEF HasEnd, Ordered
      <4> QED  BY <4>1, <4>2 DEF HandledAs, Target, Final
    <3>3. CASE EventLost(d)  BY <2>0, <3>3 DEF EventLost
    <3> QED  BY <2>1, <3>1, <3>2, <3>3
  <2> QED  BY <2>2, <2>3, <2>4, <2>5 DEF HasEnd, Cut, conns
<1> QED  BY <1>3, <1>4, <1>5, <1>6, <1>7, <1>8 DEF Step, Loop

\* A prompt is sent when nothing waits for a worker and no other connection is open.
LEMMA SoleStart ==
  ASSUME SetsAssumption, Overtaking = FALSE, LinkInv, NEW c \in Conns, SendStart(c)
  PROVE  Sole(c)'
<1>0. \A d \in Conns : Handled(d) /\ op[d] = None /\ (d # c => phase[d] \in {"none", "over"})
  BY DEF SendStart
<1>1. /\ UNCHANGED <<phase, linked, flight, events, worker>>
      /\ \A d \in Conns \ {c} : op'[d] = op[d]
  BY DEF SendStart, conns, Set, LinkInv, TypeInv, Typed
<1>2. ASSUME NEW d \in Conns  PROVE ~HasEnd(d)' /\ ~Cut(d)' /\ "linked" \notin Elems(events'[d])
  <2>1. events'[d] = <<>> /\ worker'[d].write = None  BY <1>0, <1>1 DEF Handled
  <2> QED  BY <2>1, NoneOrdered DEF HasEnd, Cut
<1>3. ASSUME NEW d \in Conns \ {c}  PROVE Quiet(d)'
  <2>1. op'[d] = None /\ phase'[d] = phase[d] /\ phase[d] \in {"none", "over"}  BY <1>0, <1>1
  <2>2. Young(d)  BY DEF LinkInv
  <2>3. None \notin Sending /\ None # "cancel"  BY DEF SetsAssumption, Sending
  <2> QED  BY <1>1, <1>2, <2>1, <2>2, <2>3 DEF Quiet, Busy, Running, Young
<1> QED  BY <1>2, <1>3 DEF Sole

\* Only the start of a prompt makes a connection busy, and no end comes of it until then.
LEMMA BusyStep ==
  ASSUME SetsAssumption, Bound = {}, LinkInv, NEW c \in Conns, Step(c), Busy(c)', ~SendStart(c)
  PROVE  Busy(c) /\ (~HasEnd(c) => ~HasEnd(c)')
<1>0. /\ phase \in [Conns -> {"none", "building", "live", "over"}] /\ op \in [Conns -> Ops]
      /\ flight \in [Conns -> BOOLEAN] /\ worker \in [Conns -> Writers]
      /\ events \in [Conns -> Seq(Queued)] /\ Ordered(events[c])
      /\ None \notin Sending /\ "cancel" \notin Sending
  BY QueuesOrdered DEF LinkInv, TypeInv, Typed, SetsAssumption, Sending
<1>1. Prompt(c) /\ Young(c) /\ Order(c)  BY DEF LinkInv, TypeInv
<1>2. op'[c] \in Sending => op[c] \in Sending
  BY <1>0 DEF Step, Spawn, Insert, disconnect, AgentDies, Cleanup, Loop, LoopDisconnect,
              LoopPrompt, LoopCancel, Completes, TurnEnds, Sender, SendLink, SendStatus, Admit,
              SendLookup, SendEnqueue, SendRollback, CancelRow, SenderFails, RollbackFails,
              CancelRowFails, SendDropped, CancelStart, Worker, WorkerLinked, WorkerComplete,
              WorkerWrite, WorkerTerminal, WorkerMisses, WorkerFails, TerminalFails, EventLost,
              conns, Set, Sending
<1>3. flight'[c] => flight[c] \/ op[c] \in Sending
  BY <1>0 DEF Step, Spawn, Insert, disconnect, AgentDies, Cleanup, Loop, LoopDisconnect,
              LoopPrompt, LoopCancel, Completes, TurnEnds, Sender, SendLink, SendStatus,
              SendLookup, SendEnqueue, SendRollback, CancelRow, SenderFails, RollbackFails,
              CancelRowFails, SendDropped, CancelStart, Worker, WorkerLinked, WorkerComplete,
              WorkerWrite, WorkerTerminal, WorkerMisses, WorkerFails, TerminalFails, EventLost,
              conns, Set, Sending
<1>4. phase'[c] = "live" /\ flight[c] => phase[c] = "live"
  <2>1. phase'[c] = phase[c] \/ phase'[c] = "over" \/ phase[c] \in {"none", "building"}
    BY <1>0 DEF Step, Spawn, Insert, disconnect, AgentDies, Cleanup, Ends, Loop, LoopDisconnect,
                LoopPrompt, LoopCancel, Completes, TurnEnds, Sender, SendLink, SendStatus,
                SendLookup, SendEnqueue, SendRollback, CancelRow, SenderFails, RollbackFails,
                CancelRowFails, SendDropped, CancelStart, Worker, WorkerLinked, WorkerComplete,
                WorkerWrite, WorkerTerminal, WorkerMisses, WorkerFails, TerminalFails, EventLost,
                conns, Set
  <2> QED  BY <1>1, <2>1 DEF Young
<1>5. Busy(c)  BY <1>2, <1>3, <1>4 DEF Busy, Running
<1>6. ASSUME ~HasEnd(c)  PROVE ~HasEnd(c)'
  <2>0. worker[c].write = None  BY <1>6 DEF HasEnd
  <2>1. CASE events'[c] = events[c] /\ worker'[c] = worker[c]  BY <1>6, <2>1 DEF HasEnd
  <2>2. CASE /\ events'[c] \in {Append(events[c], "terminal"), Append(events[c], "linked")}
             /\ worker'[c] = worker[c]
    <3>0. PICK e \in {"terminal", "linked"} : events'[c] = Append(events[c], e)  BY <2>2
    <3>1. Elems(events'[c]) \subseteq Elems(events[c]) \cup {"terminal", "linked"}
      BY <1>0, <3>0 DEF Ordered
    <3> QED  BY <1>6, <2>2, <3>1 DEF HasEnd, Final
  <2>3. ~(turn[c] /\ flight'[c] = FALSE /\ op'[c] = op[c])
    BY <1>1 DEF Prompt, Busy, Running
  <2>4. CASE Worker(c) \/ WorkerMisses(c)
    <3>1. events[c] # <<>> /\ events'[c] = Tail(events[c])
          /\ worker'[c].write \in {None, HandledAs(c, Head(events[c]))}
      BY <2>0, <2>4, WorkerTakes DEF LinkInv, TypeInv
    <3>2. Elems(events'[c]) \subseteq Elems(events[c]) /\ Head(events[c]) \in Elems(events[c])
      BY <1>0, <3>1 DEF Ordered
    <3> QED  BY <1>6, <3>1, <3>2 DEF HasEnd, HandledAs, Target, Final
  <2> QED  BY <2>1, <2>2, <2>3, <2>4, EventMoves DEF LinkInv, TypeInv
<1> QED  BY <1>5, <1>6

LEMMA SoleStep ==
  ASSUME SetsAssumption, Bound = {}, Overtaking = FALSE, LinkInv,
         NEW c \in Conns, NEW d \in Conns, Step(d), Sole(c)
  PROVE  Sole(c)'
<1>0. \A e \in Conns : e # d => Same(e)  BY LinkStep
<1>1. CASE d = c /\ SendStart(c)  BY <1>1, SoleStart
<1>2. CASE d = c /\ ~SendStart(c)
  <2> SUFFICES ASSUME Busy(c)'  PROVE ~HasEnd(c)' /\ \A e \in Conns \ {c} : Quiet(e)'
    BY DEF Sole
  <2>1. Busy(c) /\ (~HasEnd(c) => ~HasEnd(c)')  BY <1>2, BusyStep
  <2>2. ASSUME NEW e \in Conns \ {c}  PROVE Quiet(e)'
    BY <1>0, <1>2, <2>1 DEF Sole, Same, Quiet, Busy, Running, HasEnd, Cut
  <2> QED  BY <2>1, <2>2 DEF Sole
<1>3. CASE d # c
  <2> SUFFICES ASSUME Busy(c)'  PROVE ~HasEnd(c)' /\ \A e \in Conns \ {c} : Quiet(e)'
    BY DEF Sole
  <2>1. Busy(c) /\ ~HasEnd(c)'  BY <1>0, <1>3 DEF Sole, Same, Busy, Running, HasEnd
  <2>2. ASSUME NEW e \in Conns \ {c}  PROVE Quiet(e)'
    <3>1. Quiet(e)  BY <2>1 DEF Sole
    <3>2. CASE e = d  BY <1>3, <2>1, <3>1, <3>2, QuietStep
    <3>3. CASE e # d
      BY <1>0, <3>1, <3>3 DEF Same, Quiet, Busy, Running, HasEnd, Cut
    <3> QED  BY <3>2, <3>3
  <2> QED  BY <2>1, <2>2
<1> QED  BY <1>1, <1>2, <1>3

LEMMA OnWayStep ==
  ASSUME SetsAssumption, Bound = {}, LinkInv, NEW c \in Conns, Step(c), OnWay(c)
  PROVE  OnWay(c)'
<1> USE DEF OnWay, Running
<1>0. /\ phase \in [Conns -> {"none", "building", "live", "over"}] /\ turn \in [Conns -> BOOLEAN]
      /\ flight \in [Conns -> BOOLEAN] /\ cmds \in [Conns -> Seq(Cmds)] /\ Ordered(cmds[c])
  BY QueuesOrdered DEF LinkInv, TypeInv, Typed
<1>1. Prompt(c) /\ Young(c)  BY DEF LinkInv, TypeInv
<1>2. CASE phase[c] \in {"none", "building"}
  <2>1. ~flight[c] /\ op[c] = None  BY <1>1, <1>2 DEF Young
  <2>2. ~SendEnqueue(c)  BY <2>1 DEF SendEnqueue, SetsAssumption
  <2>3. flight' = flight \/ turn[c]
    BY <2>2 DEF Step, Spawn, Insert, disconnect, AgentDies, Cleanup, Loop, LoopDisconnect,
                LoopPrompt, LoopCancel, TurnEnds, SendStart, Sender, SendLink, SendStatus,
                SendLookup, SendRollback, CancelRow, SenderFails, RollbackFails, CancelRowFails,
                SendDropped, CancelStart, Worker, WorkerLinked, WorkerComplete, WorkerWrite,
                WorkerTerminal, WorkerMisses, WorkerFails, TerminalFails, EventLost, conns
  <2>4. ~turn[c]  BY <1>1, <1>2 DEF Prompt
  <2> QED  BY <2>1, <2>3, <2>4
<1>3. CASE AgentDies(c) \/ LoopDisconnect(c)
  BY <1>0, <1>3 DEF AgentDies, LoopDisconnect, Ends, Set
<1>4. CASE LoopPrompt(c)  BY <1>0, <1>4 DEF LoopPrompt, Set
<1>5. CASE LoopCancel(c) /\ ~turn[c]
  <2>1. /\ cmds[c] # <<>> /\ Head(cmds[c]) = "cancel" /\ cmds'[c] = Tail(cmds[c])
        /\ UNCHANGED <<phase, flight, turn>>
    BY <1>0, <1>5 DEF LoopCancel, Set, conns
  <2> QED  BY <1>0, <2>1 DEF Ordered
<1>6. CASE turn[c] /\ (LoopCancel(c) \/ TurnEnds(c))
  BY <1>0, <1>6 DEF LoopCancel, TurnEnds, Completes, Set
<1>7. CASE SendEnqueue(c) /\ phase[c] # "over"
  <2>1. cmds'[c] = Append(cmds[c], "prompt")  BY <1>0, <1>7 DEF SendEnqueue, Push
  <2> QED  BY <1>0, <2>1 DEF Ordered
<1>8. CASE UNCHANGED <<phase, flight, turn>> /\ (cmds' = cmds \/ \E e \in Cmds : cmds' = Push(cmds, c, e))
  <2>1. CASE cmds' = cmds  BY <1>8, <2>1
  <2>2. CASE \E e \in Cmds : cmds' = Push(cmds, c, e)
    <3>1. PICK e \in Cmds : cmds' = Push(cmds, c, e)  BY <2>2
    <3>2. cmds'[c] = Append(cmds[c], e)  BY <1>0, <3>1 DEF Push
    <3>3. "prompt" \in Elems(cmds[c]) => "prompt" \in Elems(cmds'[c])  BY <1>0, <3>2 DEF Ordered
    <3> QED  BY <1>8, <3>3
  <2> QED  BY <1>8, <2>1, <2>2
<1>9. CASE ~(Spawn(c) \/ Insert(c) \/ AgentDies(c) \/ Loop(c) \/ TurnEnds(c) \/ SendEnqueue(c))
  BY <1>8, <1>9 DEF Step, disconnect, Cleanup, SendStart, Sender, SendLink, SendStatus,
                    SendLookup, SendRollback, CancelRow, SenderFails, RollbackFails,
                    CancelRowFails, SendDropped, CancelStart, Worker, WorkerLinked,
                    WorkerComplete, WorkerWrite, WorkerTerminal, WorkerMisses, WorkerFails,
                    TerminalFails, EventLost, conns, Cmds
<1>10. SendEnqueue(c) /\ phase[c] = "over" => UNCHANGED <<phase, flight, turn, cmds>>
  BY DEF SendEnqueue
<1>11. Spawn(c) \/ Insert(c) => phase[c] \in {"none", "building"}  BY DEF Spawn, Insert
<1> QED
  BY <1>2, <1>3, <1>4, <1>5, <1>6, <1>7, <1>8, <1>9, <1>10, <1>11 DEF Loop, TurnEnds

LEMMA ShowsStep ==
  ASSUME SetsAssumption, Bound = {}, LinkInv, NEW c \in Conns, Step(c),
         OnWay(c), Sole(c), Shows(c)
  PROVE  Shows(c)'
<1> USE DEF Running
<1>0. /\ phase \in [Conns -> {"none", "building", "live", "over"}] /\ turn \in [Conns -> BOOLEAN]
      /\ flight \in [Conns -> BOOLEAN] /\ cmds \in [Conns -> Seq(Cmds)] /\ Ordered(cmds[c])
      /\ op \in [Conns -> Ops] /\ None \notin {"cancel", "lookup", "reserve"}
  BY QueuesOrdered DEF LinkInv, TypeInv, Typed, SetsAssumption
<1>1. Prompt(c) /\ Young(c) /\ Bonded(c) /\ Order(c)  BY DEF LinkInv, TypeInv
<1>2. CASE Spawn(c) \/ Insert(c)
  <2>1. phase[c] \in {"none", "building"} /\ op' = op /\ flight' = flight
    BY <1>2 DEF Spawn, Insert
  <2>2. ~flight[c] /\ op[c] = None  BY <1>1, <2>1 DEF Young
  <2> QED  BY <1>0, <2>1, <2>2 DEF Shows
<1>3. CASE disconnect(c) \/ Cleanup(c)
  <2>1. UNCHANGED <<phase, flight, turn, op, row>> /\ (cmds' = cmds \/ cmds' = Push(cmds, c, "disconnect"))
    BY <1>3 DEF disconnect, Cleanup
  <2>0. missing' = missing  BY <1>3 DEF disconnect, Cleanup
  <2>2. CancelAhead(c)' <=> CancelAhead(c)
    <3>1. CASE cmds' = cmds  BY <2>1, <3>1 DEF CancelAhead
    <3>2. CASE cmds' = Push(cmds, c, "disconnect")
      <4>1. cmds'[c] = Append(cmds[c], "disconnect")  BY <1>0, <3>2 DEF Push
      <4> QED  BY <1>0, <2>1, <4>1 DEF CancelAhead, Ordered
    <3> QED  BY <2>1, <3>1, <3>2
  <2> QED  BY <2>0, <2>1, <2>2 DEF Shows
<1>4. CASE AgentDies(c) \/ LoopDisconnect(c)
  <2>1. phase'[c] = "over"  BY <1>0, <1>4 DEF AgentDies, LoopDisconnect, Ends, Set
  <2> QED  BY <2>1 DEF Shows
<1>5. CASE LoopPrompt(c) \/ (LoopCancel(c) /\ ~turn[c])
  <2>1. /\ UNCHANGED <<phase, flight, op, row, missing>> /\ cmds[c] # <<>> /\ cmds'[c] = Tail(cmds[c])
        /\ ~turn[c]
        /\ \/ Head(cmds[c]) = "prompt" /\ turn'[c] = TRUE
           \/ Head(cmds[c]) = "cancel" /\ turn'[c] = FALSE
    BY <1>0, <1>5 DEF LoopPrompt, LoopCancel, Set, conns
  <2>2. CancelAhead(c)' <=> CancelAhead(c)
    <3>1. CASE Head(cmds[c]) = "prompt" /\ turn'[c] = TRUE
      BY <1>0, <2>1, <3>1 DEF CancelAhead, Ordered
    <3>2. CASE Head(cmds[c]) = "cancel" /\ turn'[c] = FALSE
      BY <1>0, <2>1, <3>2 DEF CancelAhead, Ordered
    <3> QED  BY <2>1, <3>1, <3>2
  <2> QED  BY <2>1, <2>2 DEF Shows
<1>6. CASE turn[c] /\ (LoopCancel(c) \/ TurnEnds(c))
  <2>1. /\ flight'[c] = FALSE /\ UNCHANGED <<phase, op, row>>
    BY <1>0, <1>6 DEF LoopCancel, TurnEnds, Completes, Set
  <2> QED  BY <2>1 DEF Shows
<1>7. CASE SendStart(c) \/ SendLink(c) \/ SendRollback(c) \/ RollbackFails(c) \/ SendDropped(c)
  <2>1. phase' = phase /\ flight' = flight /\ ~flight[c]
    BY <1>0, <1>1, <1>7 DEF SendStart, SendLink, SendRollback, RollbackFails, SendDropped,
                            conns, Prompt, Sending
  <2>2. op'[c] \notin {"lookup", "reserve"}
    BY <1>0, <1>7 DEF SendStart, SendLink, SendRollback, RollbackFails, SendDropped, Set
  <2> QED  BY <2>1, <2>2 DEF Shows
<1>8. CASE SendStatus(c) \/ SendLookup(c)
  <2>1. phase' = phase /\ flight' = flight /\ ~flight[c]
    BY <1>0, <1>1, <1>8 DEF SendStatus, Admit, SendLookup, conns, Prompt, Sending
  <2>2. op'[c] = "lookup" => row' = "in_progress"
    BY <1>0, <1>8 DEF SendStatus, Admit, SendLookup, Set
  <2>3. op'[c] = "reserve" => op[c] = "lookup" /\ row' = row
    BY <1>0, <1>8 DEF SendStatus, Admit, SendLookup, Set
  <2> QED  BY <2>1, <2>2, <2>3 DEF Shows
<1>9. CASE SendEnqueue(c)
  <2>1. CASE phase[c] = "over"
    <3>1. phase' = phase  BY <1>9 DEF SendEnqueue
    <3> QED  BY <2>1, <3>1 DEF Shows, SendEnqueue
  <2>2. CASE phase[c] # "over"
    <3>1. /\ op[c] = "reserve" /\ phase' = phase /\ turn' = turn /\ op'[c] = None /\ row' = row
          /\ cmds'[c] = Append(cmds[c], "prompt")
      BY <1>0, <1>9, <2>2 DEF SendEnqueue, Set, Push
    <3>2. phase[c] = "live"  BY <1>0, <1>1, <2>2, <3>1 DEF Young
    <3>3. ~turn[c] /\ "prompt" \notin Elems(cmds[c]) /\ ~Behind(cmds[c], "prompt", "cancel")
      <4>1. ~flight[c]  BY <1>1, <3>1 DEF Prompt, Sending
      <4>2. ~turn[c] /\ "prompt" \notin Elems(cmds[c])  BY <1>1, <4>1 DEF Prompt
      <4> QED  BY <4>2 DEF Behind, Elems
    <3>4. ~CancelAhead(c)'  BY <1>0, <3>1, <3>3 DEF CancelAhead, Ordered
    <3>5. row = "in_progress"  BY <3>1, <3>2 DEF Shows
    <3> QED  BY <1>0, <3>1, <3>4, <3>5 DEF Shows
  <2> QED  BY <2>1, <2>2
<1>10. CASE CancelStart(c)
  <2>1. /\ op[c] = None /\ op'[c] = "cancel" /\ UNCHANGED <<phase, flight, turn, row>>
        /\ cmds'[c] = Append(cmds[c], "cancel")
    BY <1>0, <1>10 DEF CancelStart, Set, Push, conns
  <2>2. Running(c) => CancelAhead(c)'
    BY <1>0, <2>1 DEF OnWay, CancelAhead, Ordered
  <2> QED  BY <2>1, <2>2 DEF Shows
<1>11. CASE CancelRow(c)
  <2>1. /\ op[c] = "cancel" /\ op'[c] = None
        /\ UNCHANGED <<phase, flight, turn, cmds>> /\ row' = IF linked[c] THEN CancelledRow ELSE row
    BY <1>0, <1>11 DEF CancelRow, Set, conns
  <2>2. CancelAhead(c)' <=> CancelAhead(c)  BY <2>1 DEF CancelAhead
  <2>3. Running(c) => row' = "cancelled" /\ CancelAhead(c)
    BY <1>1, <2>1 DEF Shows, Bonded, CancelledRow
  <2> QED  BY <1>0, <2>1, <2>2, <2>3 DEF Shows
<1>12. CASE CancelRowFails(c)
  <2>1. /\ op'[c] = None /\ UNCHANGED <<phase, flight, turn, cmds, row>> /\ "end" \in missing'
    BY <1>0, <1>12 DEF CancelRowFails, Set, conns
  <2>2. CancelAhead(c)' <=> CancelAhead(c)  BY <2>1 DEF CancelAhead
  <2> QED  BY <1>0, <2>1, <2>2 DEF Shows
<1>13. CASE Worker(c) \/ WorkerMisses(c)
  <2>1. UNCHANGED <<conns, cmds, op>>  BY <1>13, WorkerTakes DEF LinkInv, TypeInv
  <2>2. Busy(c) /\ phase[c] # "over" => row' = row
    <3>1. Busy(c) => ~WorkerWrite(c)  BY DEF Sole, HasEnd, WorkerWrite
    <3>2. phase[c] # "over" => ~WorkerTerminal(c)
      <4>1. WorkerTerminal(c) => Cut(c)
        BY QueuesOrdered DEF WorkerTerminal, Cut, Ordered, LinkInv, TypeInv
      <4> QED  BY <1>1, <4>1 DEF Order
    <3> QED
      BY <1>13, <3>1, <3>2 DEF Worker, WorkerLinked, WorkerComplete, WorkerMisses, WorkerFails,
                               TerminalFails, EventLost
  <2>3. missing \subseteq missing'
    BY <1>13 DEF Worker, WorkerLinked, WorkerComplete, WorkerWrite, WorkerTerminal, WorkerMisses,
                 WorkerFails, TerminalFails, EventLost
  <2> QED  BY <2>1, <2>2, <2>3 DEF Shows, Busy, CancelAhead, conns, Sending
<1> QED
  BY <1>2, <1>3, <1>4, <1>5, <1>6, <1>7, <1>8, <1>9, <1>10, <1>11, <1>12, <1>13
     DEF Step, Loop, Sender, SenderFails, TurnEnds

LEMMA ShowInvStep ==
  ASSUME SetsAssumption, Bound = {}, Overtaking = FALSE, ShowInv, NEW d \in Conns, Step(d)
  PROVE  ShowInv'
<1>0. LinkInv /\ LinkInv' /\ \A c \in Conns : c # d => Same(c)  BY LinkStep DEF ShowInv
<1>1. ASSUME NEW c \in Conns  PROVE OnWay(c)' /\ Sole(c)' /\ Shows(c)'
  <2>1. Sole(c)'  BY <1>0, SoleStep DEF ShowInv
  <2>2. CASE c = d  BY <1>0, <2>1, <2>2, OnWayStep, ShowsStep DEF ShowInv
  <2>3. CASE c # d
    <3>1. Same(c)  BY <1>0, <2>3
    <3>2. OnWay(c)'  BY <3>1 DEF ShowInv, Same, OnWay, Running
    <3>3. CASE Busy(c)
      <4>1. row' = row /\ missing \subseteq missing'
        BY <1>0, <2>3, <3>3, QuietStep DEF ShowInv, Sole
      <4> QED  BY <2>1, <3>1, <3>2, <4>1 DEF ShowInv, Same, Shows, Running, CancelAhead
    <3>4. CASE ~Busy(c)
      BY <2>1, <3>1, <3>2, <3>4 DEF Same, Shows, Running, Busy, Sending
    <3> QED  BY <3>3, <3>4
  <2> QED  BY <2>2, <2>3
<1> QED  BY <1>0, <1>1 DEF ShowInv

LEMMA ShowInvInit == ASSUME SetsAssumption, Bound = {}, Init  PROVE ShowInv
<1>1. ASSUME NEW c \in Conns  PROVE ~Busy(c) /\ ~Running(c) /\ op[c] = None
  BY DEF Init, Busy, Running, Sending, SetsAssumption
<1>2. None \notin {"cancel", "lookup", "reserve"}  BY DEF SetsAssumption
<1> QED  BY <1>1, <1>2, WireInit DEF WireInv, ShowInv, OnWay, Sole, Shows

LEMMA ShowInvStutter == ASSUME ShowInv, UNCHANGED vars  PROVE ShowInv'
<1>1. LinkInv'  BY LinkStutter DEF ShowInv
<1>2. ASSUME NEW c \in Conns  PROVE OnWay(c)' /\ Sole(c)' /\ Shows(c)'
  BY DEF ShowInv, vars, OnWay, Sole, Shows, Quiet, Busy, Running, CancelAhead, HasEnd, Cut
<1> QED  BY <1>1, <1>2 DEF ShowInv

LEMMA ShowInvHolds ==
  ASSUME SetsAssumption, Bound = {}, Overtaking = FALSE  PROVE Spec => []ShowInv
<1>1. Init => ShowInv  BY ShowInvInit
<1>2. ShowInv /\ [Next]_vars => ShowInv'  BY ShowInvStep, ShowInvStutter, NextSteps
<1> QED  BY <1>1, <1>2, PTL DEF Spec

LEMMA TurnShownOfShowInv == ASSUME ShowInv  PROVE TurnShown
<1> SUFFICES ASSUME NEW c \in Conns, Running(c), "cancel" \notin Elems(cmds[c]), op[c] = None
             PROVE  row = "in_progress"
  BY DEF TurnShown
<1>1. ~CancelAhead(c)  BY DEF CancelAhead, Behind, Elems
<1> QED  BY <1>1 DEF ShowInv, Shows

\* A turn that runs is shown: once everything else has been handled, the row of a turn
\* nobody cancelled says "in_progress", whatever older turns and connections wrote.
THEOREM RunningTurnIsShown ==
  ASSUME SetsAssumption, Bound = {}, Overtaking = FALSE  PROVE Spec => []TurnShown
<1>1. ShowInv => TurnShown  BY TurnShownOfShowInv
<1> QED  BY <1>1, ShowInvHolds, PTL
-------------------------------------------------------------------------------
(* How the last prompt ended, when closes wait for the ends before them: the row *)
(* tells it, or the worker of a known connection has it to write, or the row is  *)
(* in progress and somebody is about to cancel it.                               *)

Outcome   == IF last = "end_turn" THEN "pending_review" ELSE "cancelled"
Sends     == \E c \in Conns : op[c] \in {"lookup", "reserve", "rollback"} \/ Running(c)
Kept(d)   == /\ worker[d].write # None => known[d]
             /\ known[d] /\ phase[d] = "over" => ~HasEnd(d)
Paid(d)   == known[d] => /\ \A e \in Final : e \in Elems(events[d]) => Target(e) = Outcome
                         /\ worker[d].write # None => worker[d].write = Outcome
Clears(d) == \/ op[d] = "cancel" /\ linked[d]
             \/ worker[d].cached /\ (Cut(d) \/ (phase[d] = "live" /\ ~known[d]))
Told      == \/ row = Outcome
             \/ \E d \in Conns : known[d] /\ HasEnd(d)
             \/ row = "in_progress" /\ Outcome = "cancelled" /\ \E d \in Conns : Clears(d)
Due       == missing = {} /\ ~Sends => Told /\ \A d \in Conns : Paid(d)

\* A connection that may be closed has no end waiting.
LEMMA ClosedEnds ==
  ASSUME SetsAssumption, Early = {}, NEW c \in Conns, MayClose(c)  PROVE ~HasEnd(c)
<1>1. Elems(events[c]) \subseteq {"linked"} /\ worker[c].write = None  BY DEF MayClose
<1> QED  BY <1>1 DEF HasEnd, Final

LEMMA KeptStep ==
  ASSUME SetsAssumption, Bound = {}, Early = {}, LinkInv, NEW c \in Conns, Step(c), Kept(c)
  PROVE  Kept(c)'
<1>0. /\ phase \in [Conns -> {"none", "building", "live", "over"}] /\ known \in [Conns -> BOOLEAN]
      /\ events \in [Conns -> Seq(Queued)] /\ Ordered(events[c]) /\ worker \in [Conns -> Writers]
  BY QueuesOrdered DEF LinkInv, TypeInv, Typed
<1>1. Prompt(c) /\ Young(c) /\ Closing(c)  BY DEF LinkInv, TypeInv
<1>2. CASE Spawn(c) \/ Insert(c)
  <2>1. phase[c] \in {"none", "building"} /\ worker' = worker /\ phase'[c] # "over"
    BY <1>0, <1>2 DEF Spawn, Insert, Set
  <2> QED  BY <1>1, <2>1 DEF Young, Kept
<1>3. CASE disconnect(c) \/ Cleanup(c)
  <2>1. ~HasEnd(c) /\ worker' = worker /\ events' = events
    BY <1>3, ClosedEnds DEF disconnect, Cleanup, Kept
  <2> QED  BY <2>1 DEF Kept, HasEnd
<1>4. CASE AgentDies(c) \/ LoopDisconnect(c)
  <2>1. /\ known' = known /\ worker' = worker /\ events'[c] = Append(events[c], "terminal")
        /\ (~known[c] \/ MayClose(c))
    BY <1>0, <1>4, QueuesOrdered, <1>1
       DEF AgentDies, LoopDisconnect, Ends, Push, Closing, Ordered, LinkInv, TypeInv
  <2>2. known[c] => ~HasEnd(c)'
    BY <1>0, <2>1, ClosedEnds DEF HasEnd, Ordered, Final
  <2> QED  BY <2>1, <2>2 DEF Kept
<1>5. CASE turn[c] /\ (LoopCancel(c) \/ TurnEnds(c))
  <2>1. UNCHANGED <<phase, known, worker>> /\ phase[c] = "live"
    BY <1>1, <1>5 DEF LoopCancel, TurnEnds, Completes, Prompt
  <2> QED  BY <2>1 DEF Kept
<1>6. CASE Worker(c) \/ WorkerMisses(c)
  <2>1. UNCHANGED conns  BY <1>6, WorkerTakes DEF LinkInv, TypeInv
  <2>2. CASE events'[c] = events[c] /\ worker'[c].write \in {None, worker[c].write}
    BY <2>1, <2>2 DEF Kept, HasEnd, conns
  <2>3. CASE /\ events[c] # <<>> /\ events'[c] = Tail(events[c]) /\ worker[c].write = None
             /\ \/ worker'[c].write = None \/ worker'[c].write = HandledAs(c, Head(events[c]))
    <3>1. HasEnd(c)' => HasEnd(c)
      BY <1>0, <2>3 DEF HasEnd, Ordered, HandledAs, Target, Final
    <3> QED  BY <2>1, <2>3, <3>1 DEF Kept, HandledAs, conns
  <2> QED  BY <1>6, <2>2, <2>3, WorkerTakes DEF LinkInv, TypeInv
<1>7. CASE SendLink(c)
  <2>1. /\ UNCHANGED <<phase, known, worker>>
        /\ (events' = events \/ events' = Push(events, c, "linked"))
    BY <1>7 DEF SendLink
  <2>2. HasEnd(c)' => HasEnd(c)
    <3>1. CASE events' = events  BY <2>1, <3>1 DEF HasEnd
    <3>2. CASE events' = Push(events, c, "linked")
      <4>1. events'[c] = Append(events[c], "linked")  BY <1>0, <3>2 DEF Push
      <4> QED  BY <1>0, <2>1, <4>1 DEF HasEnd, Ordered, Final
    <3> QED  BY <2>1, <3>1, <3>2
  <2> QED  BY <2>1, <2>2 DEF Kept
<1>8. CASE UNCHANGED <<phase, known, events, worker>>
  BY <1>8 DEF Kept, HasEnd
<1>9. CASE ~(Spawn(c) \/ Insert(c) \/ disconnect(c) \/ Cleanup(c) \/ AgentDies(c) \/ LoopDisconnect(c)
             \/ (turn[c] /\ (LoopCancel(c) \/ TurnEnds(c))) \/ Worker(c) \/ WorkerMisses(c) \/ SendLink(c))
  BY <1>8, <1>9 DEF Step, Loop, LoopPrompt, LoopCancel, TurnEnds, SendStart, Sender, SendStatus,
                    SendLookup, SendEnqueue, SendRollback, CancelRow, SenderFails, RollbackFails,
                    CancelRowFails, SendDropped, CancelStart, conns
<1> QED  BY <1>2, <1>3, <1>4, <1>5, <1>6, <1>7, <1>9

\* A step of a connection, when no prompt is sent, no turn runs and no fault takes a
\* write: what it has to write is still right, and is written or remains.
DueLocal(c) ==
  /\ Paid(c)' /\ Outcome' = Outcome
  /\ known[c] /\ HasEnd(c) => (known[c] /\ HasEnd(c))' \/ row' = Outcome
  /\ row = Outcome => row' = Outcome
  /\ row = "in_progress" => row' \in {"in_progress", "cancelled", Outcome}
  /\ row = "in_progress" /\ Clears(c) => Clears(c)' \/ row' = "cancelled" \/ row' = Outcome

LEMMA DueWorks ==
  ASSUME SetsAssumption, missing' = {}, WireInv, NEW c \in Conns,
         Worker(c) \/ WorkerMisses(c), Kept(c), Paid(c)
  PROVE  DueLocal(c)
<1>0. /\ worker \in [Conns -> Writers] /\ worker[c] \in Writers /\ Ordered(events[c])
      /\ events \in [Conns -> Seq(Queued)]
      /\ Bonded(c) /\ Ending(c) /\ UNCHANGED <<conns, cmds, op, last>>
  BY QueuesOrdered, WorkerTakes DEF WireInv, LinkInv, TypeInv, Typed
<1>1. Outcome' = Outcome /\ Outcome \in {"pending_review", "cancelled"}
  BY <1>0 DEF Outcome
<1>2. CASE WorkerLinked(c)
  <2>1. /\ events[c] # <<>> /\ Head(events[c]) = "linked" /\ events'[c] = Tail(events[c])
        /\ worker[c].write = None /\ worker'[c].write = None /\ row' = row
        /\ (worker[c].cached => worker'[c].cached)
    BY <1>0, <1>2 DEF WorkerLinked, Set, Writers
  <2>2. \A e \in Final \cup {"terminal"} : e \in Elems(events[c]) <=> e \in Elems(events'[c])
    BY <1>0, <2>1 DEF Ordered, Final
  <2>3. (HasEnd(c) <=> HasEnd(c)') /\ (Cut(c) <=> Cut(c)')  BY <2>1, <2>2 DEF HasEnd, Cut
  <2> QED  BY <1>0, <1>1, <2>1, <2>2, <2>3 DEF DueLocal, Paid, Clears, conns
<1>3. CASE WorkerComplete(c)
  <2>1. /\ events[c] # <<>> /\ Head(events[c]) \notin {"linked", "terminal"}
        /\ events'[c] = Tail(events[c]) /\ worker[c].write = None /\ row' = row
        /\ worker'[c].write = HandledAs(c, Head(events[c])) /\ worker'[c].cached = worker[c].cached
    BY <1>0, <1>3 DEF WorkerComplete, Set, Writers
  <2>2. Elems(events[c]) = Elems(events'[c]) \cup {Head(events[c])}  BY <1>0, <2>1 DEF Ordered
  <2>3. Cut(c) <=> Cut(c)'  BY <2>1, <2>2 DEF Cut
  <2>4. Paid(c)'
    <3>1. SUFFICES ASSUME known[c], Head(events[c]) \in Final \/ worker'[c].write = None
                   PROVE  worker'[c].write # None => worker'[c].write = Outcome
      BY <1>0, <1>1, <2>1, <2>2 DEF Paid, conns, HandledAs, Target, Final
    <3>2. Head(events[c]) \in Final => Target(Head(events[c])) = Outcome
      BY <2>2, <3>1 DEF Paid
    <3> QED  BY <2>1, <3>1, <3>2 DEF HandledAs
  <2>5. ASSUME known[c], HasEnd(c)  PROVE HasEnd(c)'
    <3>1. linked[c]  BY <1>0, <2>5 DEF Bonded
    <3>2. CASE Head(events[c]) \in Final
      <4>1. worker'[c].write # None
        BY <2>1, <2>5, <3>1, <3>2 DEF HandledAs, Target, Final, SetsAssumption
      <4> QED  BY <4>1 DEF HasEnd
    <3>3. CASE Head(events[c]) \notin Final  BY <2>1, <2>2, <2>5, <3>3 DEF HasEnd
    <3> QED  BY <3>2, <3>3
  <2> QED  BY <1>0, <1>1, <2>1, <2>3, <2>4, <2>5 DEF DueLocal, Clears, conns
<1>4. CASE WorkerWrite(c)
  <2>1. /\ worker[c].write # None /\ row' = worker[c].write /\ events' = events
        /\ worker'[c].write = None /\ worker'[c].cached = worker[c].cached
    BY <1>0, <1>4 DEF WorkerWrite, Writers
  <2>2. row' = Outcome  BY <2>1 DEF Kept, Paid
  <2>3. Paid(c)'  BY <1>0, <1>1, <2>1 DEF Paid, conns
  <2> QED  BY <1>1, <2>2, <2>3 DEF DueLocal
<1>5. CASE WorkerTerminal(c)
  <2>1. /\ events[c] # <<>> /\ Head(events[c]) = "terminal" /\ events'[c] = Tail(events[c])
        /\ worker[c].write = None /\ worker'[c].write = None
        /\ row' = IF worker[c].cached /\ row = "in_progress" THEN "cancelled" ELSE row
    BY <1>0, <1>5 DEF WorkerTerminal, Set, Writers
  <2>2. \A e \in Final : e \in Elems(events[c]) <=> e \in Elems(events'[c])
    BY <1>0, <2>1 DEF Ordered, Final
  <2>3. HasEnd(c) <=> HasEnd(c)'  BY <2>1, <2>2 DEF HasEnd
  <2>4. Paid(c)'  BY <1>0, <1>1, <2>1, <2>2 DEF Paid, conns
  <2>5. Clears(c) /\ row = "in_progress" => Clears(c)' \/ row' = "cancelled"
    BY <1>0, <2>1 DEF Clears, conns
  <2>6. row = Outcome => row' = Outcome  BY <1>1, <2>1 DEF SetsAssumption
  <2>7. row = "in_progress" => row' \in {"in_progress", "cancelled"}  BY <2>1
  <2> QED  BY <1>0, <1>1, <2>3, <2>4, <2>5, <2>6, <2>7 DEF DueLocal, conns
<1>6. CASE WorkerFails(c) /\ worker[c].tries < 2
  <2>1. /\ worker[c].write # None /\ worker'[c].write = Retried(c) /\ events' = events
        /\ worker'[c].cached = worker[c].cached /\ row' = row
    BY <1>0, <1>6 DEF WorkerFails, Writers
  <2>2. worker'[c].write = worker[c].write  BY <1>6, <2>1 DEF Retried, Kept
  <2>3. Paid(c)' /\ (HasEnd(c) => HasEnd(c)')
    BY <1>0, <1>1, <2>1, <2>2 DEF Paid, HasEnd, conns
  <2>4. Clears(c)' <=> Clears(c)  BY <1>0, <2>1 DEF Clears, Cut, conns
  <2> QED  BY <1>0, <1>1, <2>1, <2>3, <2>4 DEF DueLocal, conns
<1>7. CASE EventLost(c) /\ Head(events[c]) = "cancelled"
  <2>1. events[c] # <<>> /\ events'[c] = Tail(events[c]) /\ worker' = worker /\ row' = row
    BY <1>0, <1>7 DEF EventLost, Set
  <2>2. \A e \in Final \cup {"terminal"} : e \in Elems(events[c]) <=> e \in Elems(events'[c])
    BY <1>0, <1>7, <2>1 DEF Ordered, Final
  <2>3. (HasEnd(c) <=> HasEnd(c)') /\ (Cut(c) <=> Cut(c)')  BY <2>1, <2>2 DEF HasEnd, Cut
  <2> QED  BY <1>0, <1>1, <2>1, <2>2, <2>3 DEF DueLocal, Paid, Clears, conns
<1>8. WorkerMisses(c) => \/ WorkerFails(c) /\ worker[c].tries < 2
                         \/ EventLost(c) /\ Head(events[c]) = "cancelled"
  BY NoneMissed DEF WireInv, LinkInv, TypeInv
<1> QED  BY <1>2, <1>3, <1>4, <1>5, <1>6, <1>7, <1>8 DEF Worker

LEMMA DueMoves ==
  ASSUME SetsAssumption, Bound = {}, Early = {}, missing' = {}, WireInv, NEW c \in Conns, Step(c),
         ~Worker(c), ~WorkerMisses(c), ~Sends, op'[c] # "lookup", Kept(c), Paid(c)
  PROVE  DueLocal(c)
<1>0. /\ phase \in [Conns -> {"none", "building", "live", "over"}] /\ known \in [Conns -> BOOLEAN]
      /\ flight \in [Conns -> BOOLEAN] /\ op \in [Conns -> Ops] /\ linked \in [Conns -> BOOLEAN]
      /\ events \in [Conns -> Seq(Queued)] /\ Ordered(events[c])
      /\ cmds \in [Conns -> Seq(Cmds)] /\ Ordered(cmds[c])
      /\ None \notin {"cancel", "lookup", "reserve", "rollback"}
  BY QueuesOrdered DEF WireInv, LinkInv, TypeInv, Typed, SetsAssumption
<1>1. Prompt(c) /\ Young(c) /\ Bonded(c) /\ Closing(c)  BY DEF WireInv, LinkInv, TypeInv
<1>2. op[c] \notin {"lookup", "reserve", "rollback"} /\ ~Running(c) /\ ~turn[c]
  BY <1>1 DEF Sends, Prompt, Running
<1>3. Outcome \in {"pending_review", "cancelled"}  BY DEF Outcome
<1>4. CASE /\ UNCHANGED <<linked, worker, last, row>> /\ op'[c] = op[c] /\ events'[c] = events[c]
           /\ known'[c] = known[c] /\ (Clears(c) => Clears(c)')
  BY <1>4 DEF DueLocal, Paid, Outcome, HasEnd
<1>5. CASE Spawn(c) \/ Insert(c)
  <2>1. /\ phase[c] \in {"none", "building"} /\ UNCHANGED <<worker, events, last, row>>
    BY <1>5 DEF Spawn, Insert
  <2>2. /\ events'[c] = <<>> /\ worker'[c].write = None /\ ~known[c] /\ ~Clears(c)
    BY <1>0, <1>1, <2>1 DEF Young, Clears
  <2> QED  BY <2>1, <2>2, NoneOrdered DEF DueLocal, Paid, Outcome
<1>6. CASE disconnect(c) \/ Cleanup(c)
  <2>1. /\ UNCHANGED <<phase, linked, op, worker, events, last, row>> /\ known'[c] = FALSE
    BY <1>0, <1>6 DEF disconnect, Cleanup, Set
  <2>2. known[c] => ~HasEnd(c)
    BY <1>6, ClosedEnds DEF disconnect, Cleanup, Kept
  <2> QED  BY <2>1, <2>2 DEF DueLocal, Paid, Outcome, Clears, Cut
<1>7. CASE AgentDies(c) \/ LoopDisconnect(c)
  <2>1. /\ phase[c] = "live" /\ UNCHANGED <<known, linked, op, worker, row>>
        /\ events'[c] = Append(events[c], "terminal")
        /\ last' = IF flight[c] THEN "cut" ELSE last
    BY <1>0, <1>7 DEF AgentDies, LoopDisconnect, Ends, Push
  <2>2. last' = last  BY <1>2, <2>1 DEF Running
  <2>3. Cut(c)' /\ \A e \in Final : e \in Elems(events'[c]) <=> e \in Elems(events[c])
    BY <1>0, <2>1 DEF Cut, Ordered, Final
  <2>4. HasEnd(c)' <=> HasEnd(c)  BY <2>1, <2>3 DEF HasEnd
  <2> QED  BY <2>1, <2>2, <2>3, <2>4 DEF DueLocal, Paid, Outcome, Clears
<1>8. CASE LoopPrompt(c) \/ LoopCancel(c)
  <2>1. LoopCancel(c)
    BY <1>0, <1>1, <1>2, <1>8 DEF LoopPrompt, Prompt, Running, Ordered
  <2>2. UNCHANGED <<row, conns, op, events, worker, last>>  BY <1>2, <2>1 DEF LoopCancel
  <2> QED  BY <1>4, <2>2 DEF conns, Clears, Cut
<1>9. CASE SendStart(c) \/ SendStatus(c) \/ SendDropped(c) \/ CancelStart(c) \/ CancelRow(c)
  <2>1. UNCHANGED <<conns, events, worker, last>>
    BY <1>9 DEF SendStart, SendStatus, SendDropped, CancelStart, CancelRow
  <2>2. HasEnd(c)' <=> HasEnd(c)  BY <2>1 DEF HasEnd
  <2>3. Paid(c)' /\ Outcome' = Outcome  BY <2>1 DEF Paid, Outcome, conns
  <2>4. CASE CancelRow(c)
    <3>1. row' = IF linked[c] THEN CancelledRow ELSE row  BY <2>4 DEF CancelRow
    <3>2. row = Outcome => row' = Outcome
      BY <1>3, <3>1 DEF CancelledRow, SetsAssumption
    <3>3. row = "in_progress" /\ Clears(c) => Clears(c)' \/ row' = "cancelled"
      BY <2>1, <3>1 DEF Clears, Cut, CancelledRow, conns
    <3>4. row = "in_progress" => row' \in {"in_progress", "cancelled"}
      BY <3>1 DEF CancelledRow
    <3> QED  BY <2>1, <2>2, <2>3, <3>2, <3>3, <3>4 DEF DueLocal, conns
  <2>5. CASE SendStart(c) \/ SendStatus(c) \/ SendDropped(c) \/ CancelStart(c)
    <3>1. row' = row
      BY <1>0, <2>5 DEF SendStart, SendStatus, Admit, SendDropped, CancelStart, Set
    <3>2. op[c] # "cancel"
      BY <1>0, <2>5 DEF SendStart, SendStatus, Admit, SendDropped, CancelStart
    <3>3. Clears(c) => Clears(c)'  BY <2>1, <3>2 DEF Clears, Cut, conns
    <3> QED  BY <2>1, <2>2, <2>3, <3>1, <3>3 DEF DueLocal, conns
  <2> QED  BY <1>9, <2>4, <2>5
<1>10. CASE SendLink(c)
  <2>1. /\ UNCHANGED <<phase, known, worker, last, row>> /\ op[c] = "link"
        /\ (events' = events \/ events' = Push(events, c, "linked"))
    BY <1>10 DEF SendLink
  <2>2. \A e \in Final \cup {"terminal"} : e \in Elems(events'[c]) <=> e \in Elems(events[c])
    <3>1. CASE events' = events  BY <3>1
    <3>2. CASE events' = Push(events, c, "linked")
      <4>1. events'[c] = Append(events[c], "linked")  BY <1>0, <3>2 DEF Push
      <4> QED  BY <1>0, <4>1 DEF Ordered, Final
    <3> QED  BY <2>1, <3>1, <3>2
  <2>3. (HasEnd(c)' <=> HasEnd(c)) /\ (Cut(c)' <=> Cut(c))  BY <2>1, <2>2 DEF HasEnd, Cut
  <2> QED  BY <2>1, <2>2, <2>3 DEF DueLocal, Paid, Outcome, Clears
<1>11. ~SendLookup(c) /\ ~SendEnqueue(c) /\ ~SendRollback(c) /\ ~TurnEnds(c)
  BY <1>2 DEF SendLookup, SendEnqueue, SendRollback, TurnEnds
<1>12. ~SenderFails(c)  BY NoneMissed DEF WireInv, LinkInv, TypeInv
<1> QED
  BY <1>5, <1>6, <1>7, <1>8, <1>9, <1>10, <1>11, <1>12 DEF Step, Loop, Sender

\* The step that ends the last prompt: everything else had been handled, so what the row
\* will say is what this step puts on its way.
LEMMA DueEnds ==
  ASSUME SetsAssumption, Bound = {}, Early = {}, missing = {}, missing' = {}, WireInv, ShowInv,
         NEW c \in Conns, Step(c), Sends, ~Sends'
  PROVE  Told' /\ \A d \in Conns : Paid(d)'
<1>0. /\ phase \in [Conns -> {"none", "building", "live", "over"}] /\ known \in [Conns -> BOOLEAN]
      /\ flight \in [Conns -> BOOLEAN] /\ op \in [Conns -> Ops]
      /\ events \in [Conns -> Seq(Queued)] /\ Ordered(events[c]) /\ Ordered(cmds[c])
  BY QueuesOrdered DEF WireInv, LinkInv, TypeInv, Typed
<1>1. Prompt(c) /\ Young(c) /\ Bonded(c) /\ Closing(c) /\ Caches(c) /\ Sole(c) /\ Shows(c)
  BY DEF WireInv, ShowInv, LinkInv, TypeInv, Cached
<1>2. \A d \in Conns : d # c => Same(d)  BY LinkStep DEF WireInv
<1>3. op[c] \in {"lookup", "reserve", "rollback"} \/ Running(c)
  <2>1. PICK d \in Conns : op[d] \in {"lookup", "reserve", "rollback"} \/ Running(d)  BY DEF Sends
  <2>2. CASE d # c
    <3>1. op'[d] \in {"lookup", "reserve", "rollback"} \/ Running(d)'
      BY <1>2, <2>1, <2>2 DEF Same, Running
    <3> QED  BY <3>1 DEF Sends
  <2> QED  BY <2>1, <2>2
<1>4. ~(op'[c] \in {"lookup", "reserve", "rollback"} \/ Running(c)')  BY DEF Sends
<1>5. /\ ~HasEnd(c)
      /\ \A d \in Conns : d # c => ~HasEnd(d)'
  <2>1. Busy(c)  BY <1>3 DEF Busy, Sending
  <2>2. ASSUME NEW d \in Conns, d # c  PROVE ~HasEnd(d)'
    <3>1. ~HasEnd(d)  BY <1>1, <2>1, <2>2 DEF Sole, Quiet
    <3>2. Same(d)  BY <1>2, <2>2
    <3> QED  BY <3>1, <3>2 DEF Same, HasEnd
  <2> QED  BY <1>1, <2>1, <2>2 DEF Sole
<1>6. ASSUME NEW d \in Conns, ~HasEnd(d)'  PROVE Paid(d)'
  BY <1>6 DEF Paid, HasEnd
<1>7. CASE op[c] \in {"lookup", "reserve", "rollback"}
  <2>1. ~flight[c]  BY <1>1, <1>7 DEF Prompt, Sending
  <2>2. ~SendLookup(c)  BY <1>0, <1>4 DEF SendLookup, Set
  <2>3. ~SendEnqueue(c)
    <3>1. SendEnqueue(c) /\ phase[c] = "over" => op'[c] = "rollback"
      BY <1>0 DEF SendEnqueue, Set
    <3>2. SendEnqueue(c) /\ phase[c] # "over" => flight'[c] = TRUE /\ phase'[c] = phase[c]
      BY <1>0 DEF SendEnqueue, Set
    <3>3. phase[c] \in {"live", "over"}  BY <1>0, <1>1, <1>7 DEF Young, SetsAssumption
    <3> QED  BY <1>4, <3>1, <3>2, <3>3 DEF Running
  <2>4. ~SenderFails(c) /\ ~SendDropped(c)
    BY <1>7, NoneMissed DEF WireInv, LinkInv, TypeInv
  <2>5. SendRollback(c)
    <3>1. op' # op  BY <1>4, <1>7
    <3> QED
      BY <1>7, <2>2, <2>3, <2>4, <3>1
         DEF Step, Spawn, Insert, disconnect, AgentDies, Cleanup, Loop, LoopDisconnect, LoopPrompt,
             LoopCancel, Completes, TurnEnds, SendStart, Sender, SendLink, SendStatus, Admit,
             CancelRow, CancelStart, Worker, WorkerLinked, WorkerComplete, WorkerWrite,
             WorkerTerminal, WorkerMisses, WorkerFails, TerminalFails, EventLost, SetsAssumption
  <2>6. row' = "cancelled" /\ last' = "unsent" /\ events' = events /\ worker' = worker
    BY <2>5 DEF SendRollback
  <2>7. ~HasEnd(c)'  BY <1>5, <2>6 DEF HasEnd
  <2> QED  BY <1>5, <1>6, <2>6, <2>7 DEF Told, Outcome
<1>8. CASE Running(c)
  <2>0. row \in {"in_progress", "cancelled"} /\ linked[c] /\ phase[c] = "live" /\ flight[c]
    BY <1>1, <1>8 DEF Shows, Bonded, Running
  <2>1. CASE AgentDies(c) \/ LoopDisconnect(c)
    <3>1. /\ worker' = worker /\ row' = row /\ last' = "cut"
          /\ events'[c] = Append(events[c], "terminal")
      BY <1>0, <2>0, <2>1 DEF AgentDies, LoopDisconnect, Ends, Push
    <3>2. Cut(c)' /\ ~HasEnd(c)'  BY <1>0, <1>5, <3>1 DEF Cut, HasEnd, Ordered, Final
    <3>3. worker[c].cached
      <4>1. ~known[c] \/ MayClose(c)
        BY <1>0, <1>1, <2>1 DEF AgentDies, LoopDisconnect, Closing, Ordered
      <4> QED  BY <1>1, <2>0, <4>1, ClosedCached DEF Needs
    <3> QED  BY <1>5, <1>6, <2>0, <3>1, <3>2, <3>3 DEF Told, Outcome, Clears
  <2>2. CASE turn[c] /\ (LoopCancel(c) \/ TurnEnds(c))
    <3>1. PICK e \in {"end_turn", "refusal", "cancelled"} :
            Completes(c, e) /\ (e \in Final \/ LoopCancel(c))
      BY <2>2 DEF TurnEnds, LoopCancel, Final
    <3>2. /\ UNCHANGED <<row, phase, known, linked, op, worker>>
          /\ events'[c] = Append(events[c], e) /\ last' = IF known[c] THEN e ELSE "cut"
      BY <1>0, <3>1 DEF Completes, Push
    <3>3. worker'[c].write = None /\ Elems(events'[c]) = Elems(events[c]) \cup {e}
      BY <1>0, <1>5, <3>2 DEF HasEnd, Ordered
    <3>4. Paid(c)'
      <4>1. ASSUME NEW x \in Final, x \in Elems(events'[c])  PROVE x = e
        BY <1>5, <3>3, <4>1 DEF HasEnd
      <4>2. known[c] => last' = e  BY <3>2
      <4> QED  BY <3>2, <3>3, <4>1, <4>2 DEF Paid, Target, Outcome, Final
    <3>5. CASE known[c] /\ e \in Final
      <4>1. (known[c] /\ HasEnd(c))'  BY <3>2, <3>3, <3>5 DEF HasEnd
      <4> QED  BY <1>5, <1>6, <3>4, <4>1 DEF Told
    <3>6. CASE ~known[c]
      <4>1. worker[c].cached  BY <1>1, <2>0, <3>6 DEF Caches, Needs
      <4> QED  BY <1>5, <1>6, <2>0, <3>2, <3>4, <3>6, <4>1 DEF Told, Outcome, Clears
    <3>7. CASE known[c] /\ e \notin Final
      <4>1. last' = "cancelled" \/ (e = "cancelled" /\ last' = e)  BY <3>1, <3>2, <3>7 DEF Final
      <4>2. CancelAhead(c)  BY <1>0, <2>2, <3>1, <3>7 DEF LoopCancel, CancelAhead, Ordered
      <4>3. row = "in_progress" => op[c] = "cancel"
        BY <1>1, <1>8, <4>2 DEF Shows, SetsAssumption
      <4> QED  BY <1>5, <1>6, <2>0, <3>2, <3>4, <4>1, <4>3 DEF Told, Outcome, Clears
    <3> QED  BY <3>5, <3>6, <3>7
  <2>3. CASE phase'[c] = phase[c] /\ flight'[c] = flight[c]
    BY <1>4, <1>8, <2>3 DEF Running
  <2>4. ~(Spawn(c) \/ Insert(c)) /\ (SendEnqueue(c) => op[c] = "reserve")
    BY <2>0 DEF Spawn, Insert, SendEnqueue
  <2>5. (phase' = phase /\ flight' = flight) \/ AgentDies(c) \/ LoopDisconnect(c)
          \/ (turn[c] /\ (LoopCancel(c) \/ TurnEnds(c))) \/ op[c] = "reserve"
    BY <2>4 DEF Step, disconnect, Cleanup, Loop, LoopPrompt, LoopCancel, TurnEnds, SendStart,
                Sender, SendLink, SendStatus, SendLookup, SendRollback, CancelRow, SenderFails,
                RollbackFails, CancelRowFails, SendDropped, CancelStart, Worker, WorkerLinked,
                WorkerComplete, WorkerWrite, WorkerTerminal, WorkerMisses, WorkerFails,
                TerminalFails, EventLost, conns
  <2> QED  BY <1>7, <2>1, <2>2, <2>3, <2>5
<1> QED  BY <1>3, <1>7, <1>8

LEMMA DueStep ==
  ASSUME SetsAssumption, Bound = {}, Early = {}, WireInv, ShowInv, NEW c \in Conns, Step(c),
         \A d \in Conns : Kept(d), Due
  PROVE  Due'
<1> SUFFICES ASSUME missing' = {}, ~Sends'  PROVE Told' /\ \A d \in Conns : Paid(d)'
  BY DEF Due
<1>0. missing = {}
  <2>1. op'[c] # "lookup"  BY DEF Sends
  <2> QED  BY <2>1, MissingMoves DEF WireInv, LinkInv, TypeInv
<1>1. CASE Sends  BY <1>0, <1>1, DueEnds
<1>2. CASE ~Sends
  <2>1. Told /\ \A d \in Conns : Paid(d)  BY <1>0, <1>2 DEF Due
  <2>2. op'[c] # "lookup"  BY DEF Sends
  <2>3. DueLocal(c)  BY <1>2, <2>1, <2>2, DueMoves, DueWorks
  <2>4. \A d \in Conns : d # c => Same(d)  BY LinkStep DEF WireInv
  <2>5. Outcome' = Outcome /\ Outcome \in {"pending_review", "cancelled"}
    BY <2>3 DEF DueLocal, Outcome
  <2>6. ASSUME NEW d \in Conns  PROVE Paid(d)'
    <3>1. CASE d = c  BY <2>3, <3>1 DEF DueLocal
    <3>2. CASE d # c  BY <2>1, <2>4, <2>5, <3>2 DEF Same, Paid
    <3> QED  BY <3>1, <3>2
  <2>7. CASE row = Outcome  BY <2>3, <2>5, <2>6, <2>7 DEF DueLocal, Told
  <2>8. CASE \E d \in Conns : known[d] /\ HasEnd(d)
    <3>1. PICK d \in Conns : known[d] /\ HasEnd(d)  BY <2>8
    <3>2. CASE d = c  BY <2>3, <2>5, <2>6, <3>1, <3>2 DEF DueLocal, Told
    <3>3. CASE d # c
      <4>1. (known[d] /\ HasEnd(d))'  BY <2>4, <3>1, <3>3 DEF Same, HasEnd
      <4> QED  BY <2>6, <4>1 DEF Told
    <3> QED  BY <3>2, <3>3
  <2>9. CASE row = "in_progress" /\ Outcome = "cancelled" /\ \E d \in Conns : Clears(d)
    <3>1. PICK d \in Conns : Clears(d)  BY <2>9
    <3>2. row' \in {"in_progress", "cancelled"}  BY <2>3, <2>9 DEF DueLocal
    <3>3. CASE d = c  BY <2>3, <2>5, <2>6, <2>9, <3>1, <3>2, <3>3 DEF DueLocal, Told
    <3>4. CASE d # c
      <4>1. Clears(d)'  BY <2>4, <3>1, <3>4 DEF Same, Clears, Cut
      <4> QED  BY <2>5, <2>6, <2>9, <3>2, <4>1 DEF Told
    <3> QED  BY <3>3, <3>4
  <2> QED  BY <2>1, <2>7, <2>8, <2>9 DEF Told
<1> QED  BY <1>1, <1>2

LEMMA KeptAlways ==
  ASSUME SetsAssumption, Bound = {}, Early = {}, LinkInv, NEW c \in Conns, Step(c),
         \A d \in Conns : Kept(d)
  PROVE  \A d \in Conns : Kept(d)'
<1>1. \A d \in Conns : d # c => Same(d)  BY LinkStep
<1>2. ASSUME NEW d \in Conns  PROVE Kept(d)'
  <2>1. CASE d = c  BY <2>1, KeptStep
  <2>2. CASE d # c  BY <1>1, <2>2 DEF Same, Kept, HasEnd
  <2> QED  BY <2>1, <2>2
<1> QED  BY <1>2

OutcomeInv == WireInv /\ ShowInv /\ Due /\ \A d \in Conns : Kept(d)

LEMMA OutcomeStarts ==
  ASSUME SetsAssumption, Bound = {}, Init  PROVE OutcomeInv
<1>1. WireInv /\ ShowInv  BY WireInit, ShowInvInit
<1>2. ASSUME NEW d \in Conns  PROVE Kept(d) /\ Paid(d)
  <2>1. known[d] = FALSE /\ worker[d].write = None  BY DEF Init
  <2> QED  BY <2>1 DEF Kept, Paid
<1>3. Told  BY DEF Init, Told, Outcome
<1> QED  BY <1>1, <1>2, <1>3 DEF OutcomeInv, Due

LEMMA OutcomeStep ==
  ASSUME SetsAssumption, Bound = {}, Early = {}, Overtaking = FALSE, OutcomeInv,
         Next \/ UNCHANGED vars
  PROVE  OutcomeInv'
<1>1. CASE Next
  <2>1. PICK c \in Conns : Step(c)  BY <1>1, NextSteps
  <2>2. WireInv' /\ ShowInv'  BY <2>1, WireStep, ShowInvStep DEF OutcomeInv
  <2>3. Due'  BY <2>1, DueStep DEF OutcomeInv
  <2>4. \A d \in Conns : Kept(d)'  BY <2>1, KeptAlways DEF OutcomeInv, WireInv
  <2> QED  BY <2>2, <2>3, <2>4 DEF OutcomeInv
<1>2. CASE UNCHANGED vars
  <2>1. WireInv' /\ ShowInv'  BY <1>2, WireStutter, ShowInvStutter DEF OutcomeInv
  <2>2. Due' /\ \A d \in Conns : Kept(d)'
    BY <1>2 DEF OutcomeInv, vars, Due, Sends, Running, Told, Paid, Clears, Kept, Outcome, HasEnd,
                Cut
  <2> QED  BY <2>1, <2>2 DEF OutcomeInv
<1> QED  BY <1>1, <1>2

LEMMA OutcomeOfInv == ASSUME SetsAssumption, OutcomeInv  PROVE OutcomeShown
<1> SUFFICES ASSUME missing = {}, \A c \in Conns : Idle(c)  PROVE row = Outcome
  BY DEF OutcomeShown, Outcome
<1>1. ASSUME NEW c \in Conns
      PROVE  /\ op[c] = None /\ ~HasEnd(c) /\ ~Cut(c) /\ ~Running(c)
             /\ phase[c] = "live" => known[c]
  <2>1. op[c] = None /\ events[c] = <<>> /\ worker[c].write = None /\ cmds[c] = <<>> /\ ~Running(c)
    BY DEF Idle, Handled
  <2>2. ~HasEnd(c) /\ ~Cut(c)  BY <2>1, NoneOrdered DEF HasEnd, Cut
  <2>3. phase[c] = "live" => known[c]
    BY <2>1, NoneOrdered DEF OutcomeInv, WireInv, LinkInv, Closing
  <2> QED  BY <2>1, <2>2, <2>3
<1>2. ~Sends /\ \A c \in Conns : ~Clears(c)  BY <1>1 DEF Sends, Clears, SetsAssumption
<1>3. Told  BY <1>2 DEF OutcomeInv, Due
<1> QED  BY <1>1, <1>2, <1>3 DEF Told

\* When nothing is on its way, the row tells how the last prompt ended: a normal end asks
\* for a review, a refusal, a cancel, a cut-off turn and a prompt that was never sent read
\* as cancelled (handle_event, handle_terminal_event, send_prompt_linked, cancel). Only
\* a fault that took the last write, and that missing records, leaves another outcome.
THEOREM RowTellsTheOutcome ==
  ASSUME SetsAssumption, Bound = {}, Early = {}, Overtaking = FALSE
  PROVE  Spec => []OutcomeShown
<1>1. Init => OutcomeInv  BY OutcomeStarts
<1>2. OutcomeInv /\ [Next]_vars => OutcomeInv'  BY OutcomeStep
<1>3. OutcomeInv => OutcomeShown  BY OutcomeOfInv
<1> QED  BY <1>1, <1>2, <1>3, PTL DEF Spec
===============================================================================
