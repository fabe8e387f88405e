------------------------ MODULE SessionIdentityProofs -------------------------
(* Theorems about SessionIdentity, for every number of clients, connections,    *)
(* connects and closes: which connection runs a Session and which Session a row *)
(* names, under the conditions under which the code keeps each of them.         *)
EXTENDS SessionIdentity, TLAPS

-------------------------------------------------------------------------------
(* Types.                                                                      *)

ForkSteps == {"fork", "persist", "rebind", "started"}

\* What the types leave open: a client that waits holds the lock of its session, one
\* that waits or is done has a connection; an operation has a row; and a connection
\* has a session from its handshake on.
Shape ==
  /\ used \in [connects : Nat, forks : Nat, closes : Nat, faults : Nat] /\ used.forks <= 1
  /\ \A p \in Clients :
       /\ pc[p] \in {"wait", "has"} => got[p] \in Conns
       /\ pc[p] = "wait" => sid[p] # None /\ lock[sid[p]] = p
  /\ \A c \in Conns :
       /\ op[c] \in ForkSteps \cup {"ext"} => conv[c] \in Rows
       /\ op[c] = "ext" => conv[c] = C1
       /\ op[c] \in {"persist", "rebind", "started"} => phase[c] \in {"live", "over"}
       /\ phase[c] = "none" => conv[c] = None
       /\ phase[c] \in {"none", "starting"} => sess[c] = None
       /\ phase[c] = "live" => sess[c] # None

Names == NamesAssumption /\ BoundsAssumption

LEMMA SetTyped ==
  ASSUME NEW S, NEW T, NEW f \in [S -> T], NEW c \in S, NEW v \in T
  PROVE  /\ Set(f, c, v) \in [S -> T] /\ Set(f, c, v)[c] = v
         /\ \A d \in S : d # c => Set(f, c, v)[d] = f[d]
BY DEF Set

LEMMA SpendTyped ==
  ASSUME Shape, BoundsAssumption, NEW what \in {"connects", "forks", "closes", "faults"}, NEW bound,
         Spend(what, bound), what = "forks" => bound = MaxForks
  PROVE  /\ used' \in [connects : Nat, forks : Nat, closes : Nat, faults : Nat] /\ used'.forks <= 1
         /\ what # "forks" => used'.forks = used.forks
         /\ what = "forks" => used.forks = 0 /\ used'.forks = 1
<1>1. used' = [used EXCEPT ![what] = used[what] + 1] /\ used[what] < bound
  BY DEF Spend
<1>2. used[what] + 1 \in Nat  BY DEF Shape
<1>3. CASE what = "forks"
  BY <1>1, <1>2, <1>3 DEF Shape, BoundsAssumption
<1>4. CASE what # "forks"
  BY <1>1, <1>2, <1>4 DEF Shape
<1> QED  BY <1>3, <1>4

LEMMA EventsTyped ==
  ASSUME TypeOK, NEW c \in Conns, NEW s \in Sessions, Started(c, s)
  PROVE  /\ sess' \in [Conns -> Sessions \cup {None}] /\ events' \in [Conns -> Seq(Sessions)]
         /\ sess'[c] = s /\ events'[c] = Append(events[c], s)
         /\ \A d \in Conns : d # c => sess'[d] = sess[d] /\ events'[d] = events[d]
<1>1. sess \in [Conns -> Sessions \cup {None}] /\ events \in [Conns -> Seq(Sessions)]
  BY DEF TypeOK
<1>2. Append(events[c], s) \in Seq(Sessions)  BY <1>1
<1> QED  BY <1>1, <1>2 DEF Started, Set
LEMMA NotHolder ==
  ASSUME Names, TypeOK, NEW p \in Clients, pc[p] # "wait"
  PROVE  \A s \in Sessions : lock[s] # p
BY DEF Names, NamesAssumption, TypeOK

OpSteps == ForkSteps \cup {"ext", None}

\* An operation on a connection writes no more than this.
LEMMA OpWrites ==
  ASSUME TypeOK, NEW c \in Conns, UNCHANGED <<want, write, unsaved, clients>>,
         known' \in [Conns -> BOOLEAN], op' \in [Conns -> OpSteps], ext' \in [Rows -> Sessions \cup {None}],
         phase' \in [Conns -> {"none", "starting", "live", "over"}],
         conv' \in [Conns -> Rows \cup {None}], sess' \in [Conns -> Sessions \cup {None}],
         events' \in [Conns -> Seq(Sessions)]
  PROVE  TypeOK'
BY DEF TypeOK, clients, OpSteps, ForkSteps

LEMMA ClientTyped ==
  ASSUME Names, TypeOK, Shape, NEW p \in Clients,
         Connect(p) \/ Opens(p) \/ Leave(p) \/ SendLink(p) \/ fork_session(p)
  PROVE  TypeOK' /\ Shape'
<1> USE DEF Names, TypeOK, Shape, Set, conns
<1>1. CASE Connect(p)
  <2>1. /\ used' \in [connects : Nat, forks : Nat, closes : Nat, faults : Nat] /\ used'.forks <= 1
    BY <1>1, SpendTyped DEF Connect
  <2>2. ext[C1] \in Sessions \cup {None}  BY DEF Rows
  <2>3. \A s \in Sessions : lock[s] # p  BY <1>1, NotHolder DEF Connect
  <2>4. TypeOK'  BY <1>1, <2>2, <2>3 DEF Connect
  <2>5. Shape'  BY <1>1, <2>1 DEF Connect
  <2> QED  BY <2>4, <2>5
<1>2. CASE Reuse(p)
  <2>1. PICK c \in Conns : got' = Set(got, p, c)  BY <1>2 DEF Reuse, Reusable
  <2>2. \A s \in Sessions : lock[s] # p  BY <1>2, NotHolder DEF Reuse
  <2>3. TypeOK'  BY <1>2, <2>1, <2>2 DEF Reuse
  <2>4. Shape'  BY <1>2, <2>1 DEF Reuse
  <2> QED  BY <2>3, <2>4
<1>3. CASE Spawn(p)
  <2>1. PICK c \in Conns :
          /\ phase[c] = "none" /\ phase' = Set(phase, c, "starting")
          /\ known' = Set(known, c, TRUE) /\ want' = Set(want, c, sid[p])
          /\ got' = Set(got, p, c) /\ SpawnLocked(p, c)
    BY <1>3 DEF Spawn
  <2>2. \A s \in Sessions : lock[s] # p  BY <1>3, NotHolder DEF Spawn
  <2>3. CASE sid[p] = None
    <3>1. pc' = Set(pc, p, "has") /\ lock' = lock
      BY <2>1, <2>3 DEF SpawnLocked, Held
    <3>2. TypeOK'  BY <1>3, <2>1, <2>2, <3>1 DEF Spawn
    <3>3. Shape'  BY <1>3, <2>1, <3>1 DEF Spawn
    <3> QED  BY <3>2, <3>3
  <2>4. CASE sid[p] # None
    <3>1. pc' = Set(pc, p, "wait") /\ lock' = Set(lock, sid[p], p) /\ sid[p] \in Sessions
      BY <2>1, <2>4 DEF SpawnLocked, Held
    <3>2. TypeOK'  BY <1>3, <2>1, <2>2, <3>1 DEF Spawn
    <3>3. lock[sid[p]] = None  BY <1>3, <2>4 DEF Spawn, Free
    <3>4. Shape'
      BY <1>3, <2>1, <2>4, <3>1, <3>3 DEF Spawn, NamesAssumption
    <3> QED  BY <3>2, <3>4
  <2> QED  BY <2>3, <2>4
<1>4. CASE Waited(p)
  <2>1. sid[p] \in Sessions /\ lock[sid[p]] = p /\ lock' = Set(lock, sid[p], None)
    BY <1>4 DEF Waited, Released, Freed
  <2>2. TypeOK'  BY <1>4, <2>1 DEF Waited
  <2>3. Shape'  BY <1>4, <2>1 DEF Waited
  <2> QED  BY <2>2, <2>3
<1>5. CASE Leave(p)
  <2>1. \A s \in Sessions : lock[s] # p  BY <1>5, NotHolder DEF Leave
  <2>2. TypeOK'  BY <1>5, <2>1 DEF Leave
  <2>3. Shape'  BY <1>5 DEF Leave
  <2> QED  BY <2>2, <2>3
<1>6. CASE SendLink(p)
  <2>1. got[p] \in Conns  BY <1>6 DEF SendLink
  <2>2. TypeOK'  BY <1>6, <2>1 DEF SendLink, Rows, clients
  <2>3. Shape'  BY <1>6, <2>1 DEF SendLink, Rows, Open, ForkSteps, clients
  <2> QED  BY <2>2, <2>3
<1>7. CASE fork_session(p)
  <2>1. got[p] \in Conns  BY <1>7 DEF fork_session
  <2>2. /\ used' \in [connects : Nat, forks : Nat, closes : Nat, faults : Nat] /\ used'.forks <= 1
    BY <1>7, SpendTyped DEF fork_session
  <2>3. TypeOK'  BY <1>7, <2>1 DEF fork_session, Rows, clients
  <2>4. Shape'  BY <1>7, <2>1, <2>2 DEF fork_session, Rows, Open, ForkSteps, clients
  <2> QED  BY <2>3, <2>4
<1> HIDE DEF Names, TypeOK, Shape, Set, conns
<1> QED  BY <1>1, <1>2, <1>3, <1>4, <1>5, <1>6, <1>7 DEF Opens
LEMMA ConnTyped ==
  ASSUME Names, TypeOK, Shape, NEW c \in Conns,
         Handshake(c) \/ Dies(c) \/ disconnect(c) \/ LoopEnds(c)
  PROVE  TypeOK' /\ Shape'
<1> USE DEF Names, TypeOK, Shape, clients
<1>1. CASE Handshake(c)
  <2>1. PICK s \in Sessions : Started(c, s)
    BY <1>1 DEF Handshake, Sessions
  <2>2. /\ sess' \in [Conns -> Sessions \cup {None}] /\ events' \in [Conns -> Seq(Sessions)]
        /\ sess'[c] = s /\ \A d \in Conns : d # c => sess'[d] = sess[d]
    BY <2>1, EventsTyped
  <2>3. s # None  BY DEF Sessions, NamesAssumption
  <2>4. phase' \in [Conns -> {"none", "starting", "live", "over"}]
    BY <1>1 DEF Handshake, Set
  <2>5. UNCHANGED <<ext, known, want, conv, op, write, pc, sid, got, lock, unsaved>>
    BY <1>1 DEF Handshake
  <2>6. TypeOK'  BY <2>2, <2>4, <2>5
  <2>7. Shape'  BY <1>1, <2>2, <2>3 DEF Handshake, Set
  <2> QED  BY <2>6, <2>7
<1>2. CASE Dies(c)
  <2>1. /\ used' \in [connects : Nat, forks : Nat, closes : Nat, faults : Nat] /\ used'.forks <= 1
    BY <1>2, SpendTyped DEF Dies
  <2>2. TypeOK'  BY <1>2 DEF Dies, Set
  <2>3. Shape'  BY <1>2, <2>1 DEF Dies, Set
  <2> QED  BY <2>2, <2>3
<1>3. CASE disconnect(c)
  <2>1. /\ used' \in [connects : Nat, forks : Nat, closes : Nat, faults : Nat] /\ used'.forks <= 1
    BY <1>3, SpendTyped DEF disconnect
  <2>2. TypeOK'  BY <1>3 DEF disconnect, Set
  <2>3. Shape'  BY <1>3, <2>1 DEF disconnect, Set
  <2> QED  BY <2>2, <2>3
<1>4. CASE LoopEnds(c)
  <2>1. TypeOK'  BY <1>4 DEF LoopEnds, Set
  <2>2. Shape'  BY <1>4 DEF LoopEnds, Set
  <2> QED  BY <2>1, <2>2
<1> HIDE DEF Names, TypeOK, Shape, clients
<1> QED  BY <1>1, <1>2, <1>3, <1>4

LEMMA OpTyped ==
  ASSUME Names, TypeOK, Shape, NEW c \in Conns, Ops(c)
  PROVE  TypeOK' /\ Shape'
<1>0. /\ op \in [Conns -> OpSteps] /\ ext \in [Rows -> Sessions \cup {None}]
      /\ phase \in [Conns -> {"none", "starting", "live", "over"}]
      /\ known \in [Conns -> BOOLEAN]
      /\ conv \in [Conns -> Rows \cup {None}] /\ sess \in [Conns -> Sessions \cup {None}]
      /\ events \in [Conns -> Seq(Sessions)]
      /\ C1 \in Rows /\ C2 \in Rows /\ Forked \in Sessions /\ Forked # None
      /\ None \in OpSteps /\ "persist" \in OpSteps /\ "rebind" \in OpSteps /\ "started" \in OpSteps
  BY DEF TypeOK, OpSteps, ForkSteps, Rows, Sessions, Names, NamesAssumption
<1>a. \A v \in OpSteps : Set(op, c, v) \in [Conns -> OpSteps]
  BY <1>0, SetTyped
<1>b. \A k \in Rows : Set(conv, c, k) \in [Conns -> Rows \cup {None}]
  BY <1>0 DEF Set
<1>1. CASE SendExt(c)
  <2>1. LinkedWrites(c) \in [Rows -> Sessions \cup {None}]
    BY <1>0 DEF LinkedWrites, Set
  <2>2. op' \in [Conns -> OpSteps]  BY <1>0, <1>1 DEF SendExt, Set
  <2>3. TypeOK'  BY <1>0, <1>1, <2>1, <2>2, OpWrites DEF SendExt
  <2>4. Shape'
    BY <1>0, <1>1 DEF SendExt, Set, ForkSteps, Names, NamesAssumption, clients, Shape
  <2> QED  BY <2>3, <2>4
<1>2. CASE ForkReply(c)
  <2>1. op' \in [Conns -> OpSteps]  BY <1>0, <1>2, <1>a DEF ForkReply
  <2>2. TypeOK'  BY <1>0, <1>2, <2>1, OpWrites DEF ForkReply
  <2>3. Shape'
    BY <1>0, <1>2 DEF ForkReply, Set, ForkSteps, Names, NamesAssumption, clients, Shape
  <2> QED  BY <2>2, <2>3
<1>3. CASE persist_fork_outcome(c)
  <2>1. CASE ext[conv[c]] = sess[c]
    <3>1. op' = Set(op, c, "rebind") /\ ext' = Set(ext, C2, Forked)
      BY <1>3, <2>1 DEF persist_fork_outcome
    <3>2. op' \in [Conns -> OpSteps]  BY <1>0, <3>1, SetTyped
    <3>3. ext' \in [Rows -> Sessions \cup {None}]  BY <1>0, <3>1, SetTyped
    <3>4. TypeOK'  BY <1>0, <1>3, <2>1, <3>2, <3>3, OpWrites DEF persist_fork_outcome
    <3>5. Shape'
      BY <1>0, <1>3, <2>1 DEF persist_fork_outcome, Set, ForkSteps, Names, NamesAssumption, clients, Shape
    <3> QED  BY <3>4, <3>5
  <2>2. CASE ext[conv[c]] # sess[c]
    <3>1. /\ op' = Set(op, c, None) /\ phase' = Set(phase, c, "over")
          /\ known' = Set(known, c, FALSE)
          /\ UNCHANGED <<ext, want, sess, conv, events, write, clients, unsaved, used>>
      BY <1>3, <2>2 DEF persist_fork_outcome
    <3>2. /\ op' \in [Conns -> OpSteps] /\ known' \in [Conns -> BOOLEAN]
          /\ phase' \in [Conns -> {"none", "starting", "live", "over"}]
      BY <1>0, <3>1 DEF Set
    <3>3. TypeOK'  BY <1>0, <3>1, <3>2, OpWrites
    <3>4. Shape'
      BY <1>0, <3>1 DEF Set, ForkSteps, Names, NamesAssumption, clients, Shape
    <3> QED  BY <3>3, <3>4
  <2> QED  BY <2>1, <2>2
<1>4. CASE ForkRebind(c)
  <2>0. /\ op' \in {Set(op, c, None), Set(op, c, "started")}
        /\ conv' \in {conv, Set(conv, c, C2)}
    BY <1>4 DEF ForkRebind, Rebound
  <2>1. op' \in [Conns -> OpSteps] /\ conv' \in [Conns -> Rows \cup {None}]
    BY <1>0, <2>0, <1>a, <1>b
  <2>2. TypeOK'  BY <1>0, <1>4, <2>1, OpWrites DEF ForkRebind
  <2>3. Shape'
    BY <1>0, <1>4 DEF ForkRebind, Rebound, Set, ForkSteps, Names, NamesAssumption, clients, Shape
  <2> QED  BY <2>2, <2>3
<1>5. CASE ForkStarted(c)
  <2>0. op' \in [Conns -> OpSteps]  BY <1>0, <1>5 DEF ForkStarted, Set
  <2>1. CASE phase[c] = "over"
    <3>1. TypeOK'  BY <1>0, <1>5, <2>0, <2>1, OpWrites DEF ForkStarted
    <3>2. Shape'
      BY <1>0, <1>5, <2>1 DEF ForkStarted, Set, ForkSteps, Names, NamesAssumption, clients, Shape
    <3> QED  BY <3>1, <3>2
  <2>2. CASE phase[c] # "over"
    <3>1. Started(c, Forked)  BY <1>5, <2>2 DEF ForkStarted, ForkId
    <3>2. /\ sess' \in [Conns -> Sessions \cup {None}] /\ events' \in [Conns -> Seq(Sessions)]
          /\ sess'[c] = Forked /\ \A d \in Conns : d # c => sess'[d] = sess[d]
      BY <1>0, <3>1, EventsTyped
    <3>3. TypeOK'  BY <1>0, <1>5, <2>0, <3>2, OpWrites DEF ForkStarted
    <3>4. Shape'
      BY <1>0, <1>5, <3>2 DEF ForkStarted, Set, ForkSteps, Names, NamesAssumption, clients, Shape
    <3> QED  BY <3>3, <3>4
  <2> QED  BY <2>1, <2>2
<1> QED  BY <1>1, <1>2, <1>3, <1>4, <1>5 DEF Ops

LEMMA WorkerTyped ==
  ASSUME Names, TypeOK, Shape, NEW c \in Conns, Worker(c)
  PROVE  TypeOK' /\ Shape'
<1> USE DEF Names, TypeOK, Shape, clients
<1>1. CASE WorkerTake(c)
  <2>1. events[c] \in Seq(Sessions) /\ events[c] # <<>>  BY <1>1 DEF WorkerTake
  <2>2. Head(events[c]) \in Sessions /\ Tail(events[c]) \in Seq(Sessions)  BY <2>1
  <2>3. events' \in [Conns -> Seq(Sessions)]  BY <1>1, <2>2 DEF WorkerTake, Set
  <2>4. write' \in [Conns -> [row : Rows, id : Sessions] \cup {None}]
    BY <1>1, <2>2 DEF WorkerTake, Set, Aimed, RowNow
  <2>5. TypeOK'  BY <1>1, <2>3, <2>4 DEF WorkerTake
  <2>6. Shape'  BY <1>1 DEF WorkerTake
  <2> QED  BY <2>5, <2>6
<1>2. CASE WorkerWrite(c)
  <2>1. write[c] \in [row : Rows, id : Sessions]  BY <1>2 DEF WorkerWrite
  <2>2. TypeOK'  BY <1>2, <2>1 DEF WorkerWrite, Set
  <2>3. Shape'  BY <1>2 DEF WorkerWrite
  <2> QED  BY <2>2, <2>3
<1> HIDE DEF Names, TypeOK, Shape, clients
<1> QED  BY <1>1, <1>2 DEF Worker

\* What a fault changes: an operation ends, a write is aimed again or given up, an event
\* is gone. Nothing is written.
Pending(c) == {events[c][i] : i \in DOMAIN events[c]}

LEMMA FaultWrites ==
  ASSUME TypeOK, NEW c \in Conns, Faults(c)
  PROVE  /\ UNCHANGED <<ext, phase, known, want, sess, conv, clients>>
         /\ op' = op \/ (op[c] = "ext" /\ op' = Set(op, c, None))
         /\ \/ write' = write
            \/ write' = Set(write, c, None)
            \/ /\ write[c] # None /\ conv[c] # None
               /\ write' = Set(write, c, [row |-> conv[c], id |-> write[c].id])
         /\ events' \in [Conns -> Seq(Sessions)] /\ Pending(c)' \subseteq Pending(c)
         /\ \A d \in Conns : d # c => events'[d] = events[d] /\ Pending(d)' = Pending(d)
         /\ unsaved' \in {unsaved, unsaved \cup {c}}
<1>0. events \in [Conns -> Seq(Sessions)]  BY DEF TypeOK
<1>1. CASE SendExtFails(c)
  BY <1>0, <1>1 DEF SendExtFails, Pending
<1>2. CASE WorkerFails(c)
  BY <1>0, <1>2 DEF WorkerFails, Aimed, RowNow, Pending
<1>3. CASE EventLost(c)
  <2>1. events[c] \in Seq(Sessions) /\ events[c] # <<>>  BY <1>0, <1>3 DEF EventLost
  <2>2. PICK t \in {Tail(events[c]), Front(events[c])} : events' = Set(events, c, t)
    BY <1>3 DEF EventLost
  <2>3. /\ t \in Seq(Sessions)
        /\ \A i \in DOMAIN t : \E j \in DOMAIN events[c] : t[i] = events[c][j]
    <3>1. CASE t = Tail(events[c])
      <4>1. t \in Seq(Sessions)  BY <2>1, <3>1
      <4>2. \A i \in DOMAIN t : i + 1 \in DOMAIN events[c] /\ t[i] = events[c][i + 1]
        BY <2>1, <3>1
      <4> QED  BY <4>1, <4>2
    <3>2. CASE t = Front(events[c])
      <4>1. Len(events[c]) \in Nat /\ Len(events[c]) >= 1  BY <2>1
      <4>2. t \in Seq(Sessions) /\ Len(t) = Len(events[c]) - 1
            /\ \A i \in 1..(Len(events[c]) - 1) : t[i] = events[c][i]
        BY <2>1, <3>2, <4>1 DEF Front
      <4>3. DOMAIN t = 1..(Len(events[c]) - 1) /\ DOMAIN events[c] = 1..Len(events[c])
        BY <2>1, <4>2
      <4> QED  BY <4>1, <4>2, <4>3
    <3> QED  BY <3>1, <3>2
  <2>4. events'[c] = t /\ events' \in [Conns -> Seq(Sessions)]
        /\ \A d \in Conns : d # c => events'[d] = events[d]
    BY <1>0, <2>2, <2>3 DEF Set
  <2>5. Pending(c)' \subseteq Pending(c)  BY <2>3, <2>4 DEF Pending
  <2>6. \A d \in Conns : d # c => Pending(d)' = Pending(d)  BY <2>4 DEF Pending
  <2> QED  BY <1>3, <2>4, <2>5, <2>6 DEF EventLost
<1> QED  BY <1>1, <1>2, <1>3 DEF Faults

\* The parts of it, connection by connection.
LEMMA FaultParts ==
  ASSUME TypeOK, NEW c \in Conns, Faults(c)
  PROVE  /\ \A d \in Conns : d # c => op'[d] = op[d] /\ write'[d] = write[d]
         /\ op'[c] = op[c] \/ (op[c] = "ext" /\ op'[c] = None)
         /\ \/ write'[c] = write[c]
            \/ write'[c] = None
            \/ write[c] # None /\ conv[c] # None /\ write'[c].row = conv[c]
                             /\ write'[c].id = write[c].id
BY FaultWrites DEF TypeOK, Set

LEMMA FaultTyped ==
  ASSUME Names, TypeOK, Shape, NEW c \in Conns, Faults(c)
  PROVE  TypeOK' /\ Shape'
<1>1. /\ used' \in [connects : Nat, forks : Nat, closes : Nat, faults : Nat] /\ used'.forks <= 1
      /\ used'.forks = used.forks
  BY SpendTyped DEF Faults, SendExtFails, WorkerFails, EventLost, Names
<1>2. /\ UNCHANGED <<ext, phase, known, want, sess, conv, clients>>
      /\ events' \in [Conns -> Seq(Sessions)] /\ unsaved' \subseteq Conns
  <2>1. unsaved \subseteq Conns  BY DEF TypeOK
  <2>2. /\ UNCHANGED <<ext, phase, known, want, sess, conv, clients>>
        /\ events' \in [Conns -> Seq(Sessions)] /\ unsaved' \in {unsaved, unsaved \cup {c}}
    BY FaultWrites
  <2> QED  BY <2>1, <2>2
<1>3. op' \in [Conns -> OpSteps]
  <2>1. op \in [Conns -> OpSteps] /\ None \in OpSteps  BY DEF TypeOK, OpSteps, ForkSteps
  <2>2. op' = op \/ op' = Set(op, c, None)  BY FaultWrites
  <2> QED  BY <2>1, <2>2 DEF Set
<1>4. write' \in [Conns -> [row : Rows, id : Sessions] \cup {None}]
  <2>1. /\ write \in [Conns -> [row : Rows, id : Sessions] \cup {None}]
        /\ conv \in [Conns -> Rows \cup {None}]
    BY DEF TypeOK
  <2>2. \/ write' = write
        \/ write' = Set(write, c, None)
        \/ /\ write[c] # None /\ conv[c] # None
           /\ write' = Set(write, c, [row |-> conv[c], id |-> write[c].id])
    BY FaultWrites
  <2> QED  BY <2>1, <2>2 DEF Set
<1>5. TypeOK'  BY <1>2, <1>3, <1>4 DEF TypeOK, clients, OpSteps, ForkSteps
<1>6. Shape'
  BY <1>1, <1>2, FaultParts DEF Shape, clients, ForkSteps, Names, NamesAssumption
<1> QED  BY <1>5, <1>6

LEMMA TypesStep ==
  ASSUME Names, TypeOK, Shape, [Next]_vars
  PROVE  TypeOK' /\ Shape'
<1>1. CASE Next
  BY <1>1, ClientTyped, ConnTyped, OpTyped, WorkerTyped, FaultTyped DEF Next
<1>2. CASE UNCHANGED vars
  <2>1. TypeOK'  BY <1>2 DEF TypeOK, vars
  <2>2. Shape'  BY <1>2 DEF Shape, vars
  <2> QED  BY <2>1, <2>2
<1> QED  BY <1>1, <1>2

LEMMA TypesStart == ASSUME Names, Init  PROVE TypeOK /\ Shape
<1> USE DEF Names, NamesAssumption, Init
<1>1. TypeOK  BY DEF TypeOK, Sessions, Rows
<1>2. Shape  BY DEF Shape, ForkSteps, Rows, C1
<1> QED  BY <1>1, <1>2
-------------------------------------------------------------------------------
(* Which ids there are, and where the forked Session may be named.             *)

LEMMA StartedAdds ==
  ASSUME TypeOK, NEW c \in Conns, NEW s \in Sessions, Started(c, s)
  PROVE  /\ Pending(c)' = Pending(c) \cup {s} /\ sess'[c] = s
         /\ \A d \in Conns : d # c => Pending(d)' = Pending(d) /\ sess'[d] = sess[d]
<1>1. /\ events'[c] = Append(events[c], s) /\ sess'[c] = s /\ events[c] \in Seq(Sessions)
      /\ \A d \in Conns : d # c => sess'[d] = sess[d] /\ events'[d] = events[d]
  BY EventsTyped DEF TypeOK
<1>2. Pending(c)' = Pending(c) \cup {s}
  <2>1. /\ DOMAIN events'[c] = 1..(Len(events[c]) + 1) /\ DOMAIN events[c] = 1..Len(events[c])
        /\ \A i \in DOMAIN events[c] : events'[c][i] = events[c][i]
        /\ events'[c][Len(events[c]) + 1] = s
    BY <1>1
  <2>2. Len(events[c]) \in Nat  BY <1>1
  <2> QED  BY <2>1, <2>2 DEF Pending
<1> QED  BY <1>1, <1>2 DEF Pending

LEMMA TakenWasPending ==
  ASSUME TypeOK, NEW c \in Conns, WorkerTake(c)
  PROVE  /\ Head(events[c]) \in Pending(c) /\ Pending(c)' \subseteq Pending(c)
         /\ \A d \in Conns : d # c => Pending(d)' = Pending(d) /\ write'[d] = write[d]
         /\ write'[c] = IF known[c] /\ conv[c] # None
                        THEN [row |-> conv[c], id |-> Head(events[c])] ELSE None
<1>1. /\ events[c] \in Seq(Sessions) /\ events[c] # <<>> /\ write \in [Conns -> [row : Rows, id : Sessions] \cup {None}]
      /\ events \in [Conns -> Seq(Sessions)]
  BY DEF TypeOK, WorkerTake
<1>2. events' = [events EXCEPT ![c] = Tail(events[c])]  BY DEF WorkerTake, Set
<1>3. Head(events[c]) = events[c][1] /\ 1 \in DOMAIN events[c]  BY <1>1
<1>4. \A i \in DOMAIN Tail(events[c]) : i + 1 \in DOMAIN events[c] /\ Tail(events[c])[i] = events[c][i + 1]
  BY <1>1
<1>5. Pending(c)' \subseteq Pending(c)  BY <1>1, <1>2, <1>4 DEF Pending
<1>6. \A d \in Conns : d # c => Pending(d)' = Pending(d)  BY <1>1, <1>2 DEF Pending
<1> QED  BY <1>1, <1>3, <1>5, <1>6 DEF Pending, WorkerTake, Set, Aimed, RowNow

\* The forked Session is known to the connection that made it, once that connection has
\* moved to the new row; no client asks for it, as no client opens that row.
Origin ==
  /\ ext[C1] # Forked
  /\ \A p \in Clients : sid[p] # Forked
  /\ \A c \in Conns :
       /\ want[c] # Forked
       /\ sess[c] = Forked \/ Forked \in Pending(c) \/ op[c] = "started" => conv[c] = C2
       /\ write[c] # None /\ write[c].row = C1 => write[c].id # Forked
       /\ write[c] # None /\ write[c].id = Forked => conv[c] = C2

\* At most one connection ever forks.
Forker(c) == op[c] \in ForkSteps \/ conv[c] = C2 \/ sess[c] = Forked
OneForker ==
  /\ \A c \in Conns : Forker(c) => used.forks = 1
  /\ \A c, d \in Conns : Forker(c) /\ Forker(d) => c = d

\* Nobody names a Session before the connection that starts it has started it.
Unknown(s) ==
  /\ \A k \in Rows : ext[k] # s
  /\ \A p \in Clients : sid[p] # s
  /\ \A c \in Conns : /\ want[c] # s /\ sess[c] # s /\ s \notin Pending(c)
                      /\ write[c] # None => write[c].id # s
Fresh == \A d \in Conns : phase[d] \in {"none", "starting"} => Unknown(d)

LEMMA RowsDiffer ==
  ASSUME Names
  PROVE  C1 # C2 /\ C1 \in Rows /\ C2 \in Rows /\ None \notin Rows
BY DEF C1, C2, Rows, Names, NamesAssumption

LEMMA OriginClient ==
  ASSUME Names, TypeOK, Shape, Origin, NEW p \in Clients,
         Connect(p) \/ Opens(p) \/ Leave(p) \/ SendLink(p) \/ fork_session(p)
  PROVE  Origin'
<1> USE RowsDiffer DEF TypeOK, Origin, Set, conns, clients
<1>1. CASE Connect(p)  BY <1>1 DEF Connect, Pending
<1>2. CASE Reuse(p) \/ Waited(p) \/ Leave(p)  BY <1>2 DEF Reuse, Waited, Leave, Pending
<1>3. CASE Spawn(p)  BY <1>3 DEF Spawn, Pending
<1>4. CASE SendLink(p)
  <2>1. got[p] \in Conns  BY <1>4 DEF SendLink, Shape
  <2> QED  BY <1>4, <2>1 DEF SendLink, Pending
<1>5. CASE fork_session(p)
  <2>1. got[p] \in Conns  BY <1>5 DEF fork_session, Shape
  <2> QED  BY <1>5, <2>1 DEF fork_session, Pending
<1> HIDE DEF TypeOK, Origin, Set, conns, clients
<1> QED  BY <1>1, <1>2, <1>3, <1>4, <1>5 DEF Opens

LEMMA OriginConn ==
  ASSUME Names, TypeOK, Shape, Origin, NEW c \in Conns,
         Handshake(c) \/ Dies(c) \/ disconnect(c) \/ LoopEnds(c)
  PROVE  Origin'
<1> USE RowsDiffer DEF Origin, Set, clients
<1>1. CASE Handshake(c)
  <2>1. PICK s \in Sessions \ {Forked} : Started(c, s)
    BY <1>1 DEF Handshake, Sessions, TypeOK, Names, NamesAssumption
  <2> QED  BY <1>1, <2>1, StartedAdds DEF Handshake
<1>2. CASE Dies(c) \/ disconnect(c) \/ LoopEnds(c)
  BY <1>2 DEF Dies, disconnect, LoopEnds, Pending
<1> HIDE DEF Origin, Set, clients
<1> QED  BY <1>1, <1>2

LEMMA OriginOp ==
  ASSUME Names, TypeOK, Shape, Origin, NEW c \in Conns, Ops(c)
  PROVE  Origin'
<1> USE RowsDiffer DEF TypeOK, Origin, Set, clients, Pending
<1>1. CASE SendExt(c)
  BY <1>1 DEF SendExt, LinkedWrites, Shape, Names, NamesAssumption
<1>2. CASE ForkReply(c)  BY <1>2 DEF ForkReply, Names, NamesAssumption
<1>3. CASE persist_fork_outcome(c)  BY <1>3 DEF persist_fork_outcome, Names, NamesAssumption
<1>4. CASE ForkRebind(c)  BY <1>4 DEF ForkRebind, Rebound, Names, NamesAssumption
<1> HIDE DEF Pending
<1>5. CASE ForkStarted(c)
  <2>1. CASE phase[c] = "over"
    BY <1>5, <2>1 DEF ForkStarted, Names, NamesAssumption, Pending
  <2>2. CASE phase[c] # "over"
    <3>1. Started(c, Forked) /\ Forked \in Sessions
      BY <1>5, <2>2 DEF ForkStarted, ForkId, Sessions
    <3> QED  BY <1>5, <3>1, StartedAdds DEF ForkStarted, Names, NamesAssumption
  <2> QED  BY <2>1, <2>2
<1> HIDE DEF TypeOK, Origin, Set, clients
<1> QED  BY <1>1, <1>2, <1>3, <1>4, <1>5 DEF Ops

LEMMA OriginWorker ==
  ASSUME Names, TypeOK, Shape, Origin, NEW c \in Conns, Worker(c)
  PROVE  Origin'
<1> USE RowsDiffer DEF Origin, clients
<1>1. CASE WorkerTake(c)
  <2>1. /\ Head(events[c]) \in Pending(c) /\ Pending(c)' \subseteq Pending(c)
        /\ \A d \in Conns : d # c => Pending(d)' = Pending(d) /\ write'[d] = write[d]
        /\ write'[c] = IF known[c] /\ conv[c] # None
                       THEN [row |-> conv[c], id |-> Head(events[c])] ELSE None
    BY <1>1, TakenWasPending
  <2>2. UNCHANGED <<ext, want, sess, conv, op, sid>>  BY <1>1 DEF WorkerTake
  <2>3. write'[c] # None => (write'[c].row = C1 => write'[c].id # Forked)
                             /\ (write'[c].id = Forked => conv[c] = C2)
    <3>1. CASE known[c] /\ conv[c] # None  BY <2>1, <3>1
    <3>2. CASE ~(known[c] /\ conv[c] # None)  BY <2>1, <3>2
    <3> QED  BY <3>1, <3>2
  <2> QED  BY <2>1, <2>2, <2>3
<1>2. CASE WorkerWrite(c)
  BY <1>2 DEF WorkerWrite, TypeOK, Set, Pending
<1> HIDE DEF Origin, clients
<1> QED  BY <1>1, <1>2 DEF Worker

LEMMA OriginFault ==
  ASSUME Names, TypeOK, Shape, Origin, NEW c \in Conns, Faults(c)
  PROVE  Origin'
<1>1. UNCHANGED <<ext, want, sess, conv, sid>>  BY FaultWrites DEF clients
<1>2. \A d \in Conns : Pending(d)' \subseteq Pending(d)  BY FaultWrites
<1>3. \A d \in Conns : op'[d] = "started" => op[d] = "started"
  BY FaultParts DEF Names, NamesAssumption
<1>4. ASSUME NEW d \in Conns, write'[d] # None
      PROVE  /\ write'[d].row = C1 => write'[d].id # Forked
             /\ write'[d].id = Forked => conv[d] = C2
  <2>1. CASE write'[d] = write[d]  BY <1>4, <2>1 DEF Origin
  <2>2. CASE d = c /\ write'[c] # write[c]
    <3>1. write[c] # None /\ write'[c].row = conv[c] /\ write'[c].id = write[c].id
      BY <1>4, <2>2, FaultParts
    <3> QED  BY <2>2, <3>1, RowsDiffer DEF Origin
  <2> QED  BY <2>1, <2>2, FaultParts
<1> QED  BY <1>1, <1>2, <1>3, <1>4 DEF Origin

LEMMA NoNewForker ==
  ASSUME OneForker, used'.forks = used.forks, \A c \in Conns : Forker(c)' => Forker(c)
  PROVE  OneForker'
BY DEF OneForker

LEMMA ForkerStep ==
  ASSUME Names, TypeOK, Shape, Origin, OneForker, Next
  PROVE  OneForker'
<1>0. /\ op \in [Conns -> OpSteps] /\ conv \in [Conns -> Rows \cup {None}]
      /\ sess \in [Conns -> Sessions \cup {None}]
      /\ None \notin ForkSteps /\ "ext" \notin ForkSteps /\ C1 # C2
  BY RowsDiffer DEF TypeOK, OpSteps, ForkSteps, Names, NamesAssumption
<1>1. ASSUME NEW p \in Clients, Connect(p)  PROVE OneForker'
  <2>1. used'.forks = used.forks  BY <1>1, SpendTyped DEF Connect, Names
  <2> QED  BY <1>1, <2>1, NoNewForker DEF Connect, Forker, conns
<1>2. ASSUME NEW p \in Clients, Opens(p) \/ Leave(p)  PROVE OneForker'
  BY <1>2, NoNewForker DEF Opens, Reuse, Spawn, Waited, Leave, Forker, conns
<1>3. ASSUME NEW p \in Clients, SendLink(p)  PROVE OneForker'
  <2>1. got[p] \in Conns  BY <1>3 DEF SendLink, Shape
  <2>2. \A c \in Conns : Forker(c)' => Forker(c)
    BY <1>0, <1>3, <2>1 DEF SendLink, Forker, Set
  <2> QED  BY <1>3, <2>2, NoNewForker DEF SendLink
<1>4. ASSUME NEW p \in Clients, fork_session(p)  PROVE OneForker'
  <2>1. got[p] \in Conns  BY <1>4 DEF fork_session, Shape
  <2>2. used.forks = 0 /\ used'.forks = 1  BY <1>4, SpendTyped DEF fork_session, Names
  <2>3. \A c \in Conns : ~Forker(c)  BY <2>2 DEF OneForker
  <2>4. \A c \in Conns : c # got[p] => ~Forker(c)'
    BY <1>0, <1>4, <2>1, <2>3 DEF fork_session, Forker, Set
  <2> QED  BY <2>2, <2>4 DEF OneForker
<1>5. ASSUME NEW c \in Conns, Handshake(c)  PROVE OneForker'
  <2>1. PICK s \in Sessions \ {Forked} : Started(c, s)
    BY <1>5 DEF Handshake, Sessions, TypeOK, Names, NamesAssumption, Origin
  <2>2. \A d \in Conns : Forker(d)' => Forker(d)
    BY <1>5, <2>1, StartedAdds DEF Handshake, Forker
  <2> QED  BY <1>5, <2>2, NoNewForker DEF Handshake
<1>6. ASSUME NEW c \in Conns, Dies(c) \/ disconnect(c)  PROVE OneForker'
  <2>1. used'.forks = used.forks  BY <1>6, SpendTyped DEF Dies, disconnect, Names
  <2> QED  BY <1>6, <2>1, NoNewForker DEF Dies, disconnect, Forker
<1>7. ASSUME NEW c \in Conns, LoopEnds(c) \/ Worker(c)  PROVE OneForker'
  BY <1>7, NoNewForker DEF LoopEnds, Worker, WorkerTake, WorkerWrite, Forker
<1>8. ASSUME NEW c \in Conns, Ops(c)  PROVE OneForker'
  <2>1. \A d \in Conns : d # c => (Forker(d)' => Forker(d))
    <3>1. \A d \in Conns : d # c => op'[d] = op[d] /\ conv'[d] = conv[d] /\ sess'[d] = sess[d]
      BY <1>0, <1>8 DEF Ops, SendExt, ForkReply, persist_fork_outcome, ForkRebind, Rebound,
                        ForkStarted, Started, Set
    <3> QED  BY <3>1 DEF Forker
  <2>2. Forker(c)' => Forker(c)
    <3>1. CASE SendExt(c)  BY <1>0, <3>1 DEF SendExt, Set, Forker
    <3>2. CASE ForkReply(c) \/ persist_fork_outcome(c) \/ ForkRebind(c) \/ ForkStarted(c)
      BY <3>2 DEF ForkReply, persist_fork_outcome, ForkRebind, ForkStarted, Forker, ForkSteps
    <3> QED  BY <1>8, <3>1, <3>2 DEF Ops
  <2>3. used' = used
    BY <1>8 DEF Ops, SendExt, ForkReply, persist_fork_outcome, ForkRebind, ForkStarted
  <2> QED  BY <2>1, <2>2, <2>3, NoNewForker
<1>9. ASSUME NEW c \in Conns, Faults(c)  PROVE OneForker'
  <2>1. used'.forks = used.forks
    BY <1>9, SpendTyped DEF Faults, SendExtFails, WorkerFails, EventLost, Names
  <2>2. UNCHANGED <<conv, sess>>  BY <1>9, FaultWrites
  <2>3. \A d \in Conns : op'[d] = op[d] \/ op'[d] = None  BY <1>9, FaultParts
  <2>4. \A d \in Conns : Forker(d)' => Forker(d)  BY <1>0, <2>2, <2>3 DEF Forker
  <2> QED  BY <2>1, <2>4, NoNewForker
<1> QED  BY <1>1, <1>2, <1>3, <1>4, <1>5, <1>6, <1>7, <1>8, <1>9 DEF Next

LEMMA UnknownStep ==
  ASSUME Names, TypeOK, Shape, Next, NEW s \in Conns, Unknown(s), ~Handshake(s)
  PROVE  Unknown(s)'
<1>0. s # None /\ s # Forked /\ C1 \in Rows /\ C2 \in Rows
  BY RowsDiffer DEF Names, NamesAssumption
<1> USE DEF TypeOK, Unknown, Set
<1>1. ASSUME NEW p \in Clients, Connect(p) \/ Reuse(p) \/ Waited(p) \/ Leave(p)
      PROVE  Unknown(s)'
  BY <1>0, <1>1 DEF Connect, Reuse, Waited, Leave, conns, Pending
<1>2. ASSUME NEW p \in Clients, Spawn(p)  PROVE Unknown(s)'
  BY <1>0, <1>2 DEF Spawn, Pending
<1>3. ASSUME NEW p \in Clients, SendLink(p) \/ fork_session(p)  PROVE Unknown(s)'
  BY <1>0, <1>3 DEF SendLink, fork_session, clients, Pending
<1>4. ASSUME NEW c \in Conns, Dies(c) \/ disconnect(c) \/ LoopEnds(c)  PROVE Unknown(s)'
  BY <1>0, <1>4 DEF Dies, disconnect, LoopEnds, clients, Pending
<1>5. ASSUME NEW c \in Conns, SendExt(c) \/ ForkReply(c) \/ persist_fork_outcome(c) \/ ForkRebind(c)
      PROVE  Unknown(s)'
  <2>1. \A k \in Rows : ext'[k] # s
    BY <1>0, <1>5 DEF SendExt, LinkedWrites, ForkReply, persist_fork_outcome, ForkRebind
  <2> QED  BY <1>5, <2>1 DEF SendExt, ForkReply, persist_fork_outcome, ForkRebind, clients, Pending
<1>6. ASSUME NEW c \in Conns, WorkerWrite(c)  PROVE Unknown(s)'
  BY <1>6 DEF WorkerWrite, clients, Pending
<1> HIDE DEF TypeOK, Set
<1>7. ASSUME NEW c \in Conns, Handshake(c)  PROVE Unknown(s)'
  <2>1. PICK t \in Sessions \ {s} : Started(c, t)
    BY <1>7 DEF Handshake, Sessions, TypeOK
  <2> QED  BY <1>7, <2>1, StartedAdds DEF Handshake, clients
<1>8. ASSUME NEW c \in Conns, ForkStarted(c)  PROVE Unknown(s)'
  <2>1. CASE phase[c] = "over"  BY <1>8, <2>1 DEF ForkStarted, clients, Pending
  <2>2. CASE phase[c] # "over"
    <3>1. Started(c, Forked) /\ Forked \in Sessions
      BY <1>8, <2>2 DEF ForkStarted, ForkId, Sessions
    <3> QED  BY <1>0, <1>8, <3>1, StartedAdds DEF ForkStarted, clients
  <2> QED  BY <2>1, <2>2
<1>9. ASSUME NEW c \in Conns, WorkerTake(c)  PROVE Unknown(s)'
  <2>1. /\ Head(events[c]) \in Pending(c) /\ Pending(c)' \subseteq Pending(c)
        /\ \A d \in Conns : d # c => Pending(d)' = Pending(d) /\ write'[d] = write[d]
        /\ write'[c] = IF known[c] /\ conv[c] # None
                       THEN [row |-> conv[c], id |-> Head(events[c])] ELSE None
    BY <1>9, TakenWasPending
  <2>2. write'[c] # None => write'[c].id # s
    <3>1. CASE known[c] /\ conv[c] # None  BY <2>1, <3>1
    <3>2. CASE ~(known[c] /\ conv[c] # None)  BY <2>1, <3>2
    <3> QED  BY <3>1, <3>2
  <2> QED  BY <1>9, <2>1, <2>2 DEF WorkerTake, clients
<1>10. ASSUME NEW c \in Conns, Faults(c)  PROVE Unknown(s)'
  <2>1. UNCHANGED <<ext, want, sess, sid>>  BY <1>10, FaultWrites DEF clients
  <2>2. \A d \in Conns : Pending(d)' \subseteq Pending(d)  BY <1>10, FaultWrites
  <2>3. \A d \in Conns : write'[d] # None => write[d] # None /\ write'[d].id = write[d].id
    BY <1>10, FaultParts
  <2> QED  BY <2>1, <2>2, <2>3
<1> HIDE DEF Unknown
<1> QED
  BY <1>1, <1>2, <1>3, <1>4, <1>5, <1>6, <1>7, <1>8, <1>9, <1>10 DEF Next, Opens, Ops, Worker

\* Phases go one way only.
Young(c) == phase[c] \in {"none", "starting"}

LEMMA YoungBefore ==
  ASSUME TypeOK, Next, NEW d \in Conns, Young(d)'
  PROVE  Young(d) /\ ~Handshake(d) /\ (phase'[d] = "none" => phase[d] = "none")
<1> USE DEF TypeOK, Young, Set
<1>1. ASSUME NEW p \in Clients, Connect(p) \/ Opens(p) \/ Leave(p) \/ SendLink(p) \/ fork_session(p)
      PROVE  Young(d) /\ (phase'[d] = "none" => phase[d] = "none")
  BY <1>1 DEF Connect, Opens, Reuse, Spawn, Waited, Leave, SendLink, fork_session, conns
<1>2. ASSUME NEW c \in Conns, Handshake(c) \/ Dies(c) \/ disconnect(c) \/ LoopEnds(c) \/ Worker(c)
      PROVE  Young(d) /\ (phase'[d] = "none" => phase[d] = "none")
  BY <1>2 DEF Handshake, Dies, disconnect, LoopEnds, Worker, WorkerTake, WorkerWrite
<1>3. ASSUME NEW c \in Conns, Ops(c)
      PROVE  Young(d) /\ (phase'[d] = "none" => phase[d] = "none")
  BY <1>3 DEF Ops, SendExt, ForkReply, persist_fork_outcome, ForkRebind, ForkStarted
<1>4. ~Handshake(d)  BY DEF Handshake
<1> HIDE DEF TypeOK, Set
<1>5. ASSUME NEW c \in Conns, Faults(c)
      PROVE  Young(d) /\ (phase'[d] = "none" => phase[d] = "none")
  <2>1. phase' = phase  BY <1>5, FaultWrites
  <2> QED  BY <2>1
<1> HIDE DEF Young
<1> QED  BY <1>1, <1>2, <1>3, <1>4, <1>5 DEF Next

LEMMA FreshStep ==
  ASSUME Names, TypeOK, Shape, Fresh, Next
  PROVE  Fresh'
BY YoungBefore, UnknownStep DEF Fresh, Young
-------------------------------------------------------------------------------
(* One process for a Session. The lock of spawn_agent is held until the session *)
(* has started, so that nobody else starts it: unless the wait timed out.       *)

Guarded ==
  /\ \A c \in Conns : phase[c] = "starting" /\ want[c] # None
                        => lock[want[c]] # None /\ got[lock[want[c]]] = c
  /\ \A s \in Sessions : \A d \in Conns :
       lock[s] # None /\ Open(d) /\ sess[d] = s => d = got[lock[s]]
  /\ OneProcess

LEMMA GuardedQuiet ==
  ASSUME Guarded, UNCHANGED <<want, sess, got, lock>>,
         \A c \in Conns : /\ phase'[c] = "starting" => phase[c] = "starting"
                          /\ Open(c)' => Open(c)
  PROVE  Guarded'
BY DEF Guarded, OneProcess

LEMMA GuardedClient ==
  ASSUME ~Timeouts, Names, TypeOK, Shape, Guarded, NEW p \in Clients,
         Connect(p) \/ Opens(p) \/ Leave(p) \/ SendLink(p) \/ fork_session(p)
  PROVE  Guarded'
<1>1. CASE Connect(p) \/ Reuse(p)
  <2>1. \A s \in Sessions : lock[s] # p  BY <1>1, NotHolder DEF Connect, Reuse
  <2>2. /\ \A q \in Clients : q # p => got'[q] = got[q]
        /\ UNCHANGED <<phase, known, want, sess, lock>>
    BY <1>1 DEF Connect, Reuse, Set, TypeOK, conns
  <2> QED  BY <2>1, <2>2 DEF Guarded, OneProcess, Open, TypeOK
<1>2. CASE Spawn(p)
  <2>1. PICK c \in Conns :
          /\ phase[c] = "none" /\ phase' = Set(phase, c, "starting")
          /\ known' = Set(known, c, TRUE) /\ want' = Set(want, c, sid[p])
          /\ got' = Set(got, p, c) /\ SpawnLocked(p, c)
    BY <1>2 DEF Spawn
  <2>2. \A s \in Sessions : lock[s] # p  BY <1>2, NotHolder DEF Spawn
  <2>3. /\ sess' = sess /\ sess[c] = None /\ \A s \in Sessions : s # None
        /\ \A d \in Conns : Open(d)' => d = c \/ Open(d)
        /\ \A d \in Conns : d # c => phase'[d] = phase[d] /\ want'[d] = want[d]
        /\ want'[c] = sid[p] /\ got'[p] = c
        /\ \A q \in Clients : q # p => got'[q] = got[q]
    BY <1>2, <2>1 DEF Spawn, Shape, TypeOK, Set, Open, Sessions, Names, NamesAssumption
  <2>4. OneProcess'  BY <2>3 DEF Guarded, OneProcess
  <2>5. CASE sid[p] = None
    <3>1. lock' = lock  BY <2>1, <2>5 DEF SpawnLocked, Held
    <3>2. \A s \in Sessions : lock[s] # None => got'[lock[s]] = got[lock[s]]
      BY <2>2, <2>3 DEF TypeOK
    <3>3. \A d \in Conns : phase'[d] = "starting" /\ want'[d] # None
                             => lock[want'[d]] # None /\ got'[lock[want'[d]]] = d
      <4>1. ASSUME NEW d \in Conns, phase'[d] = "starting", want'[d] # None
            PROVE  lock[want[d]] # None /\ got[lock[want[d]]] = d /\ want'[d] = want[d]
                   /\ want[d] \in Sessions
        <5>1. d # c  BY <2>3, <2>5, <4>1
        <5>2. want'[d] = want[d] /\ phase[d] = "starting"  BY <2>3, <4>1, <5>1
        <5> QED  BY <4>1, <5>2 DEF Guarded, TypeOK
      <4> QED  BY <3>2, <4>1
    <3>4. \A s \in Sessions : \A d \in Conns :
            lock[s] # None /\ Open(d)' /\ sess[d] = s => d = got'[lock[s]]
      BY <2>3, <3>2 DEF Guarded
    <3> QED  BY <2>3, <2>4, <3>1, <3>3, <3>4 DEF Guarded
  <2>6. CASE sid[p] # None
    <3>1. lock' = Set(lock, sid[p], p) /\ sid[p] \in Sessions /\ lock[sid[p]] = None /\ p # None
      BY <1>2, <2>1, <2>6 DEF SpawnLocked, Held, Spawn, Free, TypeOK, Names, NamesAssumption
    <3>2. \A s \in Sessions : s # sid[p] => lock'[s] = lock[s]
      BY <3>1 DEF Set, TypeOK
    <3>3. lock'[sid[p]] = p  BY <3>1 DEF Set, TypeOK
    <3>4. \A d \in Conns : ~(Open(d) /\ sess[d] = sid[p])
      BY <1>2, <2>6 DEF Spawn, Reusable
    <3>5. \A d \in Conns : phase[d] = "starting" => want[d] # sid[p]
      BY <2>6, <3>1 DEF Guarded
    <3>6. \A d \in Conns : phase'[d] = "starting" /\ want'[d] # None
                             => lock'[want'[d]] # None /\ got'[lock'[want'[d]]] = d
      <4>1. ASSUME NEW d \in Conns, d # c, phase'[d] = "starting", want'[d] # None
            PROVE  lock'[want'[d]] # None /\ got'[lock'[want'[d]]] = d
        <5>1. want'[d] = want[d] /\ want[d] \in Sessions /\ want[d] # sid[p] /\ phase[d] = "starting"
          BY <2>3, <3>5, <4>1 DEF TypeOK
        <5>2. lock[want[d]] # None /\ got[lock[want[d]]] = d /\ lock[want[d]] \in Clients
          BY <4>1, <5>1 DEF Guarded, TypeOK
        <5> QED  BY <2>2, <2>3, <3>2, <5>1, <5>2
      <4> QED  BY <2>3, <3>1, <3>3, <4>1
    <3>7. \A s \in Sessions : \A d \in Conns :
            lock'[s] # None /\ Open(d)' /\ sess'[d] = s => d = got'[lock'[s]]
      <4>1. SUFFICES ASSUME NEW s \in Sessions, NEW d \in Conns,
                            lock'[s] # None, Open(d)', sess[d] = s
                     PROVE  d = got'[lock'[s]]
        BY <2>3
      <4>2. d # c /\ Open(d)  BY <2>3, <4>1
      <4>3. s # sid[p]  BY <3>4, <4>1, <4>2
      <4>4. lock[s] \in Clients /\ lock[s] # p /\ d = got[lock[s]]
        BY <2>2, <3>2, <4>1, <4>2, <4>3 DEF Guarded, TypeOK
      <4> QED  BY <2>3, <3>2, <4>3, <4>4
    <3> QED  BY <2>4, <3>6, <3>7 DEF Guarded
  <2> QED  BY <2>5, <2>6
<1>3. CASE Waited(p)
  <2>1. /\ sid[p] \in Sessions /\ lock[sid[p]] = p /\ lock' = Set(lock, sid[p], None)
        /\ phase[got[p]] # "starting" /\ sid[p] # None
        /\ UNCHANGED <<phase, known, want, sess, got>>
    BY <1>3 DEF Waited, Released, Freed, conns, Shape, TypeOK
  <2>2. /\ \A s \in Sessions : s # sid[p] => lock'[s] = lock[s]
        /\ lock'[sid[p]] = None
    BY <2>1 DEF Set, TypeOK
  <2>3. \A c \in Conns : phase[c] = "starting" => want[c] # sid[p]
    BY <2>1 DEF Guarded
  <2>4. \A c \in Conns : phase[c] = "starting" /\ want[c] # None
                           => lock'[want[c]] # None /\ got[lock'[want[c]]] = c
    BY <2>2, <2>3 DEF Guarded, TypeOK
  <2>5. \A s \in Sessions : \A d \in Conns :
          lock'[s] # None /\ Open(d) /\ sess[d] = s => d = got[lock'[s]]
    BY <2>2 DEF Guarded
  <2>6. OneProcess' /\ \A d \in Conns : Open(d)' <=> Open(d)
    BY <2>1 DEF Guarded, OneProcess, Open
  <2> QED  BY <2>1, <2>4, <2>5, <2>6 DEF Guarded
<1>4. CASE Leave(p) \/ SendLink(p) \/ fork_session(p)
  <2>1. UNCHANGED <<phase, known, want, sess, got, lock>>
    BY <1>4 DEF Leave, SendLink, fork_session, conns, clients
  <2> QED  BY <2>1, GuardedQuiet DEF Open
<1> QED  BY <1>1, <1>2, <1>3, <1>4 DEF Opens
LEMMA GuardedHandshake ==
  ASSUME Names, TypeOK, Shape, Fresh, Guarded, NEW c \in Conns, Handshake(c)
  PROVE  Guarded'
<1>1. PICK s \in Sessions : Started(c, s) /\ (s = want[c] \/ s = c)
  BY DEF Handshake, Sessions, TypeOK
<1>2. /\ phase[c] = "starting" /\ s # None /\ sess' = Set(sess, c, s)
      /\ sess'[c] = s /\ \A d \in Conns : d # c => sess'[d] = sess[d]
      /\ UNCHANGED <<known, want, got, lock>>
  BY <1>1 DEF Handshake, Started, Set, TypeOK, Sessions, Names, NamesAssumption, clients
<1>3. \A d \in Conns : (phase'[d] = "starting" => phase[d] = "starting") /\ (Open(d)' => Open(d))
  BY <1>2 DEF Handshake, Open, Set, TypeOK
<1>4. lock[s] # None => got[lock[s]] = c
  <2>1. CASE s = want[c]  BY <1>2, <2>1 DEF Guarded
  <2>2. CASE s = c
    <3>1. \A p \in Clients : sid[p] # c  BY <1>2 DEF Fresh, Unknown
    <3> QED  BY <1>1, <2>2, <3>1 DEF TypeOK
  <2> QED  BY <1>1, <2>1, <2>2
<1>5. \A d \in Conns : Open(d) /\ d # c => sess[d] # s
  <2>1. CASE s = want[c]
    <3>1. lock[s] # None  BY <1>2, <2>1 DEF Guarded
    <3> QED  BY <1>4, <3>1 DEF Guarded
  <2>2. CASE s = c  BY <1>2, <2>2 DEF Fresh, Unknown
  <2> QED  BY <1>1, <2>1, <2>2
<1>6. OneProcess'  BY <1>2, <1>3, <1>5 DEF Guarded, OneProcess
<1>7. \A t \in Sessions : \A d \in Conns :
        lock[t] # None /\ Open(d)' /\ sess'[d] = t => d = got[lock[t]]
  BY <1>2, <1>3, <1>4 DEF Guarded
<1> QED  BY <1>2, <1>3, <1>6, <1>7 DEF Guarded

LEMMA GuardedConn ==
  ASSUME Names, TypeOK, Shape, Origin, OneForker, Guarded, NEW c \in Conns,
         Dies(c) \/ disconnect(c) \/ LoopEnds(c) \/ Ops(c) \/ Worker(c)
  PROVE  Guarded'
<1>1. \A d \in Conns : (phase'[d] = "starting" => phase[d] = "starting") /\ (Open(d)' => Open(d))
  <2>1. CASE Dies(c) \/ disconnect(c) \/ LoopEnds(c)
    <3>1. /\ phase \in [Conns -> {"none", "starting", "live", "over"}]
          /\ known \in [Conns -> BOOLEAN]
      BY DEF TypeOK
    <3>2. CASE Dies(c)  BY <3>1, <3>2 DEF Dies, Open, Set
    <3>3. CASE disconnect(c)  BY <3>1, <3>3 DEF disconnect, Open, Set
    <3>4. CASE LoopEnds(c)  BY <3>1, <3>4 DEF LoopEnds, Open, Set
    <3> QED  BY <2>1, <3>2, <3>3, <3>4
  <2>2. CASE SendExt(c) \/ ForkReply(c) \/ ForkRebind(c) \/ ForkStarted(c) \/ Worker(c)
    BY <2>2 DEF SendExt, ForkReply, ForkRebind, ForkStarted, Worker, WorkerTake, WorkerWrite, Open
  <2>3. CASE persist_fork_outcome(c)
    BY <2>3 DEF persist_fork_outcome, Open, Set, TypeOK
  <2> QED  BY <2>1, <2>2, <2>3 DEF Ops
<1>2. UNCHANGED <<want, got, lock>>
  BY DEF Dies, disconnect, LoopEnds, Ops, SendExt, ForkReply, persist_fork_outcome, ForkRebind,
         ForkStarted, Worker, WorkerTake, WorkerWrite, clients
<1>3. CASE sess' = sess  BY <1>1, <1>2, <1>3, GuardedQuiet
<1>4. CASE sess' # sess
  <2>1. ForkStarted(c)
    BY <1>4 DEF Dies, disconnect, LoopEnds, Ops, SendExt, ForkReply, persist_fork_outcome,
                ForkRebind, Worker, WorkerTake, WorkerWrite
  <2>2. op[c] = "started" /\ Started(c, Forked) /\ Forked \in Sessions /\ Forked # None
    BY <1>4, <2>1 DEF ForkStarted, ForkId, Sessions, Names, NamesAssumption
  <2>3. sess'[c] = Forked /\ \A d \in Conns : d # c => sess'[d] = sess[d]
    BY <2>2, EventsTyped
  <2>4. \A d \in Conns : d # c => sess[d] # Forked
    BY <2>2 DEF OneForker, Forker, ForkSteps
  <2>5. lock[Forked] = None  BY <2>2 DEF Origin, TypeOK
  <2>6. OneProcess'  BY <1>1, <2>3, <2>4 DEF Guarded, OneProcess
  <2>7. \A t \in Sessions : \A d \in Conns :
          lock[t] # None /\ Open(d)' /\ sess'[d] = t => d = got[lock[t]]
    BY <1>1, <2>3, <2>5 DEF Guarded
  <2> QED  BY <1>1, <1>2, <2>6, <2>7 DEF Guarded
<1> QED  BY <1>3, <1>4

LEMMA GuardedFault ==
  ASSUME TypeOK, Guarded, NEW c \in Conns, Faults(c)
  PROVE  Guarded'
<1>1. UNCHANGED <<phase, known, want, sess, got, lock>>  BY FaultWrites DEF clients
<1> QED  BY <1>1, GuardedQuiet DEF Open

-------------------------------------------------------------------------------
(* The invariant.                                                              *)

IdentityInv == TypeOK /\ Shape /\ Origin /\ OneForker /\ Fresh /\ (~Timeouts => Guarded)

LEMMA IdentityStart == ASSUME Names, Init  PROVE IdentityInv
<1>1. TypeOK /\ Shape  BY TypesStart
<1>2. Origin  BY RowsDiffer DEF Init, Origin, Pending, Names, NamesAssumption
<1>3. OneForker
  BY RowsDiffer DEF Init, OneForker, Forker, ForkSteps, Names, NamesAssumption
<1>4. Fresh  BY DEF Init, Fresh, Unknown, Pending, Names, NamesAssumption
<1>5. Guarded  BY DEF Init, Guarded, OneProcess, Open
<1> QED  BY <1>1, <1>2, <1>3, <1>4, <1>5 DEF IdentityInv

LEMMA IdentityStep == ASSUME Names, IdentityInv, [Next]_vars  PROVE IdentityInv'
<1> USE DEF IdentityInv
<1>1. TypeOK' /\ Shape'  BY TypesStep
<1>2. CASE Next
  <2>1. Origin'  BY <1>2, OriginClient, OriginConn, OriginOp, OriginWorker, OriginFault DEF Next
  <2>2. OneForker' /\ Fresh'  BY <1>2, ForkerStep, FreshStep
  <2>3. ~Timeouts => Guarded'
    BY <1>2, GuardedClient, GuardedHandshake, GuardedConn, GuardedFault DEF Next
  <2> QED  BY <1>1, <2>1, <2>2, <2>3
<1>3. CASE UNCHANGED vars
  <2>1. Origin' /\ OneForker'  BY <1>3 DEF vars, Origin, OneForker, Forker, Pending
  <2>2. Fresh'  BY <1>3 DEF vars, Fresh, Unknown, Pending
  <2>3. Guarded => Guarded'  BY <1>3 DEF vars, Guarded, OneProcess, Open
  <2> QED  BY <1>1, <2>1, <2>2, <2>3
<1> QED  BY <1>2, <1>3
-------------------------------------------------------------------------------
(* A conversation with a history, whose agent has not forgotten its Session.   *)

Loyal ==
  /\ ext[C1] = Old
  /\ \A p \in Clients : pc[p] # "idle" => sid[p] = Old
  /\ \A c \in Conns : /\ phase[c] # "none" => want[c] = Old
                      /\ sess[c] \in {None, Old, Forked} /\ Pending(c) \subseteq {Old, Forked}
                      /\ write[c] # None => write[c].id \in {Old, Forked}

LEMMA LoyalStep ==
  ASSUME Names, ~Forgetful, TypeOK, Shape, Origin, Loyal, Next
  PROVE  Loyal'
<1>0. Old # None /\ C1 # C2 /\ C1 \in Rows /\ C2 \in Rows /\ None \notin Rows
  BY RowsDiffer DEF Names, NamesAssumption
<1>p. events' = events => \A c \in Conns : Pending(c)' = Pending(c)
  BY DEF Pending
<1> USE DEF TypeOK, Loyal, Set
<1>1. ASSUME NEW p \in Clients, Connect(p) \/ Reuse(p) \/ Waited(p) \/ Leave(p)
      PROVE  Loyal'
  BY <1>1, <1>p DEF Connect, Reuse, Waited, Leave, conns
<1>2. ASSUME NEW p \in Clients, Spawn(p)  PROVE Loyal'
  BY <1>2, <1>p DEF Spawn, SpawnLocked
<1>3. ASSUME NEW p \in Clients, SendLink(p) \/ fork_session(p)  PROVE Loyal'
  BY <1>3, <1>p DEF SendLink, fork_session, clients
<1>4. ASSUME NEW c \in Conns, Dies(c) \/ disconnect(c) \/ LoopEnds(c)  PROVE Loyal'
  BY <1>4, <1>p DEF Dies, disconnect, LoopEnds, clients
<1>5. ASSUME NEW c \in Conns, SendExt(c)  PROVE Loyal'
  <2>1. conv[c] = C1 /\ sess[c] # Forked  BY <1>0, <1>5 DEF SendExt, Shape, Origin
  <2>2. ext'[C1] = Old  BY <1>0, <1>5, <2>1 DEF SendExt, LinkedWrites
  <2> QED  BY <1>5, <1>p, <2>2 DEF SendExt, clients
<1>6. ASSUME NEW c \in Conns, ForkReply(c) \/ persist_fork_outcome(c) \/ ForkRebind(c)
      PROVE  Loyal'
  <2>1. ext'[C1] = Old  BY <1>0, <1>6 DEF ForkReply, persist_fork_outcome, ForkRebind
  <2>2. \A d \in Conns : phase'[d] # "none" => phase[d] # "none"
    BY <1>6 DEF ForkReply, persist_fork_outcome, ForkRebind, Shape, ForkSteps
  <2>3. UNCHANGED <<want, sess, events, write, clients>>
    BY <1>6 DEF ForkReply, persist_fork_outcome, ForkRebind
  <2> QED  BY <1>p, <2>1, <2>2, <2>3 DEF clients
<1>7. ASSUME NEW c \in Conns, WorkerWrite(c)  PROVE Loyal'
  <2>1. write[c] \in [row : Rows, id : Sessions] /\ write[c].row = C1 => write[c].id = Old
    BY <1>0, <1>7 DEF WorkerWrite, Origin
  <2>2. ext'[C1] = Old  BY <1>0, <1>7, <2>1 DEF WorkerWrite
  <2> QED  BY <1>7, <1>p, <2>2 DEF WorkerWrite, clients
<1> HIDE DEF TypeOK, Set
<1>8. ASSUME NEW c \in Conns, Handshake(c)  PROVE Loyal'
  <2>1. Started(c, Old) /\ Old \in Sessions
    BY <1>0, <1>8 DEF Handshake, Sessions
  <2>2. \A d \in Conns : phase'[d] # "none" => phase[d] # "none"
    BY <1>8 DEF Handshake, Set, TypeOK
  <2> QED  BY <1>8, <2>1, <2>2, StartedAdds DEF Handshake, clients
<1>9. ASSUME NEW c \in Conns, ForkStarted(c)  PROVE Loyal'
  <2>1. CASE phase[c] = "over"  BY <1>9, <1>p, <2>1 DEF ForkStarted, clients
  <2>2. CASE phase[c] # "over"
    <3>1. Started(c, Forked) /\ Forked \in Sessions
      BY <1>9, <2>2 DEF ForkStarted, ForkId, Sessions
    <3> QED  BY <1>9, <3>1, StartedAdds DEF ForkStarted, clients
  <2> QED  BY <2>1, <2>2
<1>10. ASSUME NEW c \in Conns, WorkerTake(c)  PROVE Loyal'
  <2>1. /\ Head(events[c]) \in Pending(c) /\ Pending(c)' \subseteq Pending(c)
        /\ \A d \in Conns : d # c => Pending(d)' = Pending(d) /\ write'[d] = write[d]
        /\ write'[c] = IF known[c] /\ conv[c] # None
                       THEN [row |-> conv[c], id |-> Head(events[c])] ELSE None
    BY <1>10, TakenWasPending
  <2>2. write'[c] # None => write'[c].id \in Pending(c)
    <3>1. CASE known[c] /\ conv[c] # None  BY <2>1, <3>1
    <3>2. CASE ~(known[c] /\ conv[c] # None)  BY <2>1, <3>2
    <3> QED  BY <3>1, <3>2
  <2> QED  BY <1>10, <2>1, <2>2 DEF WorkerTake, clients
<1>11. ASSUME NEW c \in Conns, Faults(c)  PROVE Loyal'
  <2>1. UNCHANGED <<ext, phase, want, sess, pc, sid>>  BY <1>11, FaultWrites DEF clients
  <2>2. \A d \in Conns : Pending(d)' \subseteq Pending(d)  BY <1>11, FaultWrites
  <2>3. \A d \in Conns : write'[d] # None => write[d] # None /\ write'[d].id = write[d].id
    BY <1>11, FaultParts
  <2> QED  BY <2>1, <2>2, <2>3
<1> HIDE DEF Loyal
<1> QED
  BY <1>1, <1>2, <1>3, <1>4, <1>5, <1>6, <1>7, <1>8, <1>9, <1>10, <1>11
     DEF Next, Opens, Ops, Worker

LEMMA OneRuntimeOfLoyal ==
  ASSUME Names, TypeOK, Shape, Origin, OneForker, Guarded, Loyal
  PROVE  OneRuntime
<1> SUFFICES ASSUME NEW c \in Conns, NEW d \in Conns, Open(c), Open(d), c # d,
                    conv[c] # None, conv[c] = conv[d]
             PROVE  FALSE
  BY DEF OneRuntime
<1>1. conv[c] # C2  BY DEF OneForker, Forker
<1>2. \A e \in {c, d} : phase[e] = "starting" \/ sess[e] = Old
  BY <1>1 DEF Open, Shape, Origin, Loyal
<1>3. Old # None /\ Old \in Sessions  BY DEF Names, NamesAssumption, Sessions
<1>4. ASSUME NEW e \in {c, d}, phase[e] = "starting"
      PROVE  lock[Old] # None /\ e = got[lock[Old]]
  BY <1>3, <1>4 DEF Guarded, Loyal
<1>5. ASSUME NEW e \in {c, d}, sess[e] = Old, lock[Old] # None  PROVE e = got[lock[Old]]
  BY <1>3, <1>5 DEF Guarded
<1>6. sess[c] # Old \/ sess[d] # Old  BY <1>3 DEF Guarded, OneProcess
<1> QED  BY <1>2, <1>4, <1>5, <1>6
-------------------------------------------------------------------------------
(* The row of a fork. A client sends nothing before its connection has started, *)
(* and forks only after the worker has written the id of the session it leaves. *)

Ready(p) == /\ pc[p] # "idle" => sid[p] # None
            /\ pc[p] = "has" => phase[got[p]] \notin {"none", "starting"}
Forks(c) ==
  /\ Forker(c) => /\ ~Young(c) /\ Pending(c) \subseteq {Forked}
                  /\ write[c] # None => write[c].id = Forked
  /\ write[c] # None /\ write[c].row = C2 => write[c].id = Forked
  /\ op[c] \in {"rebind", "started"} \/ conv[c] = C2 => ext[C2] = Forked
  /\ conv[c] = C2 => op[c] = "started" \/ sess[c] = Forked \/ phase[c] = "over"
Clean ==
  /\ ext[C1] # None /\ ext[C2] \in {None, Forked}
  /\ \A p \in Clients : Ready(p)
  /\ \A c \in Conns : Forks(c)

LEMMA OldStays ==
  ASSUME TypeOK, Next, NEW d \in Conns, ~Young(d)
  PROVE  ~Young(d)' /\ (phase[d] = "over" => phase'[d] = "over")
<1> USE DEF TypeOK, Young, Set
<1>1. ASSUME NEW p \in Clients, Connect(p) \/ Opens(p) \/ Leave(p) \/ SendLink(p) \/ fork_session(p)
      PROVE  ~Young(d)' /\ (phase[d] = "over" => phase'[d] = "over")
  BY <1>1 DEF Connect, Opens, Reuse, Spawn, Waited, Leave, SendLink, fork_session, conns
<1>2. ASSUME NEW c \in Conns, Handshake(c) \/ Dies(c) \/ disconnect(c) \/ LoopEnds(c) \/ Worker(c)
      PROVE  ~Young(d)' /\ (phase[d] = "over" => phase'[d] = "over")
  BY <1>2 DEF Handshake, Dies, disconnect, LoopEnds, Worker, WorkerTake, WorkerWrite
<1>3. ASSUME NEW c \in Conns, Ops(c)
      PROVE  ~Young(d)' /\ (phase[d] = "over" => phase'[d] = "over")
  BY <1>3 DEF Ops, SendExt, ForkReply, persist_fork_outcome, ForkRebind, ForkStarted
<1> HIDE DEF TypeOK, Set
<1>4. ASSUME NEW c \in Conns, Faults(c)
      PROVE  ~Young(d)' /\ (phase[d] = "over" => phase'[d] = "over")
  <2>1. phase' = phase  BY <1>4, FaultWrites
  <2> QED  BY <2>1
<1> HIDE DEF Young
<1> QED  BY <1>1, <1>2, <1>3, <1>4 DEF Next

\* A step that changes nothing about a connection but its phase.
LEMMA ForksKept ==
  ASSUME TypeOK, Next, NEW c \in Conns, Forks(c), ext[C2] = Forked => ext'[C2] = Forked,
         Pending(c)' = Pending(c), write'[c] = write[c], op'[c] = op[c], conv'[c] = conv[c],
         sess'[c] = sess[c]
  PROVE  Forks(c)'
<1>1. (Forker(c)' <=> Forker(c)) /\ (~Young(c) => ~Young(c)')
  BY OldStays DEF Forker
<1>2. phase[c] = "over" => phase'[c] = "over"  BY OldStays DEF Young
<1> QED  BY <1>1, <1>2 DEF Forks

\* A client the step does not serve.
LEMMA ReadyKept ==
  ASSUME TypeOK, Shape, Next, NEW p \in Clients, Ready(p),
         pc'[p] = pc[p], sid'[p] = sid[p], got'[p] = got[p]
  PROVE  Ready(p)'
<1>1. CASE pc[p] = "has"
  <2>1. got[p] \in Conns /\ ~Young(got[p])  BY <1>1 DEF Shape, Ready, Young
  <2>2. ~Young(got[p])'  BY <2>1, OldStays
  <2>3. phase'[got[p]] \notin {"none", "starting"}  BY <2>1, OldStays DEF Young
  <2> QED  BY <2>3 DEF Ready
<1>2. CASE pc[p] # "has"  BY <1>2 DEF Ready
<1> QED  BY <1>1, <1>2

LEMMA CleanOpens ==
  ASSUME ~Timeouts, Names, TypeOK, Shape, Clean, Next, NEW p \in Clients,
         Connect(p) \/ Opens(p) \/ Leave(p)
  PROVE  Clean'
<1>1. UNCHANGED <<events, write, op, conv, sess, ext>>
  BY DEF Connect, Opens, Reuse, Spawn, Waited, Leave, conns
<1>2. \A c \in Conns : Forks(c)'
  <2>1. \A c \in Conns : Pending(c)' = Pending(c)  BY <1>1 DEF Pending
  <2> QED  BY <1>1, <2>1, ForksKept DEF Clean
<1>3. ASSUME NEW q \in Clients, q # p  PROVE Ready(q)'
  <2>1. pc'[q] = pc[q] /\ sid'[q] = sid[q] /\ got'[q] = got[q]
    BY <1>3 DEF Connect, Opens, Reuse, Spawn, SpawnLocked, Waited, Leave, Set, TypeOK
  <2> QED  BY <2>1, ReadyKept DEF Clean
<1>4. Ready(p)'
  <2> USE DEF Set, TypeOK, Ready, Clean
  <2>1. CASE Connect(p)  BY <2>1 DEF Connect
  <2>2. CASE Reuse(p)
    <3>1. PICK c \in Conns : sess[c] = sid[p] /\ sid[p] # None /\ got' = Set(got, p, c)
      BY <2>2 DEF Reuse, Reusable
    <3>2. phase[c] \notin {"none", "starting"}  BY <3>1 DEF Shape
    <3> QED  BY <2>2, <3>1, <3>2 DEF Reuse, conns
  <2>3. CASE Spawn(p)
    <3>1. pc' = Set(pc, p, "wait") /\ sid' = sid /\ sid[p] # None
      BY <2>3 DEF Spawn, SpawnLocked
    <3> QED  BY <3>1
  <2>4. CASE Waited(p)
    <3>1. got[p] \in Conns /\ phase[got[p]] \notin {"none", "starting"} /\ sid[p] # None
      BY <2>4 DEF Waited, Shape
    <3> QED  BY <2>4, <3>1 DEF Waited, conns
  <2>5. CASE Leave(p)  BY <2>5 DEF Leave
  <2> QED  BY <2>1, <2>2, <2>3, <2>4, <2>5 DEF Opens
<1> QED  BY <1>1, <1>2, <1>3, <1>4 DEF Clean
LEMMA CleanSends ==
  ASSUME ~Overtaking, Names, TypeOK, Shape, Origin, OneForker, Clean, Next, NEW p \in Clients,
         SendLink(p) \/ fork_session(p)
  PROVE  Clean'
<1> DEFINE c == got[p]
<1>1. c \in Conns /\ c = got[p]  BY DEF SendLink, fork_session, Shape
<1>2. /\ UNCHANGED <<ext, events, write, sess, pc, sid, got, phase>>
      /\ \A d \in Conns : Pending(d)' = Pending(d)
  BY DEF SendLink, fork_session, clients, Pending
<1>3. \A q \in Clients : Ready(q)'  BY <1>2, ReadyKept DEF Clean
<1>4. \A d \in Conns : d # c => op'[d] = op[d] /\ conv'[d] = conv[d]
  BY <1>1 DEF SendLink, fork_session, Set, TypeOK
<1>5. \A d \in Conns : d # c => Forks(d)'  BY <1>2, <1>4, ForksKept DEF Clean
<1>6. Forks(c)'
  <2>0. Forks(c) /\ C1 # C2 /\ None \notin Rows /\ C2 \in Rows  BY <1>1, RowsDiffer DEF Clean
  <2>1. CASE SendLink(p)
    <3>1. conv[c] = None /\ conv'[c] = C1 /\ op'[c] = "ext"
      BY <1>1, <2>1 DEF SendLink, Set, TypeOK
    <3>2. sess[c] # Forked  BY <1>1, <2>0, <3>1 DEF Origin
    <3> QED  BY <1>1, <1>2, <2>0, <3>1, <3>2 DEF Forks, Forker, ForkSteps
  <2>2. CASE fork_session(p)
    <3>1. /\ op'[c] = "fork" /\ conv'[c] = IF conv[c] = None THEN C1 ELSE conv[c]
          /\ events[c] = <<>> /\ write[c] = None /\ pc[p] = "has"
      BY <1>1, <2>2 DEF fork_session, Set, TypeOK
    <3>2. ~Forker(c)
      BY <1>1, <2>2, SpendTyped DEF fork_session, Names, OneForker
    <3>3. conv'[c] # C2  BY <2>0, <3>1, <3>2 DEF Forker
    <3>4. ~Young(c)'  BY <1>1, <1>2, <3>1 DEF Clean, Ready, Young
    <3>5. Pending(c)' = {}  BY <1>2, <3>1 DEF Pending
    <3> QED  BY <1>2, <3>1, <3>3, <3>4, <3>5 DEF Forks
  <2> QED  BY <2>1, <2>2
<1> QED  BY <1>2, <1>3, <1>5, <1>6 DEF Clean

LEMMA CleanConn ==
  ASSUME Names, TypeOK, Shape, Origin, Clean, Next, NEW c \in Conns,
         Handshake(c) \/ Dies(c) \/ disconnect(c) \/ LoopEnds(c)
  PROVE  Clean'
<1>1. UNCHANGED <<ext, op, conv, write, pc, sid, got>>
  BY DEF Handshake, Dies, disconnect, LoopEnds, clients
<1>2. \A q \in Clients : Ready(q)'  BY <1>1, ReadyKept DEF Clean
<1>3. CASE Handshake(c)
  <2>1. PICK s \in Sessions \ {Forked} : Started(c, s)
    BY <1>3 DEF Handshake, Sessions, TypeOK, Names, NamesAssumption, Origin
  <2>2. \A d \in Conns : d # c => Forks(d)'
    BY <1>1, <2>1, StartedAdds, ForksKept DEF Clean
  <2>3. ~Forker(c) /\ Forks(c)  BY <1>3 DEF Handshake, Clean, Forks, Young
  <2>4. ~Forker(c)'  BY <1>1, <2>1, <2>3, StartedAdds DEF Forker
  <2>5. Forks(c)'
    BY <1>1, <2>3, <2>4 DEF Forks, Forker, ForkSteps
  <2> QED  BY <1>1, <1>2, <2>2, <2>5 DEF Clean
<1>4. CASE Dies(c) \/ disconnect(c) \/ LoopEnds(c)
  <2>1. UNCHANGED <<events, sess>>  BY <1>4 DEF Dies, disconnect, LoopEnds
  <2>2. \A d \in Conns : Pending(d)' = Pending(d)  BY <2>1 DEF Pending
  <2>3. \A d \in Conns : Forks(d)'  BY <1>1, <2>1, <2>2, ForksKept DEF Clean
  <2> QED  BY <1>1, <1>2, <2>3 DEF Clean
<1> QED  BY <1>3, <1>4
LEMMA CleanOps ==
  ASSUME Names, TypeOK, Shape, Origin, Clean, Next, NEW c \in Conns, Ops(c)
  PROVE  Clean'
<1>0. /\ C1 # C2 /\ C1 \in Rows /\ C2 \in Rows /\ None \notin Rows /\ Forked # None
      /\ None \notin {"ext", "fork", "persist", "rebind", "started"}
      /\ op \in [Conns -> OpSteps] /\ conv \in [Conns -> Rows \cup {None}]
      /\ ext \in [Rows -> Sessions \cup {None}] /\ Forks(c) /\ None \notin Sessions
  BY RowsDiffer DEF Names, NamesAssumption, TypeOK, OpSteps, ForkSteps, Clean, Sessions
<1>1. UNCHANGED <<write, pc, sid, got>>
  BY DEF Ops, SendExt, ForkReply, persist_fork_outcome, ForkRebind, ForkStarted, clients
<1>2. \A q \in Clients : Ready(q)'  BY <1>1, ReadyKept DEF Clean
<1>3. ASSUME ext'[C1] # None, ext'[C2] \in {None, Forked}, ext[C2] = Forked => ext'[C2] = Forked,
             UNCHANGED <<sess, events>>, \A d \in Conns : d # c => op'[d] = op[d] /\ conv'[d] = conv[d],
             Forks(c)'
      PROVE  Clean'
  <2>1. \A d \in Conns : Pending(d)' = Pending(d)  BY <1>3 DEF Pending
  <2>2. \A d \in Conns : d # c => Forks(d)'  BY <1>1, <1>3, <2>1, ForksKept DEF Clean
  <2> QED  BY <1>2, <1>3, <2>2 DEF Clean
<1>4. (~Young(c) => ~Young(c)') /\ (phase[c] = "over" => phase'[c] = "over")
  BY OldStays DEF Young
<1>5. events' = events => Pending(c)' = Pending(c)  BY DEF Pending
<1>6. CASE SendExt(c)
  <2>1. conv[c] = C1 /\ op[c] = "ext" /\ op' = Set(op, c, None) /\ ext' = LinkedWrites(c)
        /\ UNCHANGED <<sess, events, conv, phase>>
    BY <1>6 DEF SendExt, Shape
  <2>2. ext'[C2] = ext[C2] /\ ext'[C1] # None
    BY <1>0, <2>1 DEF LinkedWrites, Set, Clean
  <2>3. op'[c] = None /\ \A d \in Conns : d # c => op'[d] = op[d]
    BY <1>0, <2>1 DEF Set
  <2>4. Forks(c)'
    BY <1>0, <1>1, <1>4, <1>5, <2>1, <2>2, <2>3 DEF Forks, Forker, ForkSteps
  <2> QED  BY <1>3, <2>1, <2>2, <2>3, <2>4 DEF Clean
<1>7. CASE ForkReply(c)
  <2>1. op[c] = "fork" /\ op' \in {Set(op, c, "persist"), Set(op, c, None)}
        /\ UNCHANGED <<ext, sess, events, conv, phase>>
    BY <1>7 DEF ForkReply
  <2>2. op'[c] \in {"persist", None} /\ \A d \in Conns : d # c => op'[d] = op[d]
    BY <1>0, <2>1 DEF Set
  <2>3. Forks(c)'
    BY <1>0, <1>1, <1>4, <1>5, <2>1, <2>2 DEF Forks, Forker, ForkSteps
  <2> QED  BY <1>3, <2>1, <2>2, <2>3 DEF Clean
<1>8. CASE persist_fork_outcome(c)
  <2>1. op[c] = "persist" /\ UNCHANGED <<sess, events, conv>>
    BY <1>8 DEF persist_fork_outcome
  <2>2. CASE ext[conv[c]] = sess[c]
    <3>1. ext' = Set(ext, C2, Forked) /\ op' = Set(op, c, "rebind") /\ phase' = phase
      BY <1>8, <2>2 DEF persist_fork_outcome
    <3>2. /\ ext'[C2] = Forked /\ ext'[C1] = ext[C1] /\ op'[c] = "rebind"
          /\ \A d \in Conns : d # c => op'[d] = op[d]
      BY <1>0, <3>1 DEF Set
    <3>3. Forks(c)'
      BY <1>0, <1>1, <1>4, <1>5, <2>1, <3>1, <3>2 DEF Forks, Forker, ForkSteps
    <3> QED  BY <1>3, <2>1, <3>2, <3>3 DEF Clean
  <2>3. CASE ext[conv[c]] # sess[c]
    <3>1. ext' = ext /\ op' = Set(op, c, None)
      BY <1>8, <2>3 DEF persist_fork_outcome
    <3>2. op'[c] = None /\ \A d \in Conns : d # c => op'[d] = op[d]
      BY <1>0, <3>1 DEF Set
    <3>3. Forks(c)'
      BY <1>0, <1>1, <1>4, <1>5, <2>1, <3>1, <3>2 DEF Forks, Forker, ForkSteps
    <3> QED  BY <1>3, <2>1, <3>1, <3>2, <3>3 DEF Clean
  <2> QED  BY <2>2, <2>3
<1>9. CASE ForkRebind(c)
  <2>1. op[c] = "rebind" /\ UNCHANGED <<ext, sess, events, phase>>  BY <1>9 DEF ForkRebind
  <2>2. /\ \A d \in Conns : d # c => op'[d] = op[d] /\ conv'[d] = conv[d]
        /\ \/ phase[c] = "over" /\ op'[c] = None /\ conv'[c] = conv[c]
           \/ op'[c] = "started" /\ conv'[c] = C2
    BY <1>0, <1>9 DEF ForkRebind, Rebound, Set
  <2>3. Forks(c)'
    BY <1>0, <1>1, <1>4, <1>5, <2>1, <2>2 DEF Forks, Forker, ForkSteps
  <2> QED  BY <1>3, <2>1, <2>2, <2>3 DEF Clean
<1>10. CASE ForkStarted(c)
  <2>1. /\ op[c] = "started" /\ op'[c] = None /\ UNCHANGED <<ext, conv, phase>>
        /\ \A d \in Conns : d # c => op'[d] = op[d]
    BY <1>0, <1>10 DEF ForkStarted, Set
  <2>2. CASE phase[c] = "over"
    <3>1. UNCHANGED <<sess, events>>  BY <1>10, <2>2 DEF ForkStarted
    <3>2. Forks(c)'
      BY <1>0, <1>1, <1>4, <1>5, <2>1, <2>2, <3>1 DEF Forks, Forker, ForkSteps
    <3> QED  BY <1>3, <2>1, <3>1, <3>2 DEF Clean
  <2>3. CASE phase[c] # "over"
    <3>1. Started(c, Forked) /\ Forked \in Sessions
      BY <1>10, <2>3 DEF ForkStarted, ForkId, Sessions
    <3>2. /\ Pending(c)' = Pending(c) \cup {Forked} /\ sess'[c] = Forked
          /\ \A d \in Conns : d # c => Pending(d)' = Pending(d) /\ sess'[d] = sess[d]
      BY <3>1, StartedAdds
    <3>3. Forks(c)'
      BY <1>0, <1>1, <1>4, <2>1, <3>2 DEF Forks, Forker, ForkSteps
    <3>4. \A d \in Conns : d # c => Forks(d)'
      BY <1>1, <2>1, <3>2, ForksKept DEF Clean
    <3> QED  BY <1>2, <2>1, <3>3, <3>4 DEF Clean
  <2> QED  BY <2>2, <2>3
<1> QED  BY <1>6, <1>7, <1>8, <1>9, <1>10 DEF Ops

LEMMA CleanWorker ==
  ASSUME Names, TypeOK, Shape, Clean, Next, NEW c \in Conns, Worker(c)
  PROVE  Clean'
<1>0. C1 # C2 /\ C1 \in Rows /\ C2 \in Rows /\ None \notin Sessions /\ Forked # None
  BY RowsDiffer DEF Names, NamesAssumption, Sessions
<1>1. UNCHANGED <<phase, op, conv, sess, pc, sid, got>>
  BY DEF Worker, WorkerTake, WorkerWrite, clients
<1>2. \A q \in Clients : Ready(q)'  BY <1>1, ReadyKept DEF Clean
<1>3. CASE WorkerTake(c)
  <2>1. /\ Head(events[c]) \in Pending(c) /\ Pending(c)' \subseteq Pending(c)
        /\ \A d \in Conns : d # c => Pending(d)' = Pending(d) /\ write'[d] = write[d]
        /\ write'[c] = IF known[c] /\ conv[c] # None
                       THEN [row |-> conv[c], id |-> Head(events[c])] ELSE None
    BY <1>3, TakenWasPending
  <2>2. write'[c] # None => write'[c].id = Head(events[c]) /\ write'[c].row = conv[c]
    <3>1. CASE known[c] /\ conv[c] # None  BY <2>1, <3>1
    <3>2. CASE ~(known[c] /\ conv[c] # None)  BY <2>1, <3>2
    <3> QED  BY <3>1, <3>2
  <2>3. ext' = ext  BY <1>3 DEF WorkerTake
  <2>4. \A d \in Conns : d # c => Forks(d)'  BY <1>1, <2>1, <2>3, ForksKept DEF Clean
  <2>5. Forks(c)'
    <3>1. Forks(c)  BY DEF Clean
    <3> QED  BY <1>1, <2>1, <2>2, <2>3, <3>1 DEF Forks, Forker, Young
  <2> QED  BY <1>2, <2>3, <2>4, <2>5 DEF Clean
<1>4. CASE WorkerWrite(c)
  <2>1. /\ write[c] # None /\ write[c].row \in Rows /\ write[c].id \in Sessions
        /\ ext' = Set(ext, write[c].row, write[c].id)
        /\ write'[c] = None /\ (\A d \in Conns : d # c => write'[d] = write[d]) /\ events' = events
    BY <1>4 DEF WorkerWrite, TypeOK, Set
  <2>2. ext'[C1] # None /\ ext'[C2] \in {ext[C2], Forked}
    BY <1>0, <2>1 DEF Clean, Forks, Set, TypeOK
  <2>3. \A d \in Conns : Pending(d)' = Pending(d)  BY <2>1 DEF Pending
  <2>4. \A d \in Conns : d # c => Forks(d)'
    BY <1>1, <2>1, <2>2, <2>3, ForksKept DEF Clean
  <2>5. Forks(c)'
    <3>1. Forks(c)  BY DEF Clean
    <3> QED  BY <1>1, <2>1, <2>2, <2>3, <3>1 DEF Forks, Forker, Young
  <2> QED  BY <1>2, <2>2, <2>4, <2>5 DEF Clean
<1> QED  BY <1>3, <1>4 DEF Worker

LEMMA CleanFault ==
  ASSUME Names, TypeOK, Shape, Clean, Next, NEW c \in Conns, Faults(c)
  PROVE  Clean'
<1>1. UNCHANGED <<ext, phase, conv, sess, pc, sid, got>>  BY FaultWrites DEF clients
<1>2. \A q \in Clients : Ready(q)'  BY <1>1, ReadyKept DEF Clean
<1>3. ASSUME NEW d \in Conns, d # c  PROVE Forks(d)'
  BY <1>1, <1>3, FaultWrites, FaultParts, ForksKept DEF Clean
<1>4. Forks(c)'
  <2>1. Forks(c) /\ Pending(c)' \subseteq Pending(c)  BY FaultWrites DEF Clean
  <2>2. op'[c] = op[c] \/ (op[c] = "ext" /\ op'[c] = None)  BY FaultParts
  <2>3. None \notin ForkSteps  BY DEF ForkSteps, Names, NamesAssumption
  <2>4. Forker(c)' => Forker(c)  BY <1>1, <2>2, <2>3 DEF Forker
  <2>5. write'[c] # None =>
          /\ write[c] # None /\ write'[c].id = write[c].id
          /\ write'[c].row = write[c].row \/ write'[c].row = conv[c]
    BY FaultParts
  <2>6. /\ Forker(c)' => /\ ~Young(c)' /\ Pending(c)' \subseteq {Forked}
                         /\ write'[c] # None => write'[c].id = Forked
        /\ write'[c] # None /\ write'[c].row = C2 => write'[c].id = Forked
    BY <1>1, <2>1, <2>4, <2>5 DEF Forks, Forker, Young
  <2>7. /\ op'[c] \in {"rebind", "started"} => op'[c] = op[c]
        /\ op[c] = "started" => op'[c] = "started"
    BY <2>2, <2>3 DEF ForkSteps
  <2> QED  BY <1>1, <2>1, <2>6, <2>7 DEF Forks
<1> QED  BY <1>1, <1>2, <1>3, <1>4 DEF Clean

-------------------------------------------------------------------------------
(* A draft in one connection: the id last announced is the session's, whether   *)
(* the link or the session came first.                                          *)

Last(s) == s[Len(s)]
Latest(c) == IF events[c] # <<>> THEN Last(events[c])
             ELSE IF write[c] # None THEN write[c].id ELSE ext[conv[c]]

Current(c) ==
  /\ sess[c] # Forked => /\ Pending(c) \subseteq {sess[c]}
                         /\ write[c] # None => write[c].id = sess[c]
  /\ events[c] # <<>> /\ c \notin unsaved => Last(events[c]) = sess[c]
  /\ write[c] # None /\ write[c].row = C2 => conv[c] = C2
  /\ op[c] \in {"fork", "persist", "rebind"} => conv[c] = C1
  /\ phase[c] = "over" => ~known[c]
  /\ conv[c] = C2 => op[c] = "started" \/ sess[c] = Forked \/ phase[c] = "over"
Told(c) ==
  (/\ known[c] /\ conv[c] # None /\ sess[c] # None /\ op[c] \notin {"ext", "started"}
   /\ c \notin unsaved)
    => Latest(c) = sess[c]
Single(c) == \A d \in Conns : d = c

\* A fault leaves a connection that it does not mark as it should be.
LEMMA CurrentFault ==
  ASSUME Names, TypeOK, Shape, Origin, NEW c \in Conns, Current(c), Told(c), Faults(c)
  PROVE  Current(c)' /\ Told(c)'
<1>0. /\ C1 # C2 /\ None \notin Rows /\ None \notin {"ext", "fork", "persist", "rebind", "started"}
      /\ events \in [Conns -> Seq(Sessions)]
  BY RowsDiffer DEF Names, NamesAssumption, TypeOK
<1>1. UNCHANGED <<ext, phase, known, sess, conv>> /\ Pending(c)' \subseteq Pending(c)
      /\ events' \in [Conns -> Seq(Sessions)]
  BY FaultWrites
<1>2. op'[c] = op[c] \/ (op[c] = "ext" /\ op'[c] = None)  BY FaultParts
<1>3. write'[c] # None => /\ write[c] # None /\ write'[c].id = write[c].id
                          /\ write'[c].row = write[c].row \/ write'[c].row = conv[c]
  BY FaultParts
<1>4. events'[c] # <<>> /\ c \notin unsaved' => Last(events'[c]) = sess[c]
  <2>1. CASE events' = events
    <3>1. unsaved \subseteq unsaved'  BY FaultWrites
    <3> QED  BY <1>1, <2>1, <3>1 DEF Current
  <2>2. CASE events' # events
    <3>1. EventLost(c)  BY <2>2 DEF Faults, SendExtFails, WorkerFails
    <3>2. c \notin unsaved' => conv[c] = None  BY <3>1 DEF EventLost
    <3>3. conv[c] = None => sess[c] # Forked  BY <1>0 , RowsDiffer DEF Origin
    <3>4. events'[c] # <<>> => Last(events'[c]) \in Pending(c)'
      <4>1. events'[c] \in Seq(Sessions)  BY <1>1
      <4>2. events'[c] # <<>> => Len(events'[c]) \in DOMAIN events'[c]  BY <4>1
      <4> QED  BY <4>2 DEF Last, Pending
    <3> QED  BY <1>1, <3>2, <3>3, <3>4 DEF Current
  <2> QED  BY <2>1, <2>2
<1>5. Current(c)'
  BY <1>0, <1>1, <1>2, <1>3, <1>4 DEF Current
<1>6. Told(c)'
  <2> SUFFICES ASSUME known[c], conv[c] # None, sess[c] # None, op'[c] \notin {"ext", "started"},
                      c \notin unsaved'
               PROVE  Latest(c)' = sess[c]
    BY <1>1 DEF Told
  <2>1. /\ WorkerFails(c) /\ unsaved' = unsaved
        /\ write' = Set(write, c, [row |-> conv[c], id |-> write[c].id])
    BY DEF Faults, SendExtFails, WorkerFails, EventLost, Aimed, RowNow
  <2>2. /\ write[c] # None /\ write'[c] = [row |-> conv[c], id |-> write[c].id]
        /\ op' = op /\ events' = events
    BY <2>1 DEF WorkerFails, Set, TypeOK
  <2>3. write'[c] # None
    <3>1. write[c].id \in Sessions /\ conv[c] \in Rows  BY <2>2 DEF TypeOK
    <3>2. None \notin [row : Rows, id : Sessions]
      BY DEF Names, NamesAssumption, Rows, Sessions, C1, C2
    <3> QED  BY <2>2, <3>1, <3>2
  <2>4. Latest(c) = sess[c]  BY <2>1, <2>2 DEF Told
  <2> QED  BY <1>1, <2>2, <2>3, <2>4 DEF Latest
<1> QED  BY <1>5, <1>6

LEMMA LastPending ==
  ASSUME TypeOK, NEW c \in Conns, events[c] # <<>>
  PROVE  Last(events[c]) \in Pending(c) /\ Len(events[c]) \in DOMAIN events[c]
<1>1. events[c] \in Seq(Sessions)  BY DEF TypeOK
<1> QED  BY <1>1 DEF Last, Pending

LEMMA CurrentClient ==
  ASSUME Names, ~History, TypeOK, Shape, Origin, OneForker, NEW c \in Conns, Single(c),
         Current(c), Told(c), NEW p \in Clients,
         Connect(p) \/ Opens(p) \/ Leave(p) \/ SendLink(p) \/ fork_session(p)
  PROVE  Current(c)' /\ Told(c)'
<1>0. /\ C1 # C2 /\ C1 \in Rows /\ C2 \in Rows /\ None \notin Rows
      /\ None \notin {"ext", "fork", "persist", "rebind", "started"}
      /\ op \in [Conns -> OpSteps] /\ conv \in [Conns -> Rows \cup {None}]
  BY RowsDiffer DEF Names, NamesAssumption, TypeOK, OpSteps, ForkSteps
<1>1. UNCHANGED <<ext, sess, events, write, unsaved>> /\ Pending(c)' = Pending(c)
  BY DEF Connect, Opens, Reuse, Spawn, Waited, Leave, SendLink, fork_session, conns, Pending
<1>2. CASE UNCHANGED <<phase, known, op, conv>>
  BY <1>1, <1>2 DEF Current, Told, Latest
<1>3. CASE Spawn(p)
  <2>1. /\ phase[c] = "none" /\ phase'[c] = "starting" /\ UNCHANGED <<op, conv>>
    BY <1>3 DEF Spawn, Single, Set, TypeOK
  <2>2. sess[c] = None  BY <2>1 DEF Shape
  <2> QED  BY <1>1, <2>1, <2>2 DEF Current, Told
<1>4. CASE SendLink(p)
  <2>1. /\ got[p] = c /\ conv[c] = None /\ conv'[c] = C1 /\ op'[c] = "ext"
        /\ UNCHANGED <<phase, known>>
    BY <1>4 DEF SendLink, Shape, Single, Set, TypeOK
  <2>2. sess[c] # Forked  BY <1>0, <2>1 DEF Origin
  <2>3. ~(write[c] # None /\ write[c].row = C2)  BY <1>0, <2>1 DEF Current
  <2> QED  BY <1>0, <1>1, <2>1, <2>2, <2>3 DEF Current, Told
<1>5. CASE fork_session(p)
  <2>1. /\ got[p] = c /\ conv[c] # None /\ conv' = conv /\ op'[c] = "fork" /\ op[c] = None
        /\ UNCHANGED <<phase, known>>
    BY <1>5 DEF fork_session, Shape, Single, Set, TypeOK
  <2>2. conv[c] = C1
    BY <1>0, <1>5, <2>1, SpendTyped DEF fork_session, OneForker, Forker, Names, Rows
  <2> QED  BY <1>0, <1>1, <2>1, <2>2 DEF Current, Told, Latest
<1>6. CASE Connect(p) \/ Reuse(p) \/ Waited(p) \/ Leave(p)
  <2>1. UNCHANGED <<phase, known, op, conv>>  BY <1>6 DEF Connect, Reuse, Waited, Leave, conns
  <2> QED  BY <1>2, <2>1
<1> QED  BY <1>3, <1>4, <1>5, <1>6 DEF Opens

LEMMA CurrentConn ==
  ASSUME Names, TypeOK, Shape, Origin, NEW c \in Conns, Current(c), Told(c),
         Handshake(c) \/ Dies(c) \/ disconnect(c) \/ LoopEnds(c)
  PROVE  Current(c)' /\ Told(c)'
<1>1. UNCHANGED <<ext, op, conv, write, unsaved>>
  BY DEF Handshake, Dies, disconnect, LoopEnds
<1>2. CASE Handshake(c)
  <2>1. PICK s \in Sessions \ {Forked} : Started(c, s)
    BY <1>2 DEF Handshake, Sessions, TypeOK, Names, NamesAssumption, Origin
  <2>2. /\ Pending(c)' = Pending(c) \cup {s} /\ sess'[c] = s /\ events'[c] = Append(events[c], s)
        /\ sess[c] = None /\ phase[c] = "starting" /\ phase'[c] = "live" /\ known' = known
    BY <1>2, <2>1, StartedAdds, EventsTyped DEF Handshake, Shape, Set, TypeOK
  <2>3. None \notin Sessions /\ None # Forked /\ events[c] \in Seq(Sessions)
    BY DEF Names, NamesAssumption, Sessions, TypeOK
  <2>4. Pending(c) = {}
    <3>1. Pending(c) \subseteq Sessions  BY <2>3 DEF Pending
    <3> QED  BY <2>2, <2>3, <3>1 DEF Current
  <2>5. write[c] = None
    BY <2>2, <2>3 DEF Current, TypeOK
  <2>6. events'[c] # <<>> /\ Last(events'[c]) = s
    BY <2>2, <2>3 DEF Last
  <2>7. conv[c] # C2  BY <2>2, <2>3 DEF Current, Shape
  <2> QED  BY <1>1, <2>2, <2>4, <2>5, <2>6, <2>7 DEF Current, Told, Latest
<1>3. CASE Dies(c) \/ disconnect(c) \/ LoopEnds(c)
  <2>1. UNCHANGED <<sess, events>> /\ known'[c] = FALSE
    BY <1>3 DEF Dies, disconnect, LoopEnds, Set, TypeOK
  <2>2. Pending(c)' = Pending(c)  BY <2>1 DEF Pending
  <2>3. phase[c] = "over" => phase'[c] = "over"
    BY <1>3 DEF Dies, disconnect, LoopEnds
  <2> QED  BY <1>1, <2>1, <2>2, <2>3 DEF Current, Told
<1> QED  BY <1>2, <1>3
LEMMA CurrentOps ==
  ASSUME Names, TypeOK, Shape, Origin, NEW c \in Conns, Current(c), Told(c), Ops(c)
  PROVE  Current(c)' /\ Told(c)'
<1>0. /\ C1 # C2 /\ C1 \in Rows /\ C2 \in Rows /\ None \notin Rows
      /\ None \notin {"ext", "fork", "persist", "rebind", "started"}
      /\ op \in [Conns -> OpSteps] /\ conv \in [Conns -> Rows \cup {None}]
      /\ ext \in [Rows -> Sessions \cup {None}]
  BY RowsDiffer DEF Names, NamesAssumption, TypeOK, OpSteps, ForkSteps
<1>1. write' = write /\ unsaved' = unsaved /\ (events' = events => Pending(c)' = Pending(c))
  BY DEF Ops, SendExt, ForkReply, persist_fork_outcome, ForkRebind, ForkStarted, Pending
<1>2. CASE SendExt(c)
  <2>1. conv[c] = C1 /\ op'[c] = None /\ ext' = LinkedWrites(c)
        /\ UNCHANGED <<sess, events, conv, phase, known>>
    BY <1>0, <1>2 DEF SendExt, Shape, Set
  <2>2. sess[c] # Forked  BY <1>0, <2>1 DEF Origin
  <2>3. sess[c] # None => ext'[C1] = sess[c]  BY <1>0, <2>1 DEF LinkedWrites, Set
  <2> QED  BY <1>0, <1>1, <2>1, <2>2, <2>3 DEF Current, Told, Latest
<1>3. CASE ForkReply(c)
  <2>1. op[c] = "fork" /\ op'[c] \in {"persist", None}
        /\ UNCHANGED <<ext, sess, events, conv, phase, known>>
    BY <1>0, <1>3 DEF ForkReply, Set
  <2> QED  BY <1>0, <1>1, <2>1 DEF Current, Told, Latest
<1>4. CASE persist_fork_outcome(c)
  <2>1. op[c] = "persist" /\ conv[c] = C1 /\ UNCHANGED <<sess, events, conv>>
    BY <1>4 DEF persist_fork_outcome, Current
  <2>2. CASE ext[conv[c]] = sess[c]
    <3>1. ext'[C1] = ext[C1] /\ op'[c] = "rebind" /\ UNCHANGED <<phase, known>>
      BY <1>0, <1>4, <2>2 DEF persist_fork_outcome, Set
    <3> QED  BY <1>0, <1>1, <2>1, <3>1 DEF Current, Told, Latest
  <2>3. CASE ext[conv[c]] # sess[c]
    <3>1. op'[c] = None /\ phase'[c] = "over" /\ known'[c] = FALSE
      BY <1>0, <1>4, <2>3 DEF persist_fork_outcome, Set, TypeOK
    <3> QED  BY <1>0, <1>1, <2>1, <3>1 DEF Current, Told
  <2> QED  BY <2>2, <2>3
<1>5. CASE ForkRebind(c)
  <2>1. /\ op[c] = "rebind" /\ UNCHANGED <<ext, sess, events, phase, known>>
        /\ \/ phase[c] = "over" /\ op'[c] = None /\ conv' = conv
           \/ op'[c] = "started" /\ conv'[c] = C2
    BY <1>0, <1>5 DEF ForkRebind, Rebound, Set
  <2> QED  BY <1>0, <1>1, <2>1 DEF Current, Told
<1>6. CASE ForkStarted(c)
  <2>1. /\ op[c] = "started" /\ op'[c] = None /\ UNCHANGED <<ext, conv, phase, known>>
    BY <1>0, <1>6 DEF ForkStarted, Set
  <2>2. CASE phase[c] = "over"
    <3>1. UNCHANGED <<sess, events>>  BY <1>6, <2>2 DEF ForkStarted
    <3> QED  BY <1>0, <1>1, <2>1, <2>2, <3>1 DEF Current, Told
  <2>3. CASE phase[c] # "over"
    <3>1. Started(c, Forked) /\ Forked \in Sessions
      BY <1>6, <2>3 DEF ForkStarted, ForkId, Sessions
    <3>2. sess'[c] = Forked /\ events'[c] = Append(events[c], Forked) /\ events[c] \in Seq(Sessions)
      BY <3>1, EventsTyped DEF TypeOK
    <3>3. events'[c] # <<>> /\ Last(events'[c]) = Forked  BY <3>1, <3>2 DEF Last
    <3> QED  BY <1>0, <1>1, <2>1, <3>2, <3>3 DEF Current, Told, Latest
  <2> QED  BY <2>2, <2>3
<1> QED  BY <1>2, <1>3, <1>4, <1>5, <1>6 DEF Ops

LEMMA CurrentWorker ==
  ASSUME Names, TypeOK, Origin, NEW c \in Conns, Current(c), Told(c), Worker(c)
  PROVE  Current(c)' /\ Told(c)'
<1>0. C1 # C2 /\ Rows = {C1, C2} /\ None \notin Rows  BY RowsDiffer DEF Rows
<1>1. UNCHANGED <<phase, known, op, conv, sess, unsaved>>
  BY DEF Worker, WorkerTake, WorkerWrite
<1>2. CASE WorkerTake(c)
  <2>1. /\ Head(events[c]) \in Pending(c) /\ Pending(c)' \subseteq Pending(c)
        /\ write'[c] = IF known[c] /\ conv[c] # None
                       THEN [row |-> conv[c], id |-> Head(events[c])] ELSE None
    BY <1>2, TakenWasPending
  <2>2. write'[c] # None => write'[c].id = Head(events[c]) /\ write'[c].row = conv[c]
    <3>1. CASE known[c] /\ conv[c] # None  BY <2>1, <3>1
    <3>2. CASE ~(known[c] /\ conv[c] # None)  BY <2>1, <3>2
    <3> QED  BY <3>1, <3>2
  <2>3. events[c] \in Seq(Sessions) /\ events[c] # <<>> /\ events'[c] = Tail(events[c]) /\ ext' = ext
    BY <1>2 DEF WorkerTake, Set, TypeOK
  <2>4. events'[c] # <<>> => Last(events'[c]) = Last(events[c])  BY <2>3 DEF Last
  <2>5. events'[c] = <<>> => Head(events[c]) = Last(events[c])
    <3>1. Len(Tail(events[c])) = Len(events[c]) - 1 /\ Head(events[c]) = events[c][1]  BY <2>3
    <3>2. Len(events[c]) \in Nat /\ Len(<<>>) = 0  BY <2>3
    <3>3. ASSUME events'[c] = <<>>  PROVE Len(events[c]) = 1
      <4>1. Tail(events[c]) = <<>>  BY <2>3, <3>3
      <4>2. Len(events[c]) - 1 = 0  BY <3>1, <3>2, <4>1
      <4> QED  BY <3>2, <4>2
    <3> QED  BY <3>1, <3>3 DEF Last
  <2>6. known[c] /\ conv[c] # None => write'[c] # None
    <3>1. Head(events[c]) \in Sessions /\ conv[c] \in Rows \cup {None}  BY <2>3 DEF TypeOK
    <3>2. None \notin [row : Rows, id : Sessions]
      BY DEF Names, NamesAssumption, Rows, Sessions, C1, C2
    <3> QED  BY <2>1, <3>1, <3>2
  <2>7. c \notin unsaved => Last(events[c]) = sess[c]  BY <2>3 DEF Current
  <2>8. Current(c)'  BY <1>1, <2>1, <2>2, <2>4, <2>7 DEF Current
  <2>9. Told(c)'  BY <1>1, <2>2, <2>4, <2>5, <2>6, <2>7 DEF Told, Latest
  <2> QED  BY <2>8, <2>9
<1>3. CASE WorkerWrite(c)
  <2>1. /\ write[c] # None /\ write[c].row \in Rows /\ write'[c] = None /\ events' = events
        /\ ext' = [ext EXCEPT ![write[c].row] = write[c].id]
        /\ ext \in [Rows -> Sessions \cup {None}]
    BY <1>3 DEF WorkerWrite, TypeOK, Set
  <2>2. Pending(c)' = Pending(c)  BY <2>1 DEF Pending
  <2>3. Current(c)'  BY <1>1, <2>1, <2>2 DEF Current
  <2>4. CASE events[c] # <<>>
    BY <1>1, <2>1, <2>3, <2>4 DEF Current, Told, Latest
  <2>5. CASE events[c] = <<>>
    <3> SUFFICES ASSUME known[c], conv[c] # None, sess[c] # None, op[c] \notin {"ext", "started"},
                        c \notin unsaved
                 PROVE  ext'[conv[c]] = sess[c]
      BY <1>1, <2>1, <2>3, <2>5 DEF Told, Latest
    <3>1. write[c].id = sess[c]  BY <2>1, <2>5 DEF Told, Latest
    <3>2. CASE write[c].row = conv[c]  BY <2>1, <3>1, <3>2
    <3>3. CASE write[c].row # conv[c]
      <4>1. conv[c] \in Rows  BY DEF TypeOK
      <4>2. write[c].row = C1 /\ conv[c] = C2  BY <1>0, <2>1, <3>3, <4>1 DEF Current
      <4>3. write[c].id # Forked  BY <2>1, <4>2 DEF Origin
      <4> QED  BY <3>1, <4>2, <4>3 DEF Current
    <3> QED  BY <3>2, <3>3
  <2> QED  BY <2>4, <2>5
<1> QED  BY <1>2, <1>3 DEF Worker

-------------------------------------------------------------------------------
(* The three invariants along a behaviour.                                      *)

LEMMA LoyalAlways ==
  ASSUME Names, History, ~Forgetful, IdentityInv
  PROVE  /\ Init => Loyal
         /\ Loyal /\ [Next]_vars => Loyal'
<1>1. Init => Loyal  BY RowsDiffer DEF Init, Loyal, Pending
<1>2. ASSUME Loyal, UNCHANGED vars  PROVE Loyal'  BY <1>2 DEF vars, Loyal, Pending
<1>3. ASSUME Loyal, Next  PROVE Loyal'  BY <1>3, LoyalStep DEF IdentityInv
<1> QED  BY <1>1, <1>2, <1>3

LEMMA CleanAlways ==
  ASSUME Names, History, ~Timeouts, ~Overtaking, IdentityInv
  PROVE  /\ Init => Clean
         /\ Clean /\ [Next]_vars => Clean'
<1>1. Init => Clean
  <2> SUFFICES ASSUME Init  PROVE Clean
    OBVIOUS
  <2>1. Old # None /\ Forked # None /\ C1 # C2 /\ None \notin Rows \cup ForkSteps
    BY RowsDiffer DEF Names, NamesAssumption, ForkSteps
  <2>2. ext[C1] # None /\ ext[C2] = None  BY <2>1 DEF Init, Rows
  <2>3. \A p \in Clients : Ready(p)  BY DEF Init, Ready
  <2>4. ASSUME NEW c \in Conns  PROVE Forks(c)
    <3>1. ~Forker(c) /\ op[c] = None /\ conv[c] = None /\ write[c] = None
      BY <2>1 DEF Init, Forker, Rows
    <3> QED  BY <2>1, <3>1 DEF Forks, ForkSteps, Rows
  <2> QED  BY <2>2, <2>3, <2>4 DEF Clean
<1>2. ASSUME Clean, UNCHANGED vars  PROVE Clean'
  BY <1>2 DEF vars, Clean, Ready, Forks, Forker, Young, Pending
<1>3. ASSUME Clean, Next  PROVE Clean'
  <2>1. TypeOK /\ Shape /\ Origin /\ OneForker  BY DEF IdentityInv
  <2>2. ASSUME NEW p \in Clients, Connect(p) \/ Opens(p) \/ Leave(p)  PROVE Clean'
    BY <1>3, <2>1, <2>2, CleanOpens
  <2>3. ASSUME NEW p \in Clients, SendLink(p) \/ fork_session(p)  PROVE Clean'
    BY <1>3, <2>1, <2>3, CleanSends
  <2>4. ASSUME NEW c \in Conns, Handshake(c) \/ Dies(c) \/ disconnect(c) \/ LoopEnds(c)
        PROVE  Clean'
    BY <1>3, <2>1, <2>4, CleanConn
  <2>5. ASSUME NEW c \in Conns, Ops(c) \/ Worker(c)  PROVE Clean'
    BY <1>3, <2>1, <2>5, CleanOps, CleanWorker
  <2>6. ASSUME NEW c \in Conns, Faults(c)  PROVE Clean'
    BY <1>3, <2>1, <2>6, CleanFault
  <2> QED  BY <1>3, <2>2, <2>3, <2>4, <2>5, <2>6 DEF Next
<1> QED  BY <1>1, <1>2, <1>3

LEMMA CurrentAlways ==
  ASSUME Names, ~History, IdentityInv, NEW c \in Conns, Single(c)
  PROVE  /\ Init => Current(c) /\ Told(c)
         /\ Current(c) /\ Told(c) /\ [Next]_vars => Current(c)' /\ Told(c)'
<1>1. Init => Current(c) /\ Told(c)
  BY RowsDiffer DEF Init, Current, Told, Pending, Names, NamesAssumption
<1>2. ASSUME Current(c), Told(c), UNCHANGED vars  PROVE Current(c)' /\ Told(c)'
  BY <1>2 DEF vars, Current, Told, Latest, Pending
<1>3. ASSUME Current(c), Told(c), Next  PROVE Current(c)' /\ Told(c)'
  <2>1. TypeOK /\ Shape /\ Origin /\ OneForker  BY DEF IdentityInv
  <2>2. ASSUME NEW p \in Clients,
               Connect(p) \/ Opens(p) \/ Leave(p) \/ SendLink(p) \/ fork_session(p)
        PROVE  Current(c)' /\ Told(c)'
    BY <1>3, <2>1, <2>2, CurrentClient
  <2>3. CASE Handshake(c) \/ Dies(c) \/ disconnect(c) \/ LoopEnds(c)
    BY <1>3, <2>1, <2>3, CurrentConn
  <2>4. CASE Ops(c)  BY <1>3, <2>1, <2>4, CurrentOps
  <2>5. CASE Worker(c)  BY <1>3, <2>1, <2>5, CurrentWorker
  <2>6. CASE Faults(c)  BY <1>3, <2>1, <2>6, CurrentFault
  <2> QED  BY <1>3, <2>2, <2>3, <2>4, <2>5, <2>6 DEF Next, Single
<1> QED  BY <1>1, <1>2, <1>3

-------------------------------------------------------------------------------
(* What they say of the rows.                                                   *)

LEMMA InvPromises ==
  ASSUME IdentityInv
  PROVE  TypeOK /\ ForkKeepsOriginal /\ (~Timeouts => OneProcess)
BY DEF IdentityInv, Origin, ForkKeepsOriginal, Guarded

LEMMA PersistedOfClean ==
  ASSUME Names, IdentityInv, Loyal, Clean
  PROVE  Persisted
<1> SUFFICES ASSUME NEW c \in Conns, Open(c), conv[c] # None, sess[c] # None, op[c] = None
             PROVE  ext[conv[c]] = sess[c]
  BY DEF Persisted
<1>1. conv[c] \in {C1, C2} /\ C1 # C2 /\ None # "started"
  BY RowsDiffer DEF IdentityInv, TypeOK, Rows, Names, NamesAssumption
<1>2. CASE conv[c] = C1
  <2>1. sess[c] = Old  BY <1>1, <1>2 DEF IdentityInv, Origin, Loyal
  <2> QED  BY <1>2, <2>1 DEF Loyal
<1>3. CASE conv[c] = C2
  <2>1. phase[c] # "over"  BY DEF Open
  <2>2. ext[C2] = Forked /\ sess[c] = Forked  BY <1>1, <1>3, <2>1 DEF Clean, Forks
  <2> QED  BY <1>3, <2>2
<1> QED  BY <1>1, <1>2, <1>3

LEMMA PersistedOfTold ==
  ASSUME Names, \A c \in Conns : Told(c)
  PROVE  Persisted
<1>1. None # "ext" /\ None # "started"  BY DEF Names, NamesAssumption
<1> QED  BY <1>1 DEF Persisted, Told, Latest, Open
-------------------------------------------------------------------------------
(* Theorems.                                                                    *)

\* The invariant holds in every behaviour.
THEOREM IdentityInvHolds == ASSUME Names PROVE Spec => []IdentityInv
BY IdentityStart, IdentityStep, PTL DEF Spec

\* The variables keep their types; above all, a client that holds the spawn lock of a
\* Session is one that waits for it: spawn_agent drops the guard when the wait ends.
THEOREM IdentityTypeCorrect == ASSUME Names PROVE Spec => []TypeOK
<1>1. IdentityInv => TypeOK  BY InvPromises
<1> QED  BY <1>1, IdentityInvHolds, PTL

\* The original row never names the Session of a fork, whatever waits for the lifecycle
\* worker while the fork runs, whatever the agent forgets and whichever wait times out:
\* the connection has moved to the new row before it learns the forked id.
THEOREM OriginalKeepsSession == ASSUME Names PROVE Spec => []ForkKeepsOriginal
<1>1. IdentityInv => ForkKeepsOriginal  BY InvPromises
<1> QED  BY <1>1, IdentityInvHolds, PTL

\* No Session runs in two processes, whether or not the agent has forgotten some: the
\* lock of spawn_agent is held until the Session has started. A wait that times out
\* (SPAWN_HANDSHAKE_WAIT) lets the next client start it again.
THEOREM OneProcessHolds == ASSUME Names, ~Timeouts PROVE Spec => []OneProcess
<1>1. IdentityInv => OneProcess  BY InvPromises
<1> QED  BY <1>1, IdentityInvHolds, PTL

\* No row is linked to two open connections, once its conversation has a Session which
\* the agent still knows: every client asks for that Session and gets the connection
\* that runs it, and only the one that forks moves to another row.
THEOREM OneRuntimeHolds ==
  ASSUME Names, History, ~Forgetful, ~Timeouts PROVE Spec => []OneRuntime
<1>1. Init => Loyal  BY IdentityStart, LoyalAlways
<1>2. IdentityInv /\ Loyal /\ [Next]_vars => Loyal'  BY LoyalAlways
<1>3. IdentityInv /\ Loyal => OneRuntime
  BY OneRuntimeOfLoyal DEF IdentityInv
<1> QED  BY <1>1, <1>2, <1>3, IdentityInvHolds, PTL DEF Spec

\* The row of a fork names the forked Session and no other, when a fork waits until the
\* worker has written the id of the Session it leaves: the events of a connection are
\* written to the row it is linked to when they are handled, not when they were sent.
THEOREM ForkKeepsItsSession ==
  ASSUME Names, History, ~Timeouts, ~Overtaking PROVE Spec => []ForkKeepsSession
<1>1. Init => Clean  BY IdentityStart, CleanAlways
<1>2. IdentityInv /\ Clean /\ [Next]_vars => Clean'  BY CleanAlways
<1>3. Clean => ForkKeepsSession  BY DEF Clean, ForkKeepsSession
<1> QED  BY <1>1, <1>2, <1>3, IdentityInvHolds, PTL DEF Spec

\* With nothing on its way and no id lost the row of an open connection names its Session:
\* here for a conversation that is opened from its history by any number of clients.
THEOREM PersistedFromHistory ==
  ASSUME Names, History, ~Forgetful, ~Timeouts, ~Overtaking PROVE Spec => []Persisted
<1>1. Init => Loyal /\ Clean  BY IdentityStart, LoyalAlways, CleanAlways
<1>2. IdentityInv /\ Loyal /\ Clean /\ [Next]_vars => Loyal' /\ Clean'
  BY LoyalAlways, CleanAlways
<1>3. IdentityInv /\ Loyal /\ Clean => Persisted  BY PersistedOfClean
<1> QED  BY <1>1, <1>2, <1>3, IdentityInvHolds, PTL DEF Spec

\* And here for the one connection of a draft, whichever comes first: the prompt that
\* links the row or the Session that starts; through a fork, through a fork that starts
\* while an id waits for the worker, and through writes that the worker has to repeat.
THEOREM PersistedFromDraft ==
  ASSUME Names, ~History, \A c, d \in Conns : c = d PROVE Spec => []Persisted
<1> DEFINE Tells == \A c \in Conns : Current(c) /\ Told(c)
<1>1. Init => Tells  BY IdentityStart, CurrentAlways DEF Single
<1>2. IdentityInv /\ Tells /\ [Next]_vars => Tells'
  BY CurrentAlways DEF Single
<1>3. Tells => Persisted  BY PersistedOfTold
<1> HIDE DEF Tells
<1> QED  BY <1>1, <1>2, <1>3, IdentityInvHolds, PTL DEF Spec
==============================================================================
