------------------------- MODULE PermissionQueueProofs -------------------------
(* Theorems about PermissionQueue, for every number of requests, clients and    *)
(* commands: the card on screen, the requests that are blocked behind it and    *)
(* what is owed to the clients stay together, whatever the loop, the clients,    *)
(* the ends of turns and the death of the agent do in any order.                *)
EXTENDS PermissionQueue, SequenceTheorems, TLAPS

-------------------------------------------------------------------------------
(* Short sequences, and what a sequence holds.                                 *)

LEMMA ShortSequences ==
  ASSUME NEW S, NEW x \in S, NEW y \in S
  PROVE  /\ <<>> \o <<x>> = <<x>> /\ <<x>> \o <<>> = <<x>> /\ <<>> \o <<>> = <<>>
         /\ <<x>> \o <<y>> = <<x, y>>
<1>1. <<x>> \in Seq(S) /\ <<y>> \in Seq(S) /\ <<>> \in Seq(S) /\ <<x, y>> \in Seq(S)
  OBVIOUS
<1>2. <<>> \o <<x>> = <<x>> /\ <<x>> \o <<>> = <<x>> /\ <<>> \o <<>> = <<>>
  BY <1>1, ConcatEmptySeq
<1>3. <<x>> \o <<y>> = <<x, y>>
  <2>1. <<x>> \o <<y>> \in Seq(S) /\ Len(<<x>> \o <<y>>) = 2
    BY <1>1, ConcatProperties
  <2>2. (<<x>> \o <<y>>)[1] = x /\ (<<x>> \o <<y>>)[2] = y
    BY <1>1, ConcatProperties
  <2>3. Len(<<x, y>>) = 2 /\ <<x, y>>[1] = x /\ <<x, y>>[2] = y  OBVIOUS
  <2>4. \A n \in 1..2 : (<<x>> \o <<y>>)[n] = <<x, y>>[n]  BY <2>2, <2>3
  <2> QED  BY <1>1, <2>1, <2>3, <2>4, SeqEqual
<1> QED  BY <1>2, <1>3

LEMMA AppendIs ==
  ASSUME NEW S, NEW s \in Seq(S), NEW i \in S
  PROVE  /\ DOMAIN s = 1..Len(s) /\ DOMAIN Append(s, i) = 1..(Len(s) + 1) /\ Len(s) \in Nat
         /\ \A n \in 1..Len(s) : Append(s, i)[n] = s[n]
         /\ Append(s, i)[Len(s) + 1] = i
         /\ Append(s, i) \in Seq(S) /\ Append(s, i) # <<>> /\ Len(Append(s, i)) = Len(s) + 1
OBVIOUS

LEMMA ElemsAppend ==
  ASSUME NEW S, NEW s \in Seq(S), NEW i \in S
  PROVE  Elems(Append(s, i)) = Elems(s) \cup {i}
<1>1. /\ DOMAIN s = 1..Len(s) /\ DOMAIN Append(s, i) = 1..(Len(s) + 1) /\ Len(s) \in Nat
      /\ \A n \in 1..Len(s) : Append(s, i)[n] = s[n]
      /\ Append(s, i)[Len(s) + 1] = i
  BY AppendIs
<1>2. ASSUME NEW x \in Elems(s)  PROVE x \in Elems(Append(s, i))
  BY <1>1, <1>2 DEF Elems
<1>3. i \in Elems(Append(s, i))  BY <1>1 DEF Elems
<1>4. ASSUME NEW x \in Elems(Append(s, i))  PROVE x \in Elems(s) \cup {i}
  BY <1>1, <1>4 DEF Elems
<1> QED  BY <1>2, <1>3, <1>4

LEMMA ElemsHeadTail ==
  ASSUME NEW S, NEW s \in Seq(S), s # <<>>
  PROVE  Elems(s) = Elems(Tail(s)) \cup {Head(s)}
<1>1. /\ DOMAIN s = 1..Len(s) /\ DOMAIN Tail(s) = 1..(Len(s) - 1) /\ Len(s) \in Nat \ {0}
      /\ \A n \in 1..(Len(s) - 1) : Tail(s)[n] = s[n + 1]
      /\ Head(s) = s[1]
  OBVIOUS
<1>2. ASSUME NEW x \in Elems(Tail(s)) \cup {Head(s)}  PROVE x \in Elems(s)
  BY <1>1, <1>2 DEF Elems
<1>3. ASSUME NEW x \in Elems(s)  PROVE x \in Elems(Tail(s)) \cup {Head(s)}
  <2>1. PICK n \in 1..Len(s) : x = s[n]  BY <1>1, <1>3 DEF Elems
  <2>2. CASE n = 1
    BY <1>1, <2>1, <2>2
  <2>3. CASE n # 1
    <3>1. n - 1 \in 1..(Len(s) - 1) /\ Tail(s)[n - 1] = x  BY <1>1, <2>1, <2>3
    <3> QED  BY <1>1, <3>1 DEF Elems
  <2> QED  BY <2>2, <2>3
<1> QED  BY <1>2, <1>3

-------------------------------------------------------------------------------
(* Types.                                                                      *)

Queues   == [responders : SUBSET Requests, showing : Requests \cup {None},
             waiting : Seq(Requests)]
Events   == [type : {"request", "depth", "resolved", "complete"},
             id : Requests \cup {None}, n : Nat]
Commands == [c : {"prompt", "cancel", "respond", "control", "disconnect"},
             id : Requests \cup {None}]
Spends   == [{"prompts", "cancels", "controls", "sweeps", "deaths"} -> Nat]

CardTypes == /\ perms \in Queues /\ arrived \in Seq(Requests) /\ todo \in Seq(Events)
             /\ reply \in [Requests -> {"none", "selected", "cancelled", "dropped"}]
             /\ card \in Requests \cup {None} /\ depth \in Nat /\ tracked \subseteq Requests
LoopTypes == /\ clicked \subseteq Clients \X Requests /\ cmds \in Seq(Commands)
             /\ loop \in {"idle", "turn", "idle control", "turn control", "ending",
                          "leaving", "gone"}
             /\ status \in {"connected", "prompting", "disconnected"}
             /\ flight \in BOOLEAN /\ open \in BOOLEAN /\ victim \in BOOLEAN
             /\ used \in Spends
Types == CardTypes /\ LoopTypes

LEMMA EventType ==
  ASSUME NEW type \in {"request", "depth", "resolved", "complete"},
         NEW i \in Requests \cup {None}, NEW n \in Nat
  PROVE  Event(type, i, n) \in Events
BY DEF Event, Events

LEMMA QueueFields ==
  ASSUME perms \in Queues
  PROVE  /\ perms.responders \subseteq Requests /\ perms.showing \in Requests \cup {None}
         /\ perms.waiting \in Seq(Requests) /\ Len(perms.waiting) \in Nat
         /\ \A n \in 1..Len(perms.waiting) : perms.waiting[n] \in Requests
         /\ DOMAIN perms.waiting = 1..Len(perms.waiting)
BY DEF Queues

-------------------------------------------------------------------------------
(* The queue.                                                                  *)

\* Every request that is blocked has come, and none came twice.
QueueInv == /\ QueueSound
            /\ perms.responders \subseteq Elems(arrived)
            /\ \A m, n \in DOMAIN arrived : arrived[m] = arrived[n] => m = n

\* What waits has not been shown, and so was not answered.
NotShownYet(i) == i \notin Elems(perms.waiting)
ShownInv == /\ card # None => card \in Elems(arrived) /\ NotShownYet(card)
            /\ \A k \in Elems(cmds) :
                 k.c = "respond" => k.id \in Elems(arrived) /\ NotShownYet(k.id)

Older(x, y) == \E m, n \in DOMAIN arrived : m < n /\ arrived[m] = x /\ arrived[n] = y
InOrder ==
  /\ \A m, n \in DOMAIN perms.waiting : m < n => Older(perms.waiting[m], perms.waiting[n])
  /\ perms.showing # None
       => \A n \in DOMAIN perms.waiting : Older(perms.showing, perms.waiting[n])

\* admit: a request that has just come goes on screen, or behind all others.
LEMMA AdmitKeeps ==
  ASSUME NoneAssumption, CardTypes, QueueInv, InOrder, NEW i \in Requests,
         i \notin Elems(arrived), perms' = admit(i), arrived' = Append(arrived, i)
  PROVE  /\ perms' \in Queues /\ QueueInv' /\ InOrder'
         /\ Elems(perms'.waiting) \subseteq Elems(perms.waiting) \cup {i}
         /\ IF perms.showing = None
            THEN perms'.showing = i /\ perms'.waiting = <<>>
            ELSE perms'.showing = perms.showing /\ perms'.waiting = Append(perms.waiting, i)
<1> USE DEF QueueInv, CardTypes
<1>1. /\ i # None /\ i \notin perms.responders
      /\ perms.responders \subseteq Requests /\ perms.showing \in Requests \cup {None}
      /\ perms.waiting \in Seq(Requests) /\ Len(perms.waiting) \in Nat
      /\ Len(arrived) \in Nat /\ arrived \in Seq(Requests)
  BY QueueFields DEF NoneAssumption
<1>2. /\ Elems(arrived') = Elems(arrived) \cup {i}
      /\ \A n \in 1..Len(arrived) : arrived'[n] = arrived[n]
      /\ arrived'[Len(arrived) + 1] = i
      /\ DOMAIN arrived = 1..Len(arrived) /\ DOMAIN arrived' = 1..(Len(arrived) + 1)
  BY <1>1, ElemsAppend
<1>3. \A m, n \in DOMAIN arrived' : arrived'[m] = arrived'[n] => m = n
  <2>1. \A n \in 1..Len(arrived) : arrived[n] # i  BY <1>2 DEF Elems
  <2> QED  BY <1>1, <1>2, <2>1
<1>4. \A x, y : Older(x, y) => Older(x, y)'
  BY <1>1, <1>2 DEF Older
<1>5. ASSUME NEW x \in Elems(arrived)  PROVE Older(x, i)'
  <2>1. PICK m \in 1..Len(arrived) : arrived[m] = x  BY <1>2, <1>5 DEF Elems
  <2>2. m < Len(arrived) + 1 /\ Len(arrived) + 1 \in DOMAIN arrived' /\ m \in DOMAIN arrived'
    BY <1>1, <1>2
  <2> QED  BY <1>2, <2>1, <2>2 DEF Older
<1>6. CASE perms.showing = None
  <2>1. /\ perms.waiting = <<>> /\ perms.responders = {}
        /\ perms' = [perms EXCEPT !.responders = @ \cup {i}, !.showing = i]
    BY <1>6 DEF QueueSound, admit, Elems
  <2>2. perms' \in Queues
    <3>1. perms.responders \cup {i} \in SUBSET Requests  BY <1>1
    <3> QED  BY <2>1, <3>1 DEF Queues
  <2>3. /\ perms'.responders = {i} /\ perms'.showing = i
        /\ perms'.waiting = <<>>
    BY <1>1, <2>1 DEF Queues
  <2>4. QueueSound'  BY <1>1, <2>3 DEF QueueSound, Elems
  <2> QED  BY <1>2, <1>3, <1>6, <2>2, <2>3, <2>4 DEF InOrder, Elems
<1>7. CASE perms.showing # None
  <2>1. perms' = [perms EXCEPT !.responders = @ \cup {i}, !.waiting = Append(@, i)]
    BY <1>7 DEF admit
  <2>2. /\ perms' \in Queues /\ perms'.responders = perms.responders \cup {i}
        /\ perms'.showing = perms.showing /\ perms'.waiting = Append(perms.waiting, i)
    <3>1. /\ Append(perms.waiting, i) \in Seq(Requests)
          /\ perms.responders \cup {i} \in SUBSET Requests
      BY <1>1
    <3>2. perms' \in Queues  BY <2>1, <3>1 DEF Queues
    <3>3. /\ perms'.responders = perms.responders \cup {i}
          /\ perms'.showing = perms.showing /\ perms'.waiting = Append(perms.waiting, i)
      BY <1>1, <2>1 DEF Queues
    <3> QED  BY <3>2, <3>3
  <2>3. Elems(perms'.waiting) = Elems(perms.waiting) \cup {i}
    BY <1>1, <2>2, ElemsAppend
  <2>4. /\ DOMAIN perms.waiting = 1..Len(perms.waiting)
        /\ DOMAIN perms'.waiting = 1..(Len(perms.waiting) + 1)
        /\ \A n \in 1..Len(perms.waiting) : perms'.waiting[n] = perms.waiting[n]
        /\ perms'.waiting[Len(perms.waiting) + 1] = i
        /\ perms'.waiting # <<>>
    BY <1>1, <2>2, AppendIs
  <2>5. \A n \in DOMAIN perms.waiting : perms.waiting[n] \in perms.responders
    BY DEF QueueSound, Elems
  <2>6. perms.showing \in perms.responders  BY <1>7 DEF QueueSound
  <2>7. QueueSound'
    BY <1>1, <1>7, <2>2, <2>3, <2>4, <2>5, <2>6 DEF QueueSound
  <2>8. InOrder'
    BY <1>1, <1>4, <1>5, <1>7, <2>2, <2>4, <2>5, <2>6 DEF InOrder
  <2> QED  BY <1>2, <1>3, <1>7, <2>2, <2>3, <2>7, <2>8
<1> QED  BY <1>6, <1>7
\* resolve: a blocked request that does not wait is on screen; its branch for a
\* request that still waits is not taken.
LEMMA ResolveKeeps ==
  ASSUME NoneAssumption, CardTypes, QueueInv, InOrder, NEW i \in perms.responders,
         NotShownYet(i), perms' = resolve(i), UNCHANGED arrived
  PROVE  /\ perms' \in Queues /\ QueueInv' /\ InOrder'
         /\ Elems(perms'.waiting) \subseteq Elems(perms.waiting)
         /\ perms.showing = i /\ i \in Requests /\ perms'.showing # i
<1> USE DEF QueueInv, CardTypes
<1>1. /\ i \in Requests /\ i # None /\ perms.showing = i
      /\ perms.responders \subseteq Requests /\ perms.showing \in Requests \cup {None}
      /\ perms.waiting \in Seq(Requests)
  BY QueueFields DEF QueueSound, NotShownYet, NoneAssumption
<1>2. CASE perms.waiting = <<>>
  <2>1. perms' = [responders |-> perms.responders \ {i}, showing |-> None, waiting |-> <<>>]
    BY <1>1, <1>2 DEF resolve
  <2>2. /\ perms'.responders = {} /\ perms'.showing = None /\ perms'.waiting = <<>>
    BY <1>1, <1>2, <2>1 DEF QueueSound, Elems
  <2>3. perms' \in Queues  BY <2>1 DEF Queues
  <2> QED  BY <1>1, <2>2, <2>3 DEF QueueSound, InOrder, Elems
<1>3. CASE perms.waiting # <<>>
  <2> DEFINE h == Head(perms.waiting)
             t == Tail(perms.waiting)
  <2>1. /\ perms'.responders = perms.responders \ {i} /\ perms'.showing = h /\ perms'.waiting = t
        /\ perms' = [responders |-> perms.responders \ {i}, showing |-> h, waiting |-> t]
    BY <1>1, <1>3 DEF resolve
  <2>2. /\ h \in Requests /\ t \in Seq(Requests)
        /\ Elems(perms.waiting) = Elems(t) \cup {h}
    BY <1>1, <1>3, ElemsHeadTail
  <2>3. /\ Len(perms.waiting) \in Nat \ {0} /\ DOMAIN perms.waiting = 1..Len(perms.waiting)
        /\ DOMAIN t = 1..(Len(perms.waiting) - 1) /\ h = perms.waiting[1]
        /\ \A n \in DOMAIN t : t[n] = perms.waiting[n + 1] /\ n + 1 \in DOMAIN perms.waiting
    BY <1>1, <1>3
  <2> HIDE DEF h, t
  <2>4. h \notin Elems(t)
    <3>1. /\ 1 \in DOMAIN perms.waiting
          /\ \A n \in DOMAIN t : n + 1 # 1 /\ n + 1 \in DOMAIN perms.waiting
      BY <2>3
    <3>2. \A n \in DOMAIN t : t[n] # h  BY <2>3, <3>1 DEF QueueSound
    <3> QED  BY <3>2 DEF Elems
  <2>5. h # i /\ h # None  BY <1>1, <2>2 DEF NotShownYet, NoneAssumption
  <2>6. \A m, n \in DOMAIN t : t[m] = t[n] => m = n
    BY <2>3 DEF QueueSound
  <2>7. QueueSound'  BY <1>1, <2>1, <2>2, <2>4, <2>5, <2>6 DEF QueueSound, NotShownYet
  <2>8. InOrder'
    <3>1. \A x, y : Older(x, y) => Older(x, y)'  BY DEF Older
    <3>2. ASSUME NEW m \in DOMAIN t, NEW n \in DOMAIN t, m < n  PROVE Older(t[m], t[n])
      <4>1. m + 1 < n + 1  BY <2>3, <3>2
      <4> QED  BY <2>3, <4>1 DEF InOrder
    <3>3. ASSUME NEW n \in DOMAIN t  PROVE Older(h, t[n])
      <4>1. 1 < n + 1 /\ 1 \in DOMAIN perms.waiting  BY <2>3
      <4> QED  BY <2>3, <4>1 DEF InOrder
    <3> QED  BY <2>1, <3>1, <3>2, <3>3 DEF InOrder
  <2>9. perms' \in Queues  BY <1>1, <2>1, <2>2 DEF Queues
  <2> QED  BY <1>1, <2>1, <2>2, <2>5, <2>7, <2>8, <2>9
<1> QED  BY <1>2, <1>3

LEMMA EmptyKeeps ==
  ASSUME perms' = Empty, QueueInv, UNCHANGED arrived
  PROVE  /\ perms' \in Queues /\ QueueInv' /\ InOrder'
         /\ perms'.showing = None /\ Elems(perms'.waiting) = {}
<1>1. perms'.responders = {} /\ perms'.showing = None /\ perms'.waiting = <<>>
  BY DEF Empty
<1>2. perms' \in Queues  BY DEF Empty, Queues
<1> QED  BY <1>1, <1>2 DEF QueueInv, QueueSound, InOrder, Elems

-------------------------------------------------------------------------------
(* The events that are owed.                                                   *)

\* What the holder of the lock still has to emit, and how the card, its depth and
\* the outstanding requests of a task stand meanwhile.
ShownIsUp == /\ perms.showing # None => perms.showing \in tracked
             /\ card = perms.showing
             /\ card # None => depth = Len(perms.waiting)
Request   == Event("request", perms.showing, Len(perms.waiting))
Owed ==
  IF ~Alive
  THEN todo = <<>> /\ perms.showing = None
  ELSE \/ todo = <<>> /\ ShownIsUp
       \/ todo = <<Request>> /\ perms.showing # None
       \/ /\ todo = <<Event("depth", None, Len(perms.waiting))>>
          /\ perms.showing # None /\ perms.showing \in tracked /\ card = perms.showing
       \/ \E i \in Requests : /\ todo = <<Request, Event("resolved", i, 0)>>
                              /\ perms.showing \notin {None, i}
       \/ \E i \in Requests : /\ todo = <<Event("resolved", i, 0)>>
                              /\ \/ perms.showing = None /\ card \in {None, i}
                                 \/ perms.showing \notin {None, i} /\ ShownIsUp
       \/ todo = <<Event("complete", None, 0)>> /\ perms.showing = None
       \/ \E i \in Requests : /\ todo = <<Event("resolved", i, 0), Event("complete", None, 0)>>
                              /\ perms.showing = None

CardInv == Types /\ QueueInv /\ ShownInv /\ InOrder /\ Owed

\* The end of a turn is owed.
Completing == \E e \in Elems(todo) : e.type = "complete"

\* A step that leaves the cards alone, and sends no answer but to the card shown.
LEMMA QuietKeeps ==
  ASSUME CardInv, UNCHANGED cards, LoopTypes', Alive' <=> Alive,
         \A k \in Elems(cmds') : \/ k \in Elems(cmds) \/ k.c # "respond"
                                 \/ card # None /\ k.id = card
  PROVE  CardInv' /\ (Completing' <=> Completing)
<1>1. QueueInv'  BY DEF CardInv, QueueInv, QueueSound, cards
<1>2. InOrder'  BY DEF CardInv, InOrder, Older, cards
<1>3. CardTypes'  BY DEF CardInv, Types, CardTypes, cards
<1>4. \A i : NotShownYet(i)' <=> NotShownYet(i)  BY DEF NotShownYet, cards
<1>5. ShownInv'
  <2>1. card' = card /\ arrived' = arrived  BY DEF cards
  <2>2. ASSUME NEW k \in Elems(cmds'), k.c = "respond"
        PROVE  k.id \in Elems(arrived) /\ NotShownYet(k.id)
    BY <2>2 DEF CardInv, ShownInv
  <2> QED  BY <1>4, <2>1, <2>2 DEF CardInv, ShownInv
<1>6. Owed'  BY DEF CardInv, Owed, ShownIsUp, Request, cards
<1> QED  BY <1>1, <1>2, <1>3, <1>5, <1>6 DEF CardInv, Types, Completing, cards

\* admit_permission.
LEMMA ArrivalKeeps ==
  ASSUME NoneAssumption, CardInv, NEW i \in Requests, admit_permission(i), LoopTypes'
  PROVE  CardInv' /\ ~Completing'
<1>1. /\ perms' = admit(i) /\ arrived' = Append(arrived, i) /\ i \notin Elems(arrived)
      /\ Alive /\ Alive' /\ todo = <<>> /\ i # None
      /\ UNCHANGED <<card, depth, tracked, reply, cmds>>
      /\ arrived \in Seq(Requests)
  BY DEF admit_permission, LockFree, Alive, turns, NoneAssumption, CardInv, Types, CardTypes
<1>2. /\ perms' \in Queues /\ QueueInv' /\ InOrder'
      /\ Elems(perms'.waiting) \subseteq Elems(perms.waiting) \cup {i}
      /\ IF perms.showing = None
         THEN perms'.showing = i /\ perms'.waiting = <<>>
         ELSE perms'.showing = perms.showing /\ perms'.waiting = Append(perms.waiting, i)
  BY <1>1, AdmitKeeps DEF CardInv, Types
<1>3. ShownIsUp  BY <1>1 DEF CardInv, Owed
<1>4. Elems(arrived') = Elems(arrived) \cup {i} /\ arrived' \in Seq(Requests)
  BY <1>1, ElemsAppend
<1>5. ShownInv'
  <2>1. ASSUME NEW x \in Elems(arrived), NotShownYet(x)
        PROVE  x \in Elems(arrived') /\ NotShownYet(x)'
    BY <1>1, <1>2, <1>4, <2>1 DEF NotShownYet
  <2> QED  BY <1>1, <2>1 DEF CardInv, ShownInv
<1>6. perms.waiting \in Seq(Requests) /\ Len(perms'.waiting) \in Nat
  BY <1>2, QueueFields DEF CardInv, Types, CardTypes, Queues
<1>7. CASE perms.showing = None
  <2>1. todo' = <<Event("request", i, 0)>> /\ Len(perms'.waiting) = 0
    BY <1>2, <1>7 DEF admit_permission
  <2>2. todo' = <<Request'>> /\ perms'.showing # None  BY <1>1, <1>2, <1>7, <2>1 DEF Request
  <2>3. todo' \in Seq(Events)
    <3>1. Event("request", i, 0) \in Events  BY EventType
    <3> QED  BY <2>1, <3>1
  <2>4. Owed'  BY <1>1, <2>2 DEF Owed
  <2>5. ~Completing'  BY <2>1 DEF Completing, Elems, Event
  <2> QED  BY <1>1, <1>2, <1>4, <1>5, <2>3, <2>4, <2>5 DEF CardInv, Types, CardTypes
<1>8. CASE perms.showing # None
  <2>1. perms.showing # i
    BY <1>1, <1>8 DEF CardInv, QueueInv, QueueSound
  <2>2. todo' = <<Event("depth", None, Len(perms'.waiting))>>
    BY <1>2, <1>8, <2>1 DEF admit_permission, Queued
  <2>3. todo' \in Seq(Events)
    <3>1. Event("depth", None, Len(perms'.waiting)) \in Events  BY <1>6, EventType
    <3> QED  BY <2>2, <3>1
  <2>4. Owed'  BY <1>1, <1>2, <1>3, <1>8, <2>2 DEF Owed, ShownIsUp
  <2>5. ~Completing'  BY <2>2 DEF Completing, Elems, Event
  <2> QED  BY <1>1, <1>2, <1>4, <1>5, <2>3, <2>4, <2>5 DEF CardInv, Types, CardTypes
<1> QED  BY <1>7, <1>8

\* resolve_permission: the next card goes up before the answered one is cleared.
LEMMA AnswerKeeps ==
  ASSUME NoneAssumption, CardInv, NEW i \in Requests, i \in Elems(arrived), NotShownYet(i),
         resolve_permission(i), LockFree, Alive, Alive', LoopTypes',
         Elems(cmds') \subseteq Elems(cmds)
  PROVE  CardInv' /\ ~Completing'
<1>1. CASE i \notin perms.responders
  <2>1. UNCHANGED cards  BY <1>1 DEF resolve_permission
  <2>2. CardInv' /\ (Completing' <=> Completing)  BY <2>1, QuietKeeps
  <2> QED  BY <2>2 DEF Completing, LockFree, Elems
<1>2. CASE i \in perms.responders
  <2>1. /\ perms' = resolve(i) /\ todo' = Published(i) /\ Tell({i}, "selected")
        /\ UNCHANGED <<arrived, card, depth, tracked>>
    BY <1>2 DEF resolve_permission
  <2>2. /\ perms' \in Queues /\ QueueInv' /\ InOrder'
        /\ Elems(perms'.waiting) \subseteq Elems(perms.waiting)
        /\ perms.showing = i /\ perms'.showing # i
    BY <1>2, <2>1, ResolveKeeps DEF CardInv, Types
  <2>3. ShownIsUp  BY DEF CardInv, Owed, LockFree
  <2>4. ShownInv'
    BY <2>1, <2>2 DEF CardInv, ShownInv, NotShownYet
  <2>5. reply' \in [Requests -> {"none", "selected", "cancelled", "dropped"}]
    BY <2>1 DEF Tell, CardInv, Types, CardTypes
  <2>6. /\ perms'.showing \in Requests \cup {None} /\ Len(perms'.waiting) \in Nat /\ i # None
    BY <2>2 DEF Queues, NoneAssumption
  <2> DEFINE next == Event("request", perms'.showing, Len(perms'.waiting))
             gone == Event("resolved", i, 0)
  <2>7. next \in Events /\ gone \in Events  BY <2>6, EventType
  <2>8. CASE perms'.showing = None
    <3>1. todo' = <<gone>>
      BY <2>1, <2>7, <2>8, ShortSequences DEF Published, Promoted
    <3>2. todo' \in Seq(Events)  BY <2>7, <3>1
    <3>3. Owed'  BY <2>1, <2>2, <2>3, <2>8, <3>1 DEF Owed, ShownIsUp
    <3>4. ~Completing'  BY <3>1 DEF Completing, Elems, Event
    <3> QED  BY <2>1, <2>2, <2>4, <2>5, <3>2, <3>3, <3>4 DEF CardInv, Types, CardTypes
  <2>9. CASE perms'.showing # None
    <3>1. todo' = <<next, gone>>
      BY <2>1, <2>2, <2>7, <2>9, ShortSequences DEF Published, Promoted, Queued
    <3>2. todo' \in Seq(Events)  BY <2>7, <3>1
    <3>3. Owed'  BY <2>2, <2>9, <3>1 DEF Owed, Request
    <3>4. ~Completing'  BY <3>1 DEF Completing, Elems, Event
    <3> QED  BY <2>1, <2>2, <2>4, <2>5, <3>2, <3>3, <3>4 DEF CardInv, Types, CardTypes
  <2> QED  BY <2>8, <2>9
<1> QED  BY <1>1, <1>2

\* The drains: no card waits unseen, and the one on screen is owed its clearing.
LEMMA DrainKeeps ==
  ASSUME NoneAssumption, CardInv, NEW rest \in {<<>>, <<Event("complete", None, 0)>>},
         Drained(rest), LockFree, Alive, Alive', LoopTypes',
         Elems(cmds') \subseteq Elems(cmds)
  PROVE  CardInv' /\ (rest = <<>> => ~Completing')
<1>1. /\ perms' = Empty /\ Tell(perms.responders, "cancelled")
      /\ todo' = Compensation \o rest
      /\ UNCHANGED <<arrived, card, depth, tracked>>
  BY DEF Drained, drain
<1>2. /\ perms' \in Queues /\ QueueInv' /\ InOrder'
      /\ perms'.showing = None /\ Elems(perms'.waiting) = {}
  BY <1>1, EmptyKeeps DEF CardInv
<1>3. ShownIsUp  BY DEF CardInv, Owed, LockFree
<1>4. ShownInv'
  BY <1>1, <1>2 DEF CardInv, ShownInv, NotShownYet
<1>5. reply' \in [Requests -> {"none", "selected", "cancelled", "dropped"}]
  BY <1>1 DEF Tell, CardInv, Types, CardTypes
<1>6. perms.showing \in Requests \cup {None}  BY QueueFields DEF CardInv, Types, CardTypes
<1> DEFINE gone == Event("resolved", perms.showing, 0)
           over == Event("complete", None, 0)
<1>7. gone \in Events /\ over \in Events  BY <1>6, EventType
<1>a. rest = <<>> \/ rest = <<over>>  OBVIOUS
<1> HIDE DEF gone, over
<1>b. /\ <<>> \in Seq(Events) /\ <<over>> \in Seq(Events)
      /\ <<gone>> \in Seq(Events) /\ <<gone, over>> \in Seq(Events)
  BY <1>7
<1>8. CASE perms.showing = None
  <2>1. todo' = rest /\ card = None
    BY <1>1, <1>3, <1>7, <1>8, <1>a, ShortSequences DEF Compensation, ShownIsUp
  <2>2. todo' \in Seq(Events)  BY <1>a, <1>b, <2>1
  <2>3. Owed'  BY <1>1, <1>2, <1>a, <2>1 DEF Owed, ShownIsUp, over
  <2>4. rest = <<>> => ~Completing'  BY <2>1 DEF Completing, Elems
  <2> QED  BY <1>1, <1>2, <1>4, <1>5, <2>2, <2>3, <2>4 DEF CardInv, Types, CardTypes
<1>9. CASE perms.showing # None
  <2>1. todo' = IF rest = <<>> THEN <<gone>> ELSE <<gone, over>>
    BY <1>1, <1>7, <1>9, <1>a, ShortSequences DEF Compensation, gone
  <2>2. todo' \in Seq(Events)  BY <1>a, <1>b, <2>1
  <2>3. card = perms.showing /\ perms.showing \in Requests  BY <1>3, <1>6, <1>9 DEF ShownIsUp
  <2>4. Owed'  BY <1>1, <1>2, <1>a, <2>1, <2>3 DEF Owed, ShownIsUp, gone, over
  <2>5. rest = <<>> => ~Completing'  BY <2>1 DEF Completing, Elems, Event, gone
  <2> QED  BY <1>1, <1>2, <1>4, <1>5, <2>2, <2>4, <2>5 DEF CardInv, Types, CardTypes
<1> QED  BY <1>8, <1>9

\* Emit: what is owed brings the card, its depth and the task's count up to the queue.
LEMMA EmitKeeps ==
  ASSUME NoneAssumption, CardInv, Emit, LoopTypes'
  PROVE  /\ CardInv' /\ (Completing' => Completing)
         /\ flight' = IF Completing /\ ~Completing' THEN FALSE ELSE flight
         /\ NoFlap
<1>1. /\ todo # <<>> /\ apply_event(Head(todo)) /\ track_request(Head(todo))
      /\ todo' = Tail(todo)
      /\ UNCHANGED <<perms, reply, arrived, cmds, loop>> /\ Alive /\ Alive'
  BY DEF Emit, CardInv, Owed, Alive
<1>2. /\ perms.showing \in Requests \cup {None} /\ Len(perms.waiting) \in Nat
      /\ None \notin Requests
      /\ perms.showing # None
           => perms.showing \in Elems(arrived) /\ NotShownYet(perms.showing)
      /\ perms.showing = None => perms.responders = {}
  <2>1. perms \in Queues /\ QueueInv  BY DEF CardInv, Types, CardTypes
  <2>2. perms.showing # None => perms.showing \in perms.responders
    BY <2>1 DEF QueueInv, QueueSound
  <2>3. perms.showing \notin Elems(perms.waiting)  BY <2>1 DEF QueueInv, QueueSound
  <2>4. perms.showing = None => perms.responders = {}
    BY <2>1 DEF QueueInv, QueueSound, Elems
  <2> QED  BY <2>1, <2>2, <2>3, <2>4, QueueFields DEF QueueInv, NotShownYet, NoneAssumption
<1>3. QueueInv' /\ InOrder'
  BY <1>1 DEF CardInv, QueueInv, QueueSound, InOrder, Older
<1>4. card \in Requests \cup {None} /\ depth \in Nat /\ tracked \subseteq Requests
  BY DEF CardInv, Types, CardTypes
<1> DEFINE Good == /\ Owed' /\ todo' \in Seq(Events)
                   /\ card' \in Requests \cup {None} /\ depth' \in Nat /\ tracked' \subseteq Requests
                   /\ card' \in {card, None, perms.showing}
                   /\ (Completing' => Completing)
                   /\ flight' = IF Completing /\ ~Completing' THEN FALSE ELSE flight
                   /\ NoFlap
<1> DEFINE resolved(i) == Event("resolved", i, 0)
           over        == Event("complete", None, 0)
<1>5. /\ Request.type = "request" /\ Request.id = perms.showing
      /\ Request.n = Len(perms.waiting) /\ Request \in Events
  BY <1>2, EventType DEF Request, Event
<1>6. /\ \A i \in Requests : /\ resolved(i).type = "resolved" /\ resolved(i).id = i
                             /\ resolved(i).n = 0 /\ resolved(i) \in Events
      /\ over.type = "complete" /\ over.id = None /\ over \in Events
  BY EventType DEF Event
<1>7. Request' = Request  BY <1>1 DEF Request, Event
<1> HIDE DEF resolved, over
<1>8. ASSUME todo = <<Request>>, perms.showing # None  PROVE Good
  <2>1. Head(todo) = Request /\ todo' = <<>>  BY <1>1, <1>8
  <2>2. /\ card' = perms.showing /\ depth' = Len(perms.waiting) /\ flight' = flight
        /\ tracked' = tracked \cup {perms.showing}
    BY <1>1, <1>5, <2>1 DEF apply_event, track_request
  <2>3. ~Completing /\ ~Completing'  BY <1>5, <1>8, <2>1 DEF Completing, Elems
  <2>4. Owed'  BY <1>1, <2>1, <2>2 DEF Owed, ShownIsUp
  <2>5. NoFlap  BY <2>2 DEF NoFlap
  <2> QED  BY <1>2, <1>4, <1>8, <2>1, <2>2, <2>3, <2>4, <2>5
<1>9. ASSUME todo = <<Event("depth", None, Len(perms.waiting))>>,
             perms.showing # None, perms.showing \in tracked, card = perms.showing
      PROVE  Good
  <2>1. /\ Head(todo).type = "depth" /\ Head(todo).n = Len(perms.waiting) /\ todo' = <<>>
    BY <1>1, <1>9 DEF Event
  <2>2. card' = card /\ depth' = Len(perms.waiting) /\ flight' = flight /\ tracked' = tracked
    BY <1>1, <1>9, <2>1 DEF apply_event, track_request
  <2>3. ~Completing /\ ~Completing'  BY <1>9, <2>1 DEF Completing, Elems, Event
  <2>4. Owed'  BY <1>1, <1>9, <2>1, <2>2 DEF Owed, ShownIsUp
  <2>5. NoFlap  BY <2>2 DEF NoFlap
  <2> QED  BY <1>2, <1>4, <2>1, <2>2, <2>3, <2>4, <2>5
<1>10. ASSUME NEW i \in Requests, todo = <<Request, resolved(i)>>, perms.showing \notin {None, i}
       PROVE  Good
  <2>1. Head(todo) = Request /\ todo' = <<resolved(i)>>  BY <1>1, <1>10
  <2>2. /\ card' = perms.showing /\ depth' = Len(perms.waiting) /\ flight' = flight
        /\ tracked' = tracked \cup {perms.showing}
    BY <1>1, <1>5, <2>1 DEF apply_event, track_request
  <2>3. ~Completing /\ ~Completing'  BY <1>5, <1>6, <1>10, <2>1 DEF Completing, Elems
  <2>4. ShownIsUp' /\ perms'.showing \notin {None, i}
    BY <1>1, <1>10, <2>2 DEF ShownIsUp
  <2>5. Owed'  BY <1>1, <2>1, <2>4 DEF Owed, resolved
  <2>6. NoFlap  BY <2>2 DEF NoFlap
  <2>7. todo' \in Seq(Events)  BY <1>6, <2>1
  <2> QED  BY <1>2, <1>4, <1>10, <2>2, <2>3, <2>5, <2>6, <2>7
<1>11. ASSUME NEW i \in Requests, todo = <<resolved(i)>>,
              \/ perms.showing = None /\ card \in {None, i}
              \/ perms.showing \notin {None, i} /\ ShownIsUp
       PROVE  Good
  <2>1. Head(todo) = resolved(i) /\ todo' = <<>>  BY <1>1, <1>11
  <2>2. /\ card' = IF card = i THEN None ELSE card
        /\ depth' = depth /\ flight' = flight /\ tracked' = tracked \ {i}
    BY <1>1, <1>6, <2>1 DEF apply_event, track_request
  <2>3. ~Completing /\ ~Completing'  BY <1>6, <1>11, <2>1 DEF Completing, Elems
  <2>4. ShownIsUp'
    BY <1>1, <1>2, <1>11, <2>2 DEF ShownIsUp
  <2>5. Owed'  BY <1>1, <2>1, <2>4 DEF Owed
  <2>6. NoFlap  BY <1>2, <1>11, <2>2 DEF NoFlap, ShownIsUp
  <2> QED  BY <1>4, <2>1, <2>2, <2>3, <2>5, <2>6
<1>12. ASSUME todo = <<over>>, perms.showing = None  PROVE Good
  <2>1. Head(todo) = over /\ todo' = <<>>  BY <1>1, <1>12
  <2>2. card' = None /\ depth' = depth /\ flight' = FALSE /\ tracked' = tracked
    BY <1>1, <1>6, <2>1 DEF apply_event, track_request
  <2>3. Completing /\ ~Completing'  BY <1>6, <1>12, <2>1 DEF Completing, Elems
  <2>4. Owed'  BY <1>1, <1>12, <2>1, <2>2 DEF Owed, ShownIsUp
  <2>5. NoFlap  BY <2>2 DEF NoFlap
  <2>6. todo' \in Seq(Events)  BY <2>1
  <2>7. flight' = IF Completing /\ ~Completing' THEN FALSE ELSE flight  BY <2>2, <2>3
  <2> QED  BY <1>4, <2>2, <2>3, <2>4, <2>5, <2>6, <2>7
<1>13. ASSUME NEW i \in Requests, todo = <<resolved(i), over>>, perms.showing = None
       PROVE  Good
  <2>1. Head(todo) = resolved(i) /\ todo' = <<over>>  BY <1>1, <1>13
  <2>2. /\ card' = IF card = i THEN None ELSE card
        /\ depth' = depth /\ flight' = flight /\ tracked' = tracked \ {i}
    BY <1>1, <1>6, <2>1 DEF apply_event, track_request
  <2>3. Completing /\ Completing'
    <3>1. todo[2] = over /\ 2 \in DOMAIN todo /\ todo'[1] = over /\ 1 \in DOMAIN todo'
      BY <1>13, <2>1
    <3> QED  BY <1>6, <3>1 DEF Completing, Elems
  <2>4. Owed'  BY <1>1, <1>13, <2>1 DEF Owed, over
  <2>5. NoFlap  BY <1>2, <1>13 DEF NoFlap
  <2>6. todo' \in Seq(Events)  BY <1>6, <2>1
  <2> QED  BY <1>4, <2>2, <2>3, <2>4, <2>5, <2>6
<1>14. Good
  <2>1. \/ todo = <<Request>> /\ perms.showing # None
        \/ /\ todo = <<Event("depth", None, Len(perms.waiting))>>
           /\ perms.showing # None /\ perms.showing \in tracked /\ card = perms.showing
        \/ \E i \in Requests : todo = <<Request, resolved(i)>> /\ perms.showing \notin {None, i}
        \/ \E i \in Requests : /\ todo = <<resolved(i)>>
                               /\ \/ perms.showing = None /\ card \in {None, i}
                                  \/ perms.showing \notin {None, i} /\ ShownIsUp
        \/ todo = <<over>> /\ perms.showing = None
        \/ \E i \in Requests : todo = <<resolved(i), over>> /\ perms.showing = None
    BY <1>1 DEF CardInv, Owed, resolved, over
  <2> QED  BY <1>8, <1>9, <1>10, <1>11, <1>12, <1>13, <2>1
<1> HIDE DEF Good
<1>15. ShownInv'
  <2>1. \A x : NotShownYet(x)' <=> NotShownYet(x)  BY <1>1 DEF NotShownYet
  <2>2. card' \in {card, None, perms.showing}  BY <1>14 DEF Good
  <2>3. card' # None => card' \in Elems(arrived) /\ NotShownYet(card')
    BY <1>2, <2>2 DEF CardInv, ShownInv
  <2> QED  BY <1>1, <2>1, <2>3 DEF CardInv, ShownInv, NotShownYet
<1>16. CardTypes'  BY <1>1, <1>14 DEF Good, CardInv, Types, CardTypes
<1> QED  BY <1>3, <1>14, <1>15, <1>16 DEF Good, CardInv, Types

-------------------------------------------------------------------------------
(* The steps of the connection.                                                *)

LEMMA CommandsGrow ==
  ASSUME LoopTypes, NEW c \in {"prompt", "cancel", "respond", "control", "disconnect"},
         NEW i \in Requests \cup {None}, Command(c, i)
  PROVE  /\ cmds' \in Seq(Commands) /\ DOMAIN cmds = 1..Len(cmds) /\ Len(cmds) \in Nat
         /\ DOMAIN cmds' = 1..(Len(cmds) + 1)
         /\ \A n \in 1..Len(cmds) : cmds'[n] = cmds[n]
         /\ cmds'[Len(cmds) + 1] = [c |-> c, id |-> i]
         /\ Elems(cmds') = Elems(cmds) \cup {[c |-> c, id |-> i]}
<1>1. cmds \in Seq(Commands) /\ [c |-> c, id |-> i] \in Commands
  BY DEF LoopTypes, Commands
<1> QED  BY <1>1, AppendIs, ElemsAppend DEF Command

LEMMA CommandsShrink ==
  ASSUME LoopTypes, NEW c, Received(c)
  PROVE  /\ cmds' \in Seq(Commands) /\ Head(cmds) \in Elems(cmds) /\ Head(cmds).c = c
         /\ Head(cmds) \in Commands /\ Head(cmds) = cmds[1] /\ 1 \in DOMAIN cmds
         /\ Elems(cmds) = Elems(cmds') \cup {Head(cmds)}
         /\ \A n \in DOMAIN cmds' : cmds'[n] = cmds[n + 1] /\ n + 1 \in DOMAIN cmds /\ n \in Nat \ {0}
<1>1. cmds \in Seq(Commands) /\ cmds # <<>> /\ cmds' = Tail(cmds) /\ Head(cmds).c = c
  BY DEF LoopTypes, Received
<1>2. Elems(cmds) = Elems(cmds') \cup {Head(cmds)}  BY <1>1, ElemsHeadTail
<1> QED  BY <1>1, <1>2

LEMMA SpendType ==
  ASSUME used \in Spends, NEW what \in {"prompts", "cancels", "controls", "sweeps", "deaths"},
         NEW bound, Spend(what, bound)
  PROVE  used' \in Spends
BY DEF Spend, Spends

LEMMA LoopTypesStep ==
  ASSUME Types, NoneAssumption, Next
  PROVE  LoopTypes'
<1> USE DEF Types, LoopTypes
<1>1. CASE \E i \in Requests : admit_permission(i)
  BY <1>1 DEF admit_permission, turns
<1>2. CASE Emit
  <2>1. flight' \in BOOLEAN /\ status' \in {"connected", "prompting", "disconnected"}
    BY <1>2 DEF Emit, apply_event
  <2> QED  BY <1>2, <2>1 DEF Emit
<1>3. CASE send_prompt_inner
  BY <1>3, CommandsGrow, SpendType DEF send_prompt_inner
<1>4. CASE cancel
  BY <1>4, CommandsGrow, SpendType DEF cancel, turns
<1>5. CASE control
  BY <1>5, CommandsGrow, SpendType DEF control, turns
<1>6. CASE sweep_idle
  BY <1>6, SpendType DEF sweep_idle, turns
<1>7. CASE disconnect
  BY <1>7, CommandsGrow DEF disconnect, turns
<1>8. ASSUME NEW cl \in Clients, respond_permission(cl)  PROVE LoopTypes'
  <2>1. card \in Requests  BY <1>8 DEF respond_permission, CardTypes
  <2>2. clicked' \subseteq Clients \X Requests
    <3>1. <<cl, card>> \in Clients \X Requests  BY <2>1
    <3>2. clicked' = clicked \cup {<<cl, card>>}  BY <1>8 DEF respond_permission
    <3> QED  BY <3>1, <3>2
  <2> QED  BY <1>8, <2>1, <2>2, CommandsGrow DEF respond_permission, turns
<1>9. CASE LoopPrompt
  BY <1>9, CommandsShrink DEF LoopPrompt, Outside
<1>10. CASE LoopRespond
  BY <1>10, CommandsShrink DEF LoopRespond, Outside, turns
<1>11. CASE LoopControl
  BY <1>11, CommandsShrink DEF LoopControl, Outside
<1>12. CASE LoopCancelTurn
  BY <1>12, CommandsShrink DEF LoopCancelTurn, Outside
<1>13. CASE LoopCancelIdle
  BY <1>13, CommandsShrink DEF LoopCancelIdle, Outside, turns
<1>14. CASE TurnOver
  BY <1>14 DEF TurnOver, Outside
<1>15. CASE LoopDisconnect
  BY <1>15, CommandsShrink DEF LoopDisconnect, Outside
<1>16. CASE Leave
  <2>1. cmds' \in Seq(Commands)  BY <1>16 DEF Leave
  <2>2. /\ loop' = "gone" /\ open' = FALSE /\ status' = "disconnected"
        /\ UNCHANGED <<clicked, flight, victim, used>>
    BY <1>16 DEF Leave
  <2> QED  BY <2>1, <2>2
<1>17. CASE AgentReplies
  BY <1>17 DEF AgentReplies, Outside
<1>18. CASE TurnEnds
  BY <1>18 DEF TurnEnds, Outside
<1>19. CASE AgentDies
  BY <1>19, SpendType DEF AgentDies
<1> QED
  BY <1>1, <1>2, <1>3, <1>4, <1>5, <1>6, <1>7, <1>8, <1>9, <1>10, <1>11, <1>12, <1>13, <1>14,
     <1>15, <1>16, <1>17, <1>18, <1>19 DEF Next, Loop

\* A prompt holds the turn from the gate to its last event, and is alone.
Prompted == \E k \in Elems(cmds) : k.c = "prompt"
PromptInv ==
  /\ \A m, n \in DOMAIN cmds : cmds[m].c = "prompt" /\ cmds[n].c = "prompt" => m = n
  /\ Prompted => flight
  /\ InTurn => flight /\ ~Prompted
  /\ Completing => flight /\ ~Prompted /\ ~InTurn
ConnInv == CardInv /\ PromptInv

\* A step that sends no prompt and takes none, while no turn starts or completes.
LEMMA PromptsInherit ==
  ASSUME PromptInv, UNCHANGED flight, Elems(cmds') \subseteq Elems(cmds),
         \A m, n \in DOMAIN cmds' : cmds'[m].c = "prompt" /\ cmds'[n].c = "prompt" => m = n,
         InTurn' => InTurn, Completing' => Completing \/ (InTurn /\ ~InTurn')
  PROVE  PromptInv'
BY DEF PromptInv, Prompted

LEMMA PromptsStay ==
  ASSUME PromptInv, UNCHANGED <<flight, cmds>>,
         InTurn' => InTurn, Completing' => Completing \/ (InTurn /\ ~InTurn')
  PROVE  PromptInv'
<1>1. cmds' = cmds  OBVIOUS
<1> QED  BY <1>1, PromptsInherit DEF PromptInv

LEMMA PromptsShrink ==
  ASSUME PromptInv, UNCHANGED flight, LoopTypes, NEW c, Received(c),
         InTurn' => InTurn, Completing' => Completing \/ (InTurn /\ ~InTurn')
  PROVE  PromptInv'
<1>1. \A m, n \in DOMAIN cmds' : cmds'[m].c = "prompt" /\ cmds'[n].c = "prompt" => m = n
  <2>1. ASSUME NEW m \in DOMAIN cmds', NEW n \in DOMAIN cmds',
               cmds'[m].c = "prompt", cmds'[n].c = "prompt"
        PROVE  m = n
    <3>1. /\ cmds[m + 1].c = "prompt" /\ cmds[n + 1].c = "prompt"
          /\ m + 1 \in DOMAIN cmds /\ n + 1 \in DOMAIN cmds /\ m \in Nat /\ n \in Nat
      BY <2>1, CommandsShrink
    <3>2. m + 1 = n + 1  BY <3>1 DEF PromptInv
    <3> QED  BY <3>1, <3>2
  <2> QED  BY <2>1
<1> QED  BY <1>1, CommandsShrink, PromptsInherit

LEMMA PromptsGrow ==
  ASSUME PromptInv, UNCHANGED <<flight, loop, todo>>, LoopTypes,
         NEW c \in {"cancel", "respond", "control", "disconnect"},
         NEW i \in Requests \cup {None}, Command(c, i)
  PROVE  PromptInv'
<1>1. /\ DOMAIN cmds' = DOMAIN cmds \cup {Len(cmds) + 1} /\ Len(cmds) + 1 \notin DOMAIN cmds
      /\ \A n \in DOMAIN cmds : cmds'[n] = cmds[n]
      /\ cmds'[Len(cmds) + 1].c # "prompt"
      /\ Elems(cmds') = Elems(cmds) \cup {[c |-> c, id |-> i]}
  <2>1. c # "prompt" /\ [c |-> c, id |-> i].c = c
        /\ c \in {"prompt", "cancel", "respond", "control", "disconnect"}
    OBVIOUS
  <2>2. /\ DOMAIN cmds = 1..Len(cmds) /\ Len(cmds) \in Nat
        /\ DOMAIN cmds' = 1..(Len(cmds) + 1)
        /\ \A n \in 1..Len(cmds) : cmds'[n] = cmds[n]
        /\ cmds'[Len(cmds) + 1] = [c |-> c, id |-> i]
        /\ Elems(cmds') = Elems(cmds) \cup {[c |-> c, id |-> i]}
    BY <2>1, CommandsGrow
  <2> QED  BY <2>1, <2>2
<1>2. Prompted' => Prompted  BY <1>1 DEF Prompted
<1>3. (InTurn' <=> InTurn) /\ (Completing' <=> Completing)  BY DEF InTurn, Completing
<1>4. \A m, n \in DOMAIN cmds' : cmds'[m].c = "prompt" /\ cmds'[n].c = "prompt" => m = n
  BY <1>1 DEF PromptInv
<1> QED  BY <1>2, <1>3, <1>4 DEF PromptInv

LEMMA ConnStarts == ASSUME Init PROVE ConnInv
<1>1. /\ perms.responders = {} /\ perms.showing = None /\ perms.waiting = <<>>
      /\ arrived = <<>> /\ cmds = <<>> /\ todo = <<>> /\ card = None /\ Alive /\ ~InTurn
  BY DEF Init, Empty, Alive, InTurn
<1>2. perms \in Queues  BY DEF Init, Empty, Queues
<1>3. CardTypes  BY <1>1, <1>2 DEF Init, CardTypes
<1>4. LoopTypes
  <2>1. used \in Spends  BY DEF Init, Spends
  <2>2. cmds \in Seq(Commands) /\ clicked \subseteq Clients \X Requests  BY <1>1 DEF Init
  <2> QED  BY <2>1, <2>2 DEF Init, LoopTypes
<1>5. Owed  BY <1>1 DEF Owed, ShownIsUp
<1>6. QueueInv /\ ShownInv /\ InOrder
  BY <1>1 DEF QueueInv, QueueSound, ShownInv, InOrder, Elems
<1>7. PromptInv  BY <1>1 DEF PromptInv, Prompted, Completing, Elems
<1> QED  BY <1>3, <1>4, <1>5, <1>6, <1>7 DEF ConnInv, CardInv, Types

LEMMA ConnStep ==
  ASSUME NoneAssumption, ConnInv, Next
  PROVE  ConnInv'
<1> USE DEF ConnInv
<1>0. Types /\ LoopTypes /\ LoopTypes'  BY LoopTypesStep DEF CardInv, Types
<1>1. ASSUME NEW i \in Requests, admit_permission(i)  PROVE ConnInv'
  <2>1. CardInv' /\ ~Completing'  BY <1>0, <1>1, ArrivalKeeps
  <2>2. UNCHANGED <<flight, cmds, loop>>  BY <1>1 DEF admit_permission, turns
  <2>3. PromptInv'  BY <2>1, <2>2, PromptsStay DEF InTurn
  <2> QED  BY <2>1, <2>3
<1>2. CASE Emit
  <2>1. /\ CardInv' /\ (Completing' => Completing)
        /\ flight' = IF Completing /\ ~Completing' THEN FALSE ELSE flight
    BY <1>0, <1>2, EmitKeeps
  <2>2. cmds' = cmds /\ loop' = loop  BY <1>2 DEF Emit
  <2>3. PromptInv'  BY <2>1, <2>2 DEF PromptInv, Prompted, InTurn
  <2> QED  BY <2>1, <2>3
<1>3. CASE send_prompt_inner
  <2>1. ~flight /\ flight' = TRUE /\ Command("prompt", None) /\ UNCHANGED <<cards, loop>>
    BY <1>3 DEF send_prompt_inner, Gate
  <2>2. /\ DOMAIN cmds = 1..Len(cmds) /\ Len(cmds) \in Nat
        /\ DOMAIN cmds' = 1..(Len(cmds) + 1)
        /\ \A n \in 1..Len(cmds) : cmds'[n] = cmds[n]
        /\ Elems(cmds') = Elems(cmds) \cup {[c |-> "prompt", id |-> None]}
    BY <1>0, <2>1, CommandsGrow
  <2>3. CardInv' /\ (Completing' <=> Completing)
    BY <1>0, <2>1, <2>2, QuietKeeps DEF Alive
  <2>4. ~Prompted /\ ~InTurn /\ ~InTurn' /\ ~Completing
    BY <2>1 DEF PromptInv, InTurn
  <2>5. \A n \in 1..Len(cmds) : cmds'[n].c # "prompt"
    BY <2>2, <2>4 DEF Prompted, Elems
  <2>6. \A m, n \in DOMAIN cmds' : cmds'[m].c = "prompt" /\ cmds'[n].c = "prompt" => m = n
    BY <2>2, <2>5
  <2> QED  BY <2>1, <2>3, <2>4, <2>6 DEF PromptInv
<1>4. ASSUME NEW c \in {"cancel", "respond", "control", "disconnect"},
             NEW i \in Requests \cup {None}, Command(c, i),
             c = "respond" => card # None /\ i = card, UNCHANGED <<cards, loop, flight>>
      PROVE  ConnInv'
  <2>1. /\ Elems(cmds') = Elems(cmds) \cup {[c |-> c, id |-> i]}
        /\ [c |-> c, id |-> i].c = c /\ [c |-> c, id |-> i].id = i
    BY <1>0, <1>4, CommandsGrow
  <2>2. CardInv'  BY <1>0, <1>4, <2>1, QuietKeeps DEF Alive
  <2>3. todo' = todo  BY <1>4 DEF cards
  <2>4. PromptInv'  BY <1>0, <1>4, <2>3, PromptsGrow
  <2> QED  BY <2>2, <2>4
<1>5. CASE cancel
  BY <1>4, <1>5 DEF cancel, turns
<1>6. CASE control
  BY <1>4, <1>6 DEF control, turns
<1>7. ASSUME NEW cl \in Clients, respond_permission(cl)  PROVE ConnInv'
  <2>1. card \in Requests  BY <1>0, <1>7 DEF respond_permission, Types, CardTypes
  <2>2. Command("respond", card) /\ UNCHANGED <<cards, loop, flight>>
    BY <1>7 DEF respond_permission, turns
  <2> QED  BY <1>4, <1>7, <2>1, <2>2 DEF respond_permission
<1>8. ASSUME UNCHANGED <<cards, flight, cmds>>, Alive' <=> Alive, InTurn' => InTurn
      PROVE  ConnInv'
  <2>1. cmds' = cmds  BY <1>8
  <2>2. CardInv' /\ (Completing' <=> Completing)  BY <1>0, <1>8, <2>1, QuietKeeps
  <2>3. PromptInv'  BY <1>8, <2>2, PromptsStay
  <2> QED  BY <2>2, <2>3
<1>9. CASE sweep_idle
  BY <1>8, <1>9 DEF sweep_idle, turns, Alive, InTurn
<1>10. CASE disconnect
  <2>1. CASE open
    BY <1>4, <1>10, <2>1 DEF disconnect, turns
  <2>2. CASE ~open
    BY <1>8, <1>10, <2>2 DEF disconnect, turns, Alive, InTurn
  <2> QED  BY <2>1, <2>2
<1>11. CASE LoopPrompt
  <2>1. /\ Received("prompt") /\ loop \in {"idle", "turn"} /\ loop' = "turn"
        /\ UNCHANGED <<cards, flight>>
    BY <1>11 DEF LoopPrompt
  <2>2. /\ Head(cmds) \in Elems(cmds) /\ Head(cmds).c = "prompt"
        /\ Head(cmds) = cmds[1] /\ 1 \in DOMAIN cmds
        /\ Elems(cmds) = Elems(cmds') \cup {Head(cmds)}
        /\ \A n \in DOMAIN cmds' : /\ cmds'[n] = cmds[n + 1] /\ n + 1 \in DOMAIN cmds
                                   /\ n \in Nat \ {0}
    BY <1>0, <2>1, CommandsShrink
  <2>3. CardInv' /\ (Completing' <=> Completing)
    BY <1>0, <2>1, <2>2, QuietKeeps DEF Alive
  <2>4. flight /\ ~Completing  BY <2>2 DEF PromptInv, Prompted
  <2>5. \A n \in DOMAIN cmds' : cmds'[n].c # "prompt"
    <3>1. \A n \in DOMAIN cmds' : n + 1 # 1  BY <2>2
    <3> QED  BY <2>2, <3>1 DEF PromptInv
  <2>6. ~Prompted'  BY <2>5 DEF Prompted, Elems
  <2> QED  BY <2>1, <2>3, <2>4, <2>5, <2>6 DEF PromptInv
<1>12. ASSUME NEW c, Received(c), UNCHANGED <<cards, flight>>, Alive' <=> Alive, InTurn' => InTurn
       PROVE  ConnInv'
  <2>1. Elems(cmds') \subseteq Elems(cmds)  BY <1>0, <1>12, CommandsShrink
  <2>2. CardInv' /\ (Completing' <=> Completing)  BY <1>0, <1>12, <2>1, QuietKeeps
  <2>3. PromptInv'  BY <1>0, <1>12, <2>2, PromptsShrink
  <2> QED  BY <2>2, <2>3
<1>13. CASE LoopRespond
  <2>1. /\ Received("respond") /\ LockFree /\ loop \in {"idle", "turn"}
        /\ resolve_permission(Head(cmds).id) /\ UNCHANGED <<loop, flight>>
    BY <1>13 DEF LoopRespond, turns
  <2>2. /\ Head(cmds) \in Elems(cmds) /\ Head(cmds).c = "respond"
        /\ Elems(cmds') \subseteq Elems(cmds)
    BY <1>0, <2>1, CommandsShrink
  <2>3. Head(cmds).id \in Elems(arrived) /\ NotShownYet(Head(cmds).id)
    BY <2>2 DEF CardInv, ShownInv
  <2>4. Head(cmds).id \in Requests
    <3>1. arrived \in Seq(Requests)  BY <1>0 DEF Types, CardTypes
    <3> QED  BY <2>3, <3>1 DEF Elems
  <2>5. Alive /\ Alive' /\ (InTurn' => InTurn)  BY <2>1 DEF Alive, InTurn
  <2>6. CardInv' /\ ~Completing'
    BY <1>0, <2>1, <2>2, <2>3, <2>4, <2>5, AnswerKeeps
  <2>7. PromptInv'  BY <1>0, <2>1, <2>5, <2>6, PromptsShrink
  <2> QED  BY <2>6, <2>7
<1>14. CASE LoopControl
  BY <1>12, <1>14 DEF LoopControl, Alive, InTurn
<1>15. CASE LoopCancelTurn
  <2>1. /\ Received("cancel") /\ LockFree /\ loop = "turn" /\ loop' = "ending" /\ flight' = flight
        /\ Drained(<<Event("complete", None, 0)>>)
    BY <1>15 DEF LoopCancelTurn, drain_permissions_then_emit
  <2>2. Elems(cmds') \subseteq Elems(cmds)  BY <1>0, <2>1, CommandsShrink
  <2>3. Alive /\ Alive' /\ InTurn /\ ~InTurn'  BY <2>1 DEF Alive, InTurn
  <2>4. CardInv'  BY <1>0, <2>1, <2>2, <2>3, DrainKeeps
  <2>5. PromptInv'  BY <1>0, <2>1, <2>3, PromptsShrink
  <2> QED  BY <2>4, <2>5
<1>16. CASE LoopCancelIdle
  <2>1. /\ Received("cancel") /\ LockFree /\ loop = "idle" /\ loop' = loop /\ flight' = flight
        /\ Drained(<<>>)
    BY <1>16 DEF LoopCancelIdle, drain_permissions, turns
  <2>2. Elems(cmds') \subseteq Elems(cmds)  BY <1>0, <2>1, CommandsShrink
  <2>3. Alive /\ Alive' /\ ~InTurn'  BY <2>1 DEF Alive, InTurn
  <2>4. CardInv' /\ ~Completing'  BY <1>0, <2>1, <2>2, <2>3, DrainKeeps
  <2>5. PromptInv'  BY <1>0, <2>1, <2>3, <2>4, PromptsShrink
  <2> QED  BY <2>4, <2>5
<1>17. CASE TurnOver
  BY <1>8, <1>17 DEF TurnOver, Alive, InTurn
<1>18. CASE LoopDisconnect
  <2>1. /\ Received("disconnect") /\ LockFree /\ loop \in {"idle", "turn"} /\ loop' = "leaving"
        /\ flight' = flight
    BY <1>18 DEF LoopDisconnect
  <2>2. Elems(cmds') \subseteq Elems(cmds)  BY <1>0, <2>1, CommandsShrink
  <2>3. Alive /\ Alive' /\ ~InTurn'  BY <2>1 DEF Alive, InTurn
  <2>4. CASE loop = "turn"
    <3>1. Drained(<<>>)  BY <1>18, <2>4 DEF LoopDisconnect, drain_permissions
    <3>2. CardInv' /\ ~Completing'  BY <1>0, <2>1, <2>2, <2>3, <3>1, DrainKeeps
    <3>3. PromptInv'  BY <1>0, <2>1, <2>3, <3>2, PromptsShrink
    <3> QED  BY <3>2, <3>3
  <2>5. CASE loop # "turn"
    <3>1. UNCHANGED cards  BY <1>18, <2>5 DEF LoopDisconnect
    <3> QED  BY <1>12, <2>1, <2>3, <3>1
  <2> QED  BY <2>4, <2>5
<1>19. CASE Leave
  <2>1. /\ LockFree /\ Alive /\ ~Alive' /\ ~InTurn' /\ cmds' = <<>> /\ perms' = Empty
        /\ Tell(perms.responders, "dropped")
        /\ UNCHANGED <<todo, arrived, card, depth, tracked, flight>>
    BY <1>19 DEF Leave, Alive, InTurn
  <2>2. /\ perms' \in Queues /\ QueueInv' /\ InOrder'
        /\ perms'.showing = None /\ Elems(perms'.waiting) = {}
    BY <2>1, EmptyKeeps DEF CardInv
  <2>3. ShownInv'
    <3>1. Elems(cmds') = {}  BY <2>1 DEF Elems
    <3>2. \A x : NotShownYet(x)'  BY <2>2 DEF NotShownYet
    <3>3. card' = card /\ arrived' = arrived  BY <2>1
    <3> QED  BY <3>1, <3>2, <3>3 DEF CardInv, ShownInv
  <2>4. Owed'  BY <2>1, <2>2 DEF Owed, LockFree
  <2>5. CardTypes'
    <3>1. reply' \in [Requests -> {"none", "selected", "cancelled", "dropped"}]
      BY <1>0, <2>1 DEF Tell, Types, CardTypes
    <3> QED  BY <1>0, <2>1, <2>2, <3>1 DEF Types, CardTypes
  <2>6. PromptInv'
    BY <2>1 DEF PromptInv, Prompted, Completing, Elems, LockFree
  <2> QED  BY <1>0, <2>2, <2>3, <2>4, <2>5, <2>6 DEF CardInv, Types
<1>20. CASE AgentReplies
  BY <1>8, <1>20 DEF AgentReplies, Alive, InTurn
<1>21. CASE TurnEnds
  <2>1. /\ LockFree /\ loop = "turn" /\ loop' = "ending" /\ UNCHANGED <<flight, cmds>>
        /\ Drained(<<Event("complete", None, 0)>>)
    BY <1>21 DEF TurnEnds, drain_permissions_then_emit
  <2>2. cmds' = cmds /\ Alive /\ Alive' /\ InTurn /\ ~InTurn'  BY <2>1 DEF Alive, InTurn
  <2>3. CardInv'  BY <1>0, <2>1, <2>2, DrainKeeps
  <2>4. PromptInv'  BY <2>1, <2>2, PromptsStay
  <2> QED  BY <2>3, <2>4
<1>22. CASE AgentDies
  BY <1>8, <1>22 DEF AgentDies, Alive, InTurn
<1> QED
  BY <1>1, <1>2, <1>3, <1>5, <1>6, <1>7, <1>9, <1>10, <1>11, <1>13, <1>14, <1>15, <1>16,
     <1>17, <1>18, <1>19, <1>20, <1>21, <1>22 DEF Next, Loop

LEMMA ConnStutter == ASSUME ConnInv, UNCHANGED vars PROVE ConnInv'
<1>1. UNCHANGED <<cards, flight, cmds, loop>> /\ cmds' = cmds  BY DEF vars, cards
<1>2. LoopTypes'  BY DEF vars, ConnInv, CardInv, Types, LoopTypes
<1>3. CardInv' /\ (Completing' <=> Completing)
  BY <1>1, <1>2, QuietKeeps DEF ConnInv, Alive
<1>4. PromptInv'  BY <1>1, <1>3, PromptsStay DEF ConnInv, InTurn
<1> QED  BY <1>3, <1>4 DEF ConnInv

-------------------------------------------------------------------------------
(* What the invariant says of a state, and of a step.                           *)

LEMMA ConnTypes == ConnInv => TypeOK
<1> SUFFICES ASSUME ConnInv PROVE TypeOK  OBVIOUS
<1>1. CardTypes /\ LoopTypes  BY DEF ConnInv, CardInv, Types
<1>2. /\ perms.responders \subseteq Requests /\ perms.showing \in Requests \cup {None}
      /\ perms.waiting \in Seq(Requests)
  BY <1>1 DEF CardTypes, Queues
<1> QED  BY <1>1, <1>2 DEF TypeOK, CardTypes, LoopTypes, Events, Commands, Spends

LEMMA ConnOrder == ConnInv => OldestFirst
<1> SUFFICES ASSUME ConnInv, NEW m \in DOMAIN arrived, NEW n \in DOMAIN arrived, m < n,
                    {arrived[m], arrived[n]} \subseteq perms.responders,
                    perms.showing = arrived[n]
             PROVE  FALSE
  BY DEF OldestFirst
<1>1. arrived \in Seq(Requests) /\ QueueInv /\ InOrder
  BY DEF ConnInv, CardInv, Types, CardTypes
<1>2. DOMAIN arrived \subseteq Nat  BY <1>1
<1>3. arrived[m] # arrived[n]  BY <1>1, <1>2 DEF QueueInv
<1>4. PICK k \in DOMAIN perms.waiting : perms.waiting[k] = arrived[m]
  BY <1>1, <1>3 DEF QueueInv, QueueSound, Elems
<1>5. perms.showing # None  BY <1>1, <1>4 DEF QueueInv, QueueSound
<1>6. Older(arrived[n], arrived[m])  BY <1>1, <1>4, <1>5 DEF InOrder
<1>7. PICK a, b \in DOMAIN arrived : a < b /\ arrived[a] = arrived[n] /\ arrived[b] = arrived[m]
  BY <1>6 DEF Older
<1>8. a = n /\ b = m  BY <1>1, <1>7 DEF QueueInv
<1> QED  BY <1>2, <1>7, <1>8

LEMMA ConnPromises ==
  ConnInv => QueueSound /\ CardIsShowing /\ DepthIsTrue /\ NoPromptDropped
<1> SUFFICES ASSUME ConnInv PROVE QueueSound /\ CardIsShowing /\ DepthIsTrue /\ NoPromptDropped
  OBVIOUS
<1>1. QueueSound  BY DEF ConnInv, CardInv, QueueInv
<1>2. CardIsShowing
  BY DEF ConnInv, CardInv, Owed, CardIsShowing, ShownIsUp, LockFree
<1>3. DepthIsTrue
  BY DEF ConnInv, CardInv, Owed, DepthIsTrue, ShownIsUp, LockFree
<1>4. NoPromptDropped
  BY DEF ConnInv, PromptInv, Prompted, NoPromptDropped, Elems
<1> QED  BY <1>1, <1>2, <1>3, <1>4

LEMMA ConnFlap == ASSUME NoneAssumption, ConnInv, Next  PROVE NoFlap
<1>1. CASE Emit
  <2>1. CardInv /\ LoopTypes'
    BY LoopTypesStep DEF ConnInv, CardInv
  <2> QED  BY <1>1, <2>1, EmitKeeps
<1>2. CASE ~Emit
  <2>1. tracked' = tracked
    BY <1>2 DEF Next, Loop, admit_permission, send_prompt_inner, cancel, control, sweep_idle,
                disconnect, respond_permission, LoopPrompt, LoopRespond, resolve_permission,
                LoopControl, LoopCancelTurn, LoopCancelIdle, drain_permissions, Drained,
                drain_permissions_then_emit, TurnOver, LoopDisconnect, Leave, AgentReplies,
                TurnEnds, AgentDies, cards
  <2> QED  BY <2>1 DEF NoFlap
<1> QED  BY <1>1, <1>2

-------------------------------------------------------------------------------
(* Theorems.                                                                   *)

\* The queue, the card the clients see, the loop and its commands agree in every state.
THEOREM ConnectionHolds == ASSUME NoneAssumption PROVE Spec => []ConnInv
<1>1. Init => ConnInv  BY ConnStarts
<1>2. ConnInv /\ [Next]_vars => ConnInv'  BY ConnStep, ConnStutter
<1> QED  BY <1>1, <1>2, PTL DEF Spec

\* Type correctness of the connection's queue, loop and clients.
THEOREM CardsTypeCorrect == ASSUME NoneAssumption PROVE Spec => []TypeOK
BY ConnectionHolds, ConnTypes, PTL

\* The invariant the doc comment of PermissionQueue states: what is shown or waits
\* is exactly what is blocked, once, and nothing waits behind an empty screen.
THEOREM QueueIsSound == ASSUME NoneAssumption PROVE Spec => []QueueSound
BY ConnectionHolds, ConnPromises, PTL

\* The card the clients see is the one the queue shows, whenever no event is owed:
\* the blind clearing at the end of a turn, the order of the events of an answer and
\* the compensation of a drain never leave a blocked request behind a missing card.
THEOREM CardFollowsQueue == ASSUME NoneAssumption PROVE Spec => []CardIsShowing
BY ConnectionHolds, ConnPromises, PTL

\* The depth beside the card counts the requests that wait behind it.
THEOREM DepthFollowsQueue == ASSUME NoneAssumption PROVE Spec => []DepthIsTrue
BY ConnectionHolds, ConnPromises, PTL

\* admit and resolve show the requests in the order they came: none is shown while
\* an older one is still blocked.
THEOREM ShownInOrder == ASSUME NoneAssumption PROVE Spec => []OldestFirst
BY ConnectionHolds, ConnOrder, PTL

\* A work task's count of outstanding requests falls to none only when nothing is
\* blocked any more: the next card is announced before the answered one is cleared.
THEOREM TaskNeverFlaps == ASSUME NoneAssumption PROVE Spec => [][NoFlap]_vars
<1>1. ConnInv /\ Next => NoFlap  BY ConnFlap
<1> QED  BY <1>1, ConnectionHolds, PTL DEF Spec

\* The gate of send_prompt_inner lets no prompt reach a loop that is in a turn, where
\* the in-turn handler would drop it.
THEOREM PromptsAreTaken == ASSUME NoneAssumption PROVE Spec => []NoPromptDropped
BY ConnectionHolds, ConnPromises, PTL
===============================================================================
