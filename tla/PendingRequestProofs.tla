------------------------- MODULE PendingRequestProofs -------------------------
(* Theorems about PendingRequest, for every value of its constants: in whatever *)
(* order an answer, a sweep, a late registration and the events of the card      *)
(* come, no card is left up without anybody behind it, and none is wiped that    *)
(* somebody waits behind.                                                        *)
EXTENDS PendingRequest, TLAPS

\* An ask enters its registry once, when it is registered; whoever takes it out also
\* takes on its resolved event, so that no event is due for an ask still in there.
TakenOnce ==
  /\ clearing \cap reg = {}
  /\ \A a \in Asks : ask[a] \in {"new", "sent"} => a \notin reg /\ a \notin clearing

\* A slot of the session state shows cards of its own kind.
CardsOfKind == \A k \in Kinds : card[k] # None => Kind(card[k]) = k

AsksInv == TypeOK /\ TakenOnce /\ CardsOfKind /\ NoDeadCard

-------------------------------------------------------------------------------
(* Types.                                                                      *)

LEMMA KindTyped == \A a : Kind(a) \in Kinds
BY DEF Kind, Kinds

LEMMA ServeTyped ==
  ASSUME TypeOK, NEW a \in Asks, Serve(a)  PROVE TypeOK'
<1> USE DEF TypeOK, At, Finished
<1>1. CASE RegisterInsert(a)
  <2>1. CASE ~inMap \/ Busy(a)
    BY <1>1, <2>1 DEF RegisterInsert, conn
  <2>2. CASE inMap /\ ~Busy(a)
    BY <1>1, <2>2 DEF RegisterInsert, Busy, conn
  <2> QED  BY <2>1, <2>2
<1>2. CASE RegisterAnnounce(a)
  BY <1>2, KindTyped DEF RegisterAnnounce, ShowCard, conn
<1>3. CASE RegisterConfirm(a)
  BY <1>3 DEF RegisterConfirm, Compensate, conn
<1>4. CASE Recheck(a)
  <2>1. CASE TokenLives
    BY <1>4, <2>1 DEF Recheck, conn
  <2>2. CASE ~TokenLives
    <3>1. ask' = [ask EXCEPT ![a] = "declined"] /\ cancel_question(a)
      BY <1>4, <2>2 DEF Recheck
    <3>2. ask' \in [Asks -> Finished \cup {"new", "sent", "announce", "confirm", "recheck", "wait"}]
      BY <3>1
    <3>3. /\ reg' \subseteq reg /\ clearing' \subseteq Asks
          /\ shot' \in [Asks -> {"open", "sent", "dropped"}]
      BY <3>1 DEF cancel_question
    <3> QED  BY <1>4, <3>2, <3>3 DEF Recheck, conn
  <2> QED  BY <2>1, <2>2
<1>5. CASE AnswerArrives(a)
  BY <1>5 DEF AnswerArrives, conn
<1>6. CASE PeerCloses(a)
  BY <1>6 DEF PeerCloses, cancel_question, conn
<1>7. CASE Reaper(a)
  BY <1>7 DEF Reaper, Reap, cancel_question, conn
<1> QED  BY <1>1, <1>2, <1>3, <1>4, <1>5, <1>6, <1>7 DEF Serve

LEMMA AskTyped ==
  ASSUME TypeOK, NEW a \in Asks, EmitResolved(a) \/ AgentAsks(a) \/ AgentAbandons(a) \/ answer(a)
  PROVE  TypeOK'
<1> USE DEF TypeOK, At, Finished
<1>1. CASE EmitResolved(a)
  <2>1. Cleared(a) \in [Kinds -> Asks \cup {None}]  BY KindTyped DEF Cleared
  <2> QED  BY <1>1, <2>1 DEF EmitResolved, conn
<1>2. CASE AgentAsks(a)  BY <1>2 DEF AgentAsks, conn
<1>3. CASE AgentAbandons(a)  BY <1>3 DEF AgentAbandons, conn
<1>4. CASE answer(a)  BY <1>4 DEF answer, conn
<1> QED  BY <1>1, <1>2, <1>3, <1>4

LEMMA SweepTyped ==
  ASSUME TypeOK, NEW k \in Kinds, cancel_by_parent(k)
  PROVE  /\ reg' \subseteq reg /\ clearing' \subseteq Asks
         /\ shot' \in [Asks -> {"open", "sent", "dropped"}]
BY DEF TypeOK, cancel_by_parent, Of

LEMMA TurnTyped ==
  ASSUME TypeOK, Prompt \/ TurnEnds \/ CancelTurn \/ CancelSweeps
  PROVE  TypeOK'
<1>0. \A n \in Nat : n + 1 \in Nat  OBVIOUS
<1> USE DEF TypeOK, TurnClears
<1>1. CASE Prompt  BY <1>1 DEF Prompt
<1>2. CASE TurnEnds  BY <1>2 DEF TurnEnds
<1>3. CASE CancelTurn
  <2>1. cancels \in Nat /\ turn \in Nat  OBVIOUS
  <2>2. cancels' = cancels + 1 /\ turn' = turn  BY <1>3 DEF CancelTurn
  <2>3. cancels' \in Nat /\ turn' \in Nat  BY <1>0, <2>1, <2>2
  <2> QED  BY <1>3, <2>3 DEF CancelTurn
<1>4. CASE CancelSweeps  BY <1>4, SweepTyped DEF CancelSweeps, Kinds
<1> QED  BY <1>1, <1>2, <1>3, <1>4

LEMMA TeardownTyped ==
  ASSUME TypeOK, disconnect \/ LoopEnds \/ Cleanup
  PROVE  TypeOK'
<1> USE DEF TypeOK, Finished, asks
<1>1. CASE disconnect  BY <1>1 DEF disconnect
<1>2. CASE LoopEnds  BY <1>2 DEF LoopEnds
<1>3. CASE Cleanup  BY <1>3, SweepTyped DEF Cleanup, Kinds
<1> QED  BY <1>1, <1>2, <1>3

-------------------------------------------------------------------------------
(* Entries are taken once, and cards keep to their slots.                      *)

LEMMA TakenServe ==
  ASSUME TypeOK, TakenOnce, NEW a \in Asks, Serve(a)  PROVE TakenOnce'
<1> USE DEF TypeOK, TakenOnce, At
<1>1. CASE RegisterInsert(a)  BY <1>1 DEF RegisterInsert
<1>2. CASE RegisterAnnounce(a)  BY <1>2 DEF RegisterAnnounce
<1>3. CASE RegisterConfirm(a)
  <2>1. CASE a \in reg  BY <1>3, <2>1 DEF RegisterConfirm
  <2>2. CASE a \notin reg  BY <1>3, <2>2 DEF RegisterConfirm, Compensate
  <2> QED  BY <2>1, <2>2
<1>4. CASE Recheck(a)
  <2>1. CASE TokenLives  BY <1>4, <2>1 DEF Recheck
  <2>2. CASE ~TokenLives
    <3>1. ask' = [ask EXCEPT ![a] = "declined"] /\ cancel_question(a)
      BY <1>4, <2>2 DEF Recheck
    <3> QED  BY <3>1 DEF cancel_question
  <2> QED  BY <2>1, <2>2
<1>5. CASE AnswerArrives(a)  BY <1>5 DEF AnswerArrives
<1>6. CASE PeerCloses(a)  BY <1>6 DEF PeerCloses, cancel_question
<1>7. CASE Reaper(a)  BY <1>7 DEF Reaper, Reap, cancel_question
<1> QED  BY <1>1, <1>2, <1>3, <1>4, <1>5, <1>6, <1>7 DEF Serve

LEMMA TakenSweep ==
  ASSUME TypeOK, TakenOnce, NEW k \in Kinds, cancel_by_parent(k),
         \A a \in Asks : ask'[a] = ask[a]
  PROVE  TakenOnce'
BY DEF TypeOK, TakenOnce, cancel_by_parent, Of

LEMMA TakenStep ==
  ASSUME TypeOK, TakenOnce, Next  PROVE TakenOnce'
<1> USE DEF TypeOK, TakenOnce, At
<1>1. ASSUME NEW a \in Asks, EmitResolved(a) \/ AgentAsks(a) \/ AgentAbandons(a) \/ answer(a)
      PROVE  TakenOnce'
  BY <1>1 DEF EmitResolved, AgentAsks, AgentAbandons, answer
<1>2. CASE Prompt \/ TurnEnds \/ CancelTurn  BY <1>2 DEF Prompt, TurnEnds, CancelTurn
<1>3. CASE CancelSweeps  BY <1>3, TakenSweep DEF CancelSweeps, Kinds
<1>4. CASE disconnect  BY <1>4 DEF disconnect, asks
<1>5. CASE LoopEnds  BY <1>5 DEF LoopEnds
<1>6. CASE Cleanup
  <2>1. CASE UNCHANGED asks  BY <2>1 DEF asks
  <2>2. CASE ~UNCHANGED asks  BY <1>6, <2>2, TakenSweep DEF Cleanup, Kinds
  <2> QED  BY <2>1, <2>2
<1> HIDE DEF TypeOK, TakenOnce, At
<1> QED  BY <1>1, <1>2, <1>3, <1>4, <1>5, <1>6, TakenServe DEF Next

\* What may happen to a card: it is cleared with its turn, replaced by an announcement
\* or cleared by the resolved event of its own ask.
CardMoves ==
  \/ card' = card
  \/ loop' # loop /\ card' = [k \in Kinds |-> None]
  \/ \E a \in Asks : ask'[a] = "confirm" /\ Announced /\ loop' = loop /\ ShowCard(a)
  \/ \E a \in clearing : loop' = loop /\ card' = Cleared(a)

LEMMA CardStep ==
  ASSUME TypeOK, Next  PROVE CardMoves
<1> USE DEF CardMoves, conn, asks
<1>1. ASSUME NEW a \in Asks, EmitResolved(a)  PROVE CardMoves
  BY <1>1 DEF EmitResolved
<1>2. ASSUME NEW a \in Asks, RegisterAnnounce(a)  PROVE CardMoves
  <2>1. ask'[a] = "confirm" /\ ask[a] = "announce"
    BY <1>2 DEF RegisterAnnounce, At, TypeOK
  <2> QED  BY <1>2, <2>1 DEF RegisterAnnounce, Announced
<1>3. ASSUME NEW a \in Asks,
             \/ RegisterInsert(a) \/ RegisterConfirm(a) \/ Recheck(a) \/ AnswerArrives(a)
             \/ PeerCloses(a) \/ Reaper(a) \/ AgentAsks(a) \/ AgentAbandons(a) \/ answer(a)
      PROVE  card' = card
  BY <1>3 DEF RegisterInsert, RegisterConfirm, Recheck, AnswerArrives, PeerCloses, Reaper,
              AgentAsks, AgentAbandons, answer
<1>4. CASE Prompt \/ TurnEnds \/ CancelTurn
  <2>1. loop' # loop /\ card' = [k \in Kinds |-> None]
    BY <1>4 DEF Prompt, TurnEnds, CancelTurn, TurnClears
  <2> QED  BY <2>1
<1>5. CASE CancelSweeps \/ disconnect \/ LoopEnds \/ Cleanup
  <2>1. card' = card  BY <1>5 DEF CancelSweeps, disconnect, LoopEnds, Cleanup
  <2> QED  BY <2>1
<1> HIDE DEF CardMoves, conn, asks
<1>6. ASSUME card' = card  PROVE CardMoves  BY <1>6 DEF CardMoves
<1> QED  BY <1>1, <1>2, <1>3, <1>4, <1>5, <1>6 DEF Next, Serve

LEMMA KindStep ==
  ASSUME TypeOK, CardsOfKind, Next  PROVE CardsOfKind'
<1>1. card \in [Kinds -> Asks \cup {None}] /\ (\A a : Kind(a) \in Kinds)
  BY KindTyped DEF TypeOK
<1>2. CardMoves  BY CardStep
<1>3. CASE card' = card  BY <1>3 DEF CardsOfKind
<1>4. CASE card' = [k \in Kinds |-> None]  BY <1>4 DEF CardsOfKind
<1>5. ASSUME NEW a \in Asks, ShowCard(a)  PROVE CardsOfKind'
  BY <1>1, <1>5 DEF CardsOfKind, ShowCard
<1>6. ASSUME NEW a, card' = Cleared(a)  PROVE CardsOfKind'
  BY <1>1, <1>6 DEF CardsOfKind, Cleared
<1> QED  BY <1>2, <1>3, <1>4, <1>5, <1>6 DEF CardMoves
-------------------------------------------------------------------------------
(* No dead card.                                                               *)

Living == inMap /\ ~Leaving

\* Who takes an entry out takes on its resolved event, or has left; a resolved event is
\* spent on the card; and a registration that comes back finds its entry, or takes on the event.
EntryKept ==
  \A b \in Asks : /\ b \in reg => b \in reg' \cup clearing' \cup left'
                  /\ b \in left => b \in left'
                  /\ b \in clearing => b \in clearing' \/ card' = Cleared(b)
                  /\ ask[b] = "confirm" => ask'[b] = "confirm" \/ b \in reg' \cup clearing'

LEMMA EntryServe ==
  ASSUME TypeOK, NEW a \in Asks, Serve(a)  PROVE EntryKept
<1> USE DEF TypeOK, EntryKept, At
<1>1. CASE RegisterInsert(a)  BY <1>1 DEF RegisterInsert
<1>2. CASE RegisterAnnounce(a)  BY <1>2 DEF RegisterAnnounce
<1>3. CASE RegisterConfirm(a)
  <2>1. CASE a \in reg  BY <1>3, <2>1 DEF RegisterConfirm
  <2>2. CASE a \notin reg  BY <1>3, <2>2 DEF RegisterConfirm, Compensate
  <2> QED  BY <2>1, <2>2
<1>4. CASE Recheck(a)
  <2>1. CASE TokenLives  BY <1>4, <2>1 DEF Recheck
  <2>2. CASE ~TokenLives
    <3>1. /\ ask[a] = "recheck" /\ ask' = [ask EXCEPT ![a] = "declined"] /\ left' = left
          /\ cancel_question(a)
      BY <1>4, <2>2 DEF Recheck
    <3> QED  BY <3>1 DEF cancel_question
  <2> QED  BY <2>1, <2>2
<1>5. CASE AnswerArrives(a)  BY <1>5 DEF AnswerArrives
<1>6. CASE PeerCloses(a)  BY <1>6 DEF PeerCloses, cancel_question
<1>7. CASE Reaper(a)  BY <1>7 DEF Reaper, Reap, cancel_question
<1> QED  BY <1>1, <1>2, <1>3, <1>4, <1>5, <1>6, <1>7 DEF Serve

LEMMA EntryStep ==
  ASSUME TypeOK, Next, Living, Living'  PROVE EntryKept
<1> USE DEF TypeOK, EntryKept, At
<1>1. ASSUME NEW a \in Asks, EmitResolved(a) \/ AgentAsks(a) \/ AgentAbandons(a) \/ answer(a)
      PROVE  EntryKept
  BY <1>1 DEF EmitResolved, AgentAsks, AgentAbandons, answer, Living
<1>2. CASE Prompt \/ TurnEnds \/ CancelTurn  BY <1>2 DEF Prompt, TurnEnds, CancelTurn
<1>3. CASE CancelSweeps
  <2>1. ASSUME NEW k, cancel_by_parent(k), ask' = ask, left' = left  PROVE EntryKept
    BY <2>1 DEF cancel_by_parent, Of
  <2> QED  BY <1>3, <2>1 DEF CancelSweeps
<1>4. CASE disconnect \/ LoopEnds \/ Cleanup
  BY <1>4 DEF disconnect, LoopEnds, Cleanup, Living, Leaving
<1> HIDE DEF TypeOK, EntryKept, At
<1> QED  BY <1>1, <1>2, <1>3, <1>4, EntryServe DEF Next

\* Nothing comes back from the teardown.
LEMMA LivingBefore == ASSUME TypeOK, Next, Living'  PROVE Living
<1> USE DEF Living, Leaving
<1>1. ASSUME NEW a \in Asks, Serve(a)  PROVE Living
  BY <1>1 DEF Serve, RegisterInsert, RegisterAnnounce, RegisterConfirm, Recheck, AnswerArrives,
              PeerCloses, Reaper, conn
<1>2. ASSUME NEW a \in Asks, EmitResolved(a) \/ AgentAsks(a) \/ AgentAbandons(a) \/ answer(a)
      PROVE  Living
  BY <1>2 DEF EmitResolved, AgentAsks, AgentAbandons, answer, conn
<1>3. CASE Prompt \/ TurnEnds \/ CancelTurn \/ CancelSweeps
  BY <1>3 DEF Prompt, TurnEnds, CancelTurn, CancelSweeps
<1>4. CASE disconnect \/ LoopEnds \/ Cleanup
  BY <1>4 DEF disconnect, LoopEnds, Cleanup
<1> HIDE DEF Living, Leaving
<1> QED  BY <1>1, <1>2, <1>3, <1>4 DEF Next

LEMMA DeadCardStep ==
  ASSUME AsksInv, Next  PROVE NoDeadCard'
<1> SUFFICES ASSUME Living', NEW k \in Kinds, card'[k] \notin reg' \cup {None}
             PROVE  card'[k] \in clearing' \cup left' \/ ask'[card'[k]] = "confirm"
  BY DEF NoDeadCard, Living, Leaving
<1>1. Living /\ EntryKept /\ CardMoves
  BY LivingBefore, EntryStep, CardStep DEF AsksInv
<1>2. card \in [Kinds -> Asks \cup {None}]  BY DEF AsksInv, TypeOK
<1>3. CASE card'[k] = card[k]
  <2> DEFINE b == card[k]
  <2>1. b \in Asks /\ b # None /\ b \notin reg'  BY <1>2, <1>3
  <2>2. b \in reg \cup clearing \cup left \/ ask[b] = "confirm"
    BY <1>1, <2>1 DEF AsksInv, NoDeadCard, Living
  <2>3. CASE card' = Cleared(b)
    <3>1. Kind(b) = k  BY <2>1 DEF AsksInv, CardsOfKind
    <3>2. card'[k] = None  BY <1>2, <2>3, <3>1 DEF Cleared
    <3> QED  BY <3>2
  <2> QED  BY <1>1, <1>3, <2>1, <2>2, <2>3 DEF EntryKept
<1>4. CASE card'[k] # card[k]
  <2>1. CASE card' = [j \in Kinds |-> None]  BY <2>1
  <2>2. ASSUME NEW a \in Asks, ask'[a] = "confirm", ShowCard(a)  PROVE ask'[card'[k]] = "confirm"
    BY <1>2, <1>4, <2>2 DEF ShowCard
  <2>3. ASSUME NEW a, card' = Cleared(a)  PROVE FALSE
    BY <1>2, <1>4, <2>3 DEF Cleared
  <2> QED  BY <1>1, <1>4, <2>1, <2>2, <2>3 DEF CardMoves
<1> QED  BY <1>3, <1>4
-------------------------------------------------------------------------------
(* Theorems.                                                                   *)

LEMMA AsksStart == ASSUME AsksAssumption, Init  PROVE AsksInv
<1>1. TypeOK  BY DEF Init, TypeOK, Finished
<1>2. TakenOnce /\ CardsOfKind /\ NoDeadCard
  BY DEF Init, TakenOnce, CardsOfKind, NoDeadCard
<1> QED  BY <1>1, <1>2 DEF AsksInv

LEMMA AsksStep == ASSUME AsksInv, Next  PROVE AsksInv'
<1>1. TypeOK'
  BY ServeTyped, AskTyped, TurnTyped, TeardownTyped DEF AsksInv, Next
<1> QED  BY <1>1, TakenStep, KindStep, DeadCardStep DEF AsksInv

LEMMA CardKeptStep == AsksInv /\ Next => CardKept
<1> SUFFICES ASSUME AsksInv, Next, NEW k \in Kinds, card[k] \in reg \cap reg', loop' = loop,
                    ~Announced
             PROVE  card'[k] = card[k]
  BY DEF CardKept
<1>1. CardMoves /\ card \in [Kinds -> Asks \cup {None}]
  BY CardStep DEF AsksInv, TypeOK
<1>2. ASSUME NEW a \in clearing, card' = Cleared(a)  PROVE card'[k] = card[k]
  <2>1. card[k] # a  BY DEF AsksInv, TakenOnce
  <2> QED  BY <1>1, <1>2, <2>1 DEF Cleared
<1> QED  BY <1>1, <1>2 DEF CardMoves

LEMMA AsksStutter == ASSUME AsksInv, UNCHANGED vars  PROVE AsksInv'
BY DEF vars, AsksInv, TypeOK, TakenOnce, CardsOfKind, NoDeadCard, Leaving

\* The invariant holds in every behaviour.
THEOREM AsksInvHolds == ASSUME AsksAssumption PROVE Spec => []AsksInv
<1>1. AsksInv /\ [Next]_vars => AsksInv'
  BY AsksStep, AsksStutter
<1> QED  BY <1>1, AsksStart, PTL DEF Spec

\* The registries hold one ask of a kind at most, whatever tasks register at once
\* (register_question, register_plan_approval).
THEOREM AsksTypeCorrect == ASSUME AsksAssumption PROVE Spec => []TypeOK
<1>1. AsksInv => TypeOK  BY DEF AsksInv
<1> QED  BY <1>1, AsksInvHolds, PTL

\* While the loop runs, a card nobody waits behind is about to be cleared: a sweep
\* between the insertion and the announcement of an ask is made good by its registration.
THEOREM NoCardIsDead == ASSUME AsksAssumption PROVE Spec => []NoDeadCard
<1>1. AsksInv => NoDeadCard  BY DEF AsksInv
<1> QED  BY <1>1, AsksInvHolds, PTL

\* The resolved event of an ask never takes down the card of another one that is
\* pending (apply_event compares the ids), nor that of an ask still in its registry.
THEOREM PendingCardKept == ASSUME AsksAssumption PROVE Spec => [][CardKept]_vars
BY AsksInvHolds, CardKeptStep, PTL DEF Spec
==============================================================================
