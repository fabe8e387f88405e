---------------------------- MODULE MCSessionsProofs ----------------------------
(* What the runs of MCSessions check of the permission cards, the questions and  *)
(* plan approvals, the status and the Session of a conversation and the rows of  *)
(* tasks follows from the invariants of those modules, for every choice of the   *)
(* parts.                                                                        *)
EXTENDS MCSessions, TLAPS

CardsInv ==
  /\ part = "cards"    => Cards!ConnInv
  /\ part = "answered" => Answered!ConnInv
AsksInv ==
  /\ part = "returned" => Returned!AsksInv
  /\ part = "asksEnd"  => AsksEnd!AsksInv
RowsInv ==
  /\ part = "identity" => Identity!IdentityInv /\ Identity!Loyal /\ Identity!Clean
  /\ part = "saved"    => Saved!IdentityInv /\ Saved!Current(c1) /\ Saved!Told(c1)
BoardInv == part = "board" => Board!StoreInv

StatusInv ==
  /\ part = "shown"   => Shown!OutcomeInv
  /\ part = "rowKept" => RowKept!WireInv /\ RowKept!Owed
  /\ part = "dropped" => Dropped!TypeInv

\* No behaviour moves from one instance to another.
LEMMA PartStays == ASSUME [Next]_vars  PROVE part' = part
BY DEF Next, vars, PermissionQueueRest, PendingRequestRest, ConversationStatusRest,
       SessionIdentityRest, MailRest, TaskStoreRest

LEMMA CardsKept == ASSUME CardsInv, [Next]_vars  PROVE CardsInv'
<1>1. part' = part  BY PartStays
<1>2. ASSUME part = "cards"  PROVE Cards!ConnInv'
  <2>1. Cards!Next \/ UNCHANGED Cards!vars  BY <1>2 DEF Next, vars, Cards!vars
  <2> QED  BY <1>2, <2>1, CardsAssumption, Cards!ConnStep, Cards!ConnStutter DEF CardsInv
<1>3. ASSUME part = "answered"  PROVE Answered!ConnInv'
  <2>1. Answered!Next \/ UNCHANGED Answered!vars  BY <1>3 DEF Next, vars, Answered!vars
  <2> QED  BY <1>3, <2>1, AnsweredAssumption, Answered!ConnStep, Answered!ConnStutter DEF CardsInv
<1> QED  BY <1>1, <1>2, <1>3 DEF CardsInv
LEMMA AsksKept == ASSUME AsksInv, [Next]_vars  PROVE AsksInv'
<1>1. part' = part  BY PartStays
<1>2. ASSUME part = "returned"  PROVE Returned!AsksInv'
  <2>1. Returned!Next \/ UNCHANGED Returned!vars  BY <1>2 DEF Next, vars, Returned!vars
  <2> QED  BY <1>2, <2>1, Returned!AsksStep, Returned!AsksStutter DEF AsksInv
<1>3. ASSUME part = "asksEnd"  PROVE AsksEnd!AsksInv'
  <2>1. AsksEnd!Next \/ UNCHANGED AsksEnd!vars  BY <1>3 DEF Next, vars, AsksEnd!vars
  <2> QED  BY <1>3, <2>1, AsksEnd!AsksStep, AsksEnd!AsksStutter DEF AsksInv
<1> QED  BY <1>1, <1>2, <1>3 DEF AsksInv

LEMMA StatusKept == ASSUME StatusInv, [Next]_vars  PROVE StatusInv'
<1>1. part' = part  BY PartStays
<1>2. ASSUME part = "shown"  PROVE Shown!OutcomeInv'
  <2>1. Shown!Next \/ UNCHANGED Shown!vars  BY <1>2 DEF Next, vars, Shown!vars
  <2> QED  BY <1>2, <2>1, ShownAssumption, Shown!OutcomeStep DEF StatusInv
<1>3. ASSUME part = "rowKept"  PROVE RowKept!WireInv' /\ RowKept!Owed'
  <2>1. RowKept!Next \/ UNCHANGED RowKept!vars  BY <1>3 DEF Next, vars, RowKept!vars
  <2> QED  BY <1>3, <2>1, RowKeptAssumption, RowKept!OwedAlways DEF StatusInv
<1>4. ASSUME part = "dropped"  PROVE Dropped!TypeInv'
  <2>1. Dropped!Next \/ UNCHANGED Dropped!vars  BY <1>4 DEF Next, vars, Dropped!vars
  <2> QED
    BY <1>4, <2>1, DroppedAssumption, Dropped!NextSteps, Dropped!TypeStep, Dropped!TypeStutter
       DEF StatusInv
<1> QED  BY <1>1, <1>2, <1>3, <1>4 DEF StatusInv

LEMMA BoardKept == ASSUME BoardInv, [Next]_vars  PROVE BoardInv'
<1>1. part' = part  BY PartStays
<1>2. ASSUME part = "board"  PROVE Board!StoreInv'
  <2>1. Board!Next \/ UNCHANGED Board!vars  BY <1>2 DEF Next, vars, Board!vars
  <2> QED  BY <1>2, <2>1, BoardAssumption, Board!StoreStep DEF BoardInv
<1> QED  BY <1>1, <1>2 DEF BoardInv

LEMMA RowsNamed == Identity!Names /\ Saved!Names /\ Saved!Single(c1)
BY IdentityAssumption, SavedAssumption DEF Identity!Names, Saved!Names, Saved!Single

LEMMA RowsKept == ASSUME RowsInv, [Next]_vars  PROVE RowsInv'
<1>1. part' = part  BY PartStays
<1>2. ASSUME part = "identity"
      PROVE  Identity!IdentityInv' /\ Identity!Loyal' /\ Identity!Clean'
  <2>1. Identity!Next \/ UNCHANGED Identity!vars  BY <1>2 DEF Next, vars, Identity!vars
  <2>2. Identity!IdentityInv /\ Identity!Loyal /\ Identity!Clean  BY <1>2 DEF RowsInv
  <2> QED
    BY <2>1, <2>2, RowsNamed, Identity!IdentityStep, Identity!LoyalAlways, Identity!CleanAlways
<1>3. ASSUME part = "saved"
      PROVE  Saved!IdentityInv' /\ Saved!Current(c1)' /\ Saved!Told(c1)'
  <2>1. Saved!Next \/ UNCHANGED Saved!vars  BY <1>3 DEF Next, vars, Saved!vars
  <2>2. Saved!IdentityInv /\ Saved!Current(c1) /\ Saved!Told(c1)  BY <1>3 DEF RowsInv
  <2> QED  BY <2>1, <2>2, RowsNamed, Saved!IdentityStep, Saved!CurrentAlways
<1> QED  BY <1>1, <1>2, <1>3 DEF RowsInv

LEMMA SessionsStart ==
  ASSUME Init  PROVE CardsInv /\ AsksInv /\ StatusInv /\ RowsInv /\ BoardInv
<1>1. CardsInv  BY Cards!ConnStarts, Answered!ConnStarts DEF Init, CardsInv
<1>2. AsksInv
  BY Returned!AsksStart, AsksEnd!AsksStart, ReturnedAssumption, AsksEndAssumption
     DEF Init, AsksInv
<1>3. ASSUME part = "identity"
      PROVE  Identity!IdentityInv /\ Identity!Loyal /\ Identity!Clean
  <2>1. Identity!Init  BY <1>3 DEF Init
  <2> QED
    BY <2>1, RowsNamed, Identity!IdentityStart, Identity!LoyalAlways, Identity!CleanAlways
<1>4. ASSUME part = "saved"
      PROVE  Saved!IdentityInv /\ Saved!Current(c1) /\ Saved!Told(c1)
  <2>1. Saved!Init  BY <1>4 DEF Init
  <2> QED  BY <2>1, RowsNamed, Saved!IdentityStart, Saved!CurrentAlways
<1>5. StatusInv
  BY ShownAssumption, RowKeptAssumption, DroppedAssumption,
     Shown!OutcomeStarts, RowKept!OwedStarts, Dropped!TypeInit DEF Init, StatusInv
<1>6. BoardInv  BY BoardAssumption, Board!StoreInit DEF Init, BoardInv
<1> QED  BY <1>1, <1>2, <1>3, <1>4, <1>5, <1>6 DEF RowsInv
-------------------------------------------------------------------------------
(* Theorems.                                                                    *)

\* The card every client sees is the one whose request is next, with the true count of
\* those behind it, and no prompt reaches a loop in a turn: PermissionQueue in manager.rs
\* and connection.rs, whatever the order of admissions, answers, drains and a death.
THEOREM CardsAreSound == Spec => []CardsSound
<1>1. Init => CardsInv  BY SessionsStart
<1>2. CardsInv /\ [Next]_vars => CardsInv'  BY CardsKept
<1>3. ASSUME CardsInv  PROVE CardsSound
  <2>1. CASE part = "cards"
    BY <1>3, <2>1, CardsAssumption, Cards!ConnTypes, Cards!ConnOrder, Cards!ConnPromises
       DEF CardsInv, CardsSound
  <2>2. CASE part # "cards"
    BY <1>3, <2>2, Answered!ConnPromises DEF CardsInv, CardsSound
  <2> QED  BY <2>1, <2>2
<1> QED  BY <1>1, <1>2, <1>3, PTL DEF Spec

\* A card of a question or a plan approval that nobody waits behind is about to go,
\* whichever tasks of the registries run at once.
THEOREM AsksAreSound == Spec => []AsksSound
<1>1. Init => AsksInv  BY SessionsStart
<1>2. AsksInv /\ [Next]_vars => AsksInv'  BY AsksKept
<1>3. AsksInv => AsksSound  BY DEF AsksInv, AsksSound, Returned!AsksInv, AsksEnd!AsksInv
<1> QED  BY <1>1, <1>2, <1>3, PTL DEF Spec

\* A row of a task says nothing of an earlier life of it: no plan outlives todo, no parked
\* merge outlives review, and a verdict is the current generation's (work_task_service.rs).
THEOREM RowsAreHonest == Spec => []RowsHonest
<1>1. Init => BoardInv  BY SessionsStart
<1>2. BoardInv /\ [Next]_vars => BoardInv'  BY BoardKept
<1>3. BoardInv => RowsHonest  BY Board!StoreSound DEF BoardInv, RowsHonest
<1> QED  BY <1>1, <1>2, <1>3, PTL DEF Spec

\* No step lets a work task leave awaiting_input between two cards, clears the card of
\* another ask than the one that is resolved, or begins a merge unattended after one that
\* failed and before its user has acted.
THEOREM StepsAreSound == Spec => SessionsStep
<1>1. Init => CardsInv /\ AsksInv /\ BoardInv  BY SessionsStart
<1>2. CardsInv /\ AsksInv /\ BoardInv /\ [Next]_vars => CardsInv' /\ AsksInv' /\ BoardInv'
  BY CardsKept, AsksKept, BoardKept
<1>3. ASSUME CardsInv, AsksInv, BoardInv, Next
      PROVE  /\ part = "cards" => Cards!NoFlap
             /\ part = "returned" => Returned!CardKept
             /\ part = "asksEnd"  => AsksEnd!CardKept
             /\ part = "board"    => Board!NoUnattendedRetry
  <2>1. ASSUME part = "cards"  PROVE Cards!NoFlap
    BY <1>3, <2>1, CardsAssumption, Cards!ConnFlap DEF Next, CardsInv
  <2>2. ASSUME part = "returned"  PROVE Returned!CardKept
    BY <1>3, <2>2, Returned!CardKeptStep DEF Next, AsksInv
  <2>3. ASSUME part = "asksEnd"  PROVE AsksEnd!CardKept
    BY <1>3, <2>3, AsksEnd!CardKeptStep DEF Next, AsksInv
  <2>4. ASSUME part = "board"  PROVE Board!NoUnattendedRetry
    BY <1>3, <2>4, Board!StoreSound DEF BoardInv
  <2> QED  BY <2>1, <2>2, <2>3, <2>4
<1> QED  BY <1>1, <1>2, <1>3, PTL DEF Spec, SessionsStep

\* A turn that runs is shown; and unless a write that nobody repeats has failed or the bus
\* has dropped an event, a row in progress has a turn or somebody who is about to write it
\* and the row tells, once nothing is on its way, how the last prompt ended
\* (send_prompt_linked, handle_event, handle_terminal_event).
THEOREM StatusIsSound == Spec => []StatusSound
<1>1. Init => StatusInv  BY SessionsStart
<1>2. StatusInv /\ [Next]_vars => StatusInv'  BY StatusKept
<1>3. ASSUME StatusInv  PROVE StatusSound
  <2>1. ASSUME part = "shown"  PROVE Shown!TurnShown /\ Shown!OutcomeShown
    <3>1. Shown!OutcomeInv  BY <1>3, <2>1 DEF StatusInv
    <3>2. Shown!ShowInv  BY <3>1 DEF Shown!OutcomeInv
    <3> QED
      BY <3>1, <3>2, ShownAssumption, Shown!TurnShownOfShowInv, Shown!OutcomeOfInv
  <2>2. ASSUME part = "rowKept"  PROVE RowKept!TypeOK /\ RowKept!NeverStranded
    <3>1. RowKept!WireInv /\ RowKept!Owed  BY <1>3, <2>2 DEF StatusInv
    <3>2. RowKept!TypeInv  BY <3>1 DEF RowKept!WireInv, RowKept!LinkInv
    <3> QED
      BY <3>1, <3>2, RowKeptAssumption, RowKept!TypeOKOfInv, RowKept!NeverStrandedOfOwed
  <2>3. ASSUME part = "dropped"  PROVE Dropped!TypeOK
    BY <1>3, <2>3, Dropped!TypeOKOfInv DEF StatusInv
  <2> QED  BY <2>1, <2>2, <2>3 DEF StatusSound
<1> QED  BY <1>1, <1>2, <1>3, PTL DEF Spec

\* One process for a Session, one runtime for a row, forks that leave the original its
\* Session, and rows that name the Session of their connection, once nothing is on its way
\* and unless an id was lost (spawn_agent, fork_session, the lifecycle worker).
THEOREM RowsNameTheirSessions == Spec => []IdentitySound
<1>1. Init => RowsInv  BY SessionsStart
<1>2. RowsInv /\ [Next]_vars => RowsInv'  BY RowsKept
<1>3. ASSUME RowsInv  PROVE IdentitySound
  <2>1. ASSUME part = "identity"
        PROVE  /\ Identity!TypeOK /\ Identity!OneProcess /\ Identity!OneRuntime
               /\ Identity!ForkKeepsOriginal /\ Identity!ForkKeepsSession
    <3>1. Identity!IdentityInv /\ Identity!Loyal /\ Identity!Clean  BY <1>3, <2>1 DEF RowsInv
    <3> QED  BY <3>1, RowsNamed, Identity!InvPromises, Identity!OneRuntimeOfLoyal
                DEF Identity!IdentityInv, Identity!Clean, Identity!ForkKeepsSession
  <2>2. ASSUME part = "saved"  PROVE Saved!Persisted
    <3>1. \A c \in {c1} : Saved!Told(c)  BY <1>3, <2>2 DEF RowsInv
    <3> QED  BY <3>1, RowsNamed, Saved!PersistedOfTold
  <2> QED  BY <2>1, <2>2 DEF IdentitySound
<1> QED  BY <1>1, <1>2, <1>3, PTL DEF Spec
===============================================================================
