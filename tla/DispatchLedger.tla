---------------------------- MODULE DispatchLedger ----------------------------
(* What the prompt queue promises about each message id, without workers,     *)
(* leases, policies or positions: where the id stands, and whether somebody    *)
(* may put its prompt on a Harness channel.                                    *)
(*                                                                            *)
(*   place: out      never submitted                                          *)
(*          waiting  in the FIFO, free to be dispatched                        *)
(*          boundary marked for dispatch                                       *)
(*          held     parked until somebody decides                             *)
(*          gone     accepted, deleted or renamed; never to come back          *)
(*   offer: none, open (a worker is about to hand it over), used               *)
CONSTANT Ids
VARIABLES place, offer

ledger == <<place, offer>>

Init == /\ place = [i \in Ids |-> "out"]
        /\ offer = [i \in Ids |-> "none"]

To(i, p, o) == place'[i] = p /\ offer'[i] = o

\* A prompt enters the ledger once, and comes back to the FIFO only while no
\* worker may be handing it over and none has.
Submit(i)   == place[i] = "out" /\ \E p \in {"waiting", "held"} : To(i, p, "none")
Requeue(i)  == /\ place[i] \in {"boundary", "held"} /\ offer[i] = "none"
               /\ To(i, "waiting", "none")
\* Crossing the dispatch boundary opens the only offer of this passage.
Start(i)    == place[i] = "waiting" /\ To(i, "boundary", "open")
HandOver(i) == offer[i] = "open" /\ To(i, place[i], "used")
Withdraw(i) == offer[i] = "open" /\ To(i, place[i], "none")
\* Parking never touches the offer: a stale worker may still use it.
Park(i)     == place[i] \in {"waiting", "boundary"} /\ To(i, "held", offer[i])
\* Acceptance needs a used offer; a deletion or a renaming takes a row that is
\* not at the boundary; an identity may be skipped.
Settle(i)   == /\ place[i] = "boundary" /\ offer[i] = "used"
               /\ To(i, "gone", "used")
Drop(i)     == place[i] \in {"out", "waiting", "held"} /\ To(i, "gone", offer[i])
Keep(i)     == To(i, place[i], offer[i])

Move(i) == \/ Keep(i) \/ Submit(i) \/ Requeue(i) \/ Start(i) \/ HandOver(i)
           \/ Withdraw(i) \/ Park(i) \/ Settle(i) \/ Drop(i)

\* One transaction may move several ids (a renaming, a recovery).
Next == /\ place' \in [Ids -> {"out", "waiting", "boundary", "held", "gone"}]
        /\ offer' \in [Ids -> {"none", "open", "used"}]
        /\ \A i \in Ids : Move(i)

Spec == Init /\ [][Next]_ledger
===============================================================================
