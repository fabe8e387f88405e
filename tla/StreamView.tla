------------------------------ MODULE StreamView ------------------------------
(* What the event stream of a connection promises a client: at any time its    *)
(* picture of the Session is the state after some prefix of the events, and     *)
(* while it stays open that prefix only grows.                                  *)
EXTENDS Integers

CONSTANT Clients

VARIABLES
  seq,   \* events emitted so far
  shown  \* shown[c]: the prefix client c shows; -1 when it shows nothing

viewVars == <<seq, shown>>

ViewInit == seq = 0 /\ shown = [c \in Clients |-> -1]

EmitOne == seq' = seq + 1 /\ UNCHANGED shown

Open(c)  == shown[c] = -1 /\ shown' = [shown EXCEPT ![c] = 0] /\ UNCHANGED seq
Close(c) == shown[c] # -1 /\ shown' = [shown EXCEPT ![c] = -1] /\ UNCHANGED seq
Advance(c) ==
  /\ shown[c] # -1
  /\ \E n \in (shown[c] + 1)..seq : shown' = [shown EXCEPT ![c] = n]
  /\ UNCHANGED seq

ViewNext == EmitOne \/ \E c \in Clients : Open(c) \/ Close(c) \/ Advance(c)
ViewSpec == ViewInit /\ [][ViewNext]_viewVars
===============================================================================
