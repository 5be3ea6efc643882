------------------------- MODULE AtomicTransmitter -------------------------
(***************************************************************************)
(* What IRRCChangeProtocol and IRRCSend promise the tasks that call them   *)
(* (main/irrc.c): a well formed command goes out whole, in its own format, *)
(* on its format's carrier and in one piece; a malformed one sends nothing.*)
(***************************************************************************)
EXTENDS IRFrame

CONSTANTS Task, Requests

VARIABLES pending,  \* the command each task is sending, None for no command
          air       \* the frame being sent, and its carriers

Init ==
  /\ pending = [t \in Task |-> None]
  /\ air = Silence

Submit(t, r) ==
  /\ pending[t] = None
  /\ pending' = [pending EXCEPT ![t] = r]
  /\ UNCHANGED air

Transmit(t) ==
  /\ pending[t] # None /\ WellFormed(pending[t])
  /\ air = Silence
  /\ air' = OnAir(Frame(pending[t]), {Carrier(pending[t].protocol)})
  /\ pending' = [pending EXCEPT ![t] = None]

Finish ==
  /\ air' = Silence
  /\ UNCHANGED pending

Refuse(t) ==
  /\ pending[t] # None /\ ~WellFormed(pending[t])
  /\ pending' = [pending EXCEPT ![t] = None]
  /\ UNCHANGED air

Next ==
  \/ Finish
  \/ \E t \in Task :
       (\E r \in Requests : Submit(t, r)) \/ Transmit(t) \/ Refuse(t)

Spec == Init /\ [][Next]_<<pending, air>>
=============================================================================
