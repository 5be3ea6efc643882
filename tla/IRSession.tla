----------------------------- MODULE IRSession -----------------------------
(***************************************************************************)
(* A communication task of the server and the clients it serves one after  *)
(* another.                                                                *)
(***************************************************************************)
EXTENDS CommunicationTask, IRSClient

CONSTANT Faults  \* of "idle", "stall", "killed", "vanish": what clients suffer,
                 \* and "error": calls of the server's fail

ASSUME FaultAssumption == Faults \subseteq {"idle", "stall", "killed", "vanish", "error"}

(* For the properties: this connection took over bytes of an earlier one,  *)
(* or within a request its client has stalled or died, or a call of the    *)
(* server's has failed, or the server does not know the request.           *)
VARIABLE disturbed

InRequest == cpc \in {"sending", "waiting"}

vars == <<connVars, taskVars, clientVars, disturbed>>

Init == ConnInit /\ TaskInit /\ ClientInit /\ disturbed = FALSE

(* irsOpen at the client meets accept, setSocket and start at the server.  *)
Fresh(n) == \A k \in DOMAIN (ibuf \o out) : (ibuf \o out)[k][2][1] # n

Connect ==
  /\ Establish(CHOOSE n \in Conn : Fresh(n))
  /\ IrsOpen /\ TaskStart
  /\ disturbed' = (ibuf \o out # <<>>)

Server == TaskStep /\ UNCHANGED <<clientVars, disturbed>>

(* "error": select, write or read fails, the client being there or not.    *)
ServerError ==
  /\ TaskFails
  /\ "error" \in Faults
  /\ disturbed' = (disturbed \/ InRequest)
  /\ UNCHANGED clientVars

Client ==
  /\ ClientStep
  /\ disturbed' = (disturbed \/ req' \notin TxFormat \cup {0})
  /\ UNCHANGED taskVars
Close  == IrsClose /\ UNCHANGED <<taskVars, disturbed>>

(* "idle": a pause before a request; "stall": a pause within one.          *)
Fault ==
  /\ \/ ClientPauses /\ (IF cpc = "ready" THEN "idle" ELSE "stall") \in Faults
     \/ ClientKilled /\ "killed" \in Faults
     \/ ClientVanishes /\ "vanish" \in Faults
  /\ disturbed' = (disturbed \/ cpc # "ready")
  /\ UNCHANGED taskVars

Next == Connect \/ Server \/ ServerError \/ Client \/ Close \/ Fault

(* The server's thread runs; the client runs once it has begun a request.  *)
(* Nobody has to connect, to send a first request or to close.             *)
Fairness ==
  /\ WF_vars(Server)
  /\ WF_vars(Client /\ cpc # "ready")

Spec == Init /\ [][Next]_vars /\ Fairness

-----------------------------------------------------------------------------
(* Properties.                                                             *)

(* The type of every variable.                                             *)
TypeOK == ConnTypeOK /\ TaskTypeOK /\ ClientTypeOK /\ disturbed \in BOOLEAN

(* A slot remembers nothing of an undisturbed connection, not even of one  *)
(* on which a call failed between two requests: neither input nor an       *)
(* unsent response is left for the next client, although run resets        *)
(* neither buffer.                                                         *)
CleanHandover == spc = "free" /\ ~disturbed => ibuf = <<>> /\ out = <<>>

(* What is dealt with for an undisturbed client is byte for byte the       *)
(* request it has in progress, and it has not been dealt with before.      *)
FramesIntact ==
  spc = "command" /\ ~disturbed =>
    /\ Announced(ibuf) = Mine(req)
    /\ ibuf = Request(Mine(req))
    /\ Mine(req) \notin handled

(* Disturbed or not, a request whose header is of the present connection   *)
(* is there whole and unmixed when it is dealt with; what a dead client    *)
(* left is only ever completed from behind.                                *)
OwnHeaderOwnBody ==
  spc = "command" /\ Announced(ibuf)[1] = conn => Intact(Announced(ibuf))

(* What an undisturbed client takes for its response acknowledges its own  *)
(* request.  The request has been dealt with; it has been transmitted just *)
(* when IRRCSend takes it, which the acknowledgement does not tell.        *)
AnswerIsOwn ==
  ~disturbed /\ ((cpc = "waiting" /\ resp # <<>>) \/ (cpc = "ready" /\ req # 0)) =>
    /\ resp = Take(Ack(Mine(req)), Len(resp))
    /\ Mine(req) \in handled
    /\ Mine(req) \in executed <=> req \in Sendable

(* "no remaining input buffer, it may be bug" (irserver.cpp:128) for any   *)
(* client at all.                                                          *)
InputBufferHasRoom == spc = "enter" => Len(ibuf) < REQMAX

(* A client that gives up on a request because the server has closed, and  *)
(* one whose read loop never ends for that reason, may well send it again: *)
(* it was not dealt with, unless the connection was disturbed, above all   *)
(* by a failed call that lost the acknowledgement.                         *)
RetryIsSafe ==
  [][cpc = "waiting" /\ Client /\ cpc' \in {"off", "spinning"} /\ ~disturbed
       => Mine(req) \notin handled]_vars

(* A request that reached a task not about to close is answered, unless    *)
(* its client dies or a call of the server's fails meanwhile.              *)
Answered ==
  cpc = "waiting" /\ spc \notin {"ending", "free"}  /\ ~disturbed
    ~> cpc = "ready" \/ disturbed

(* Whatever becomes of clients and calls, a request is dealt with at most  *)
(* once, so it is transmitted at most once.                                *)
AtMostOnce ==
  [][spc = "command" /\ spc' = "enter" => Announced(ibuf) \notin handled]_vars

(* A connection whose client has ended or vanished ends too, and its slot  *)
(* becomes free for another.                                               *)
ConnectionEnds == clientEnd \in {"closed", "gone"} ~> spc = "free"
=============================================================================
