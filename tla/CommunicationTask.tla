------------------------- MODULE CommunicationTask -------------------------
(***************************************************************************)
(* One communication task of the IR server (main/irserver.cpp,             *)
(* CommunicationTask::run and what it calls), over the connections it is   *)
(* given one after another.  ibuf and obuf are fields of the task object   *)
(* and outlive the connection.  Transmitting is the module IRTransmitter;  *)
(* here a request is dealt with in one step.                               *)
(***************************************************************************)
EXTENDS IRSConnection

VARIABLES
  spc,       \* where run is: "free" when the slot has no connection
  ibuf,      \* ibuf[0 .. ibufUsed-1]
  out,       \* obuf[obufHead .. obufUsed-1]
  received,  \* cmdRecieved, FALSE outside its scope
  ready,     \* the descriptor sets as select left them
  handled,   \* requests dealt with, of this connection or still in ibuf
  executed   \* those of them that were transmitted

taskVars == <<spc, ibuf, out, received, ready, handled, executed>>

TaskInit ==
  /\ spc = "free"
  /\ ibuf = <<>> /\ out = <<>>
  /\ received = FALSE
  /\ ready = {}
  /\ handled = {} /\ executed = {}

InInput(r) == \E k \in DOMAIN ibuf : ibuf[k][2] = r

(* setSocket and start, by the acceptor; run sets nothing else up.         *)
TaskStart ==
  /\ spc = "free"
  /\ spc' = "enter"
  /\ handled' = {r \in handled : InInput(r)}
  /\ executed' = {r \in executed : InInput(r)}
  /\ UNCHANGED <<ibuf, out, received, ready>>

-----------------------------------------------------------------------------
(* flashAndRecieveCmd.                                                     *)

(* return false: run leaves its loop.                                      *)
Fail ==
  /\ spc' = "ending"
  /\ received' = FALSE

EnterFull ==
  /\ spc = "enter"
  /\ Len(ibuf) = REQMAX
  /\ Fail
  /\ UNCHANGED <<connVars, ibuf, out, ready, handled, executed>>

Enter ==
  /\ spc = "enter"
  /\ Len(ibuf) # REQMAX
  /\ spc' = "select"
  /\ UNCHANGED <<connVars, ibuf, out, received, ready, handled, executed>>

Readable == Len(ibuf) < REQMAX /\ (c2s # <<>> \/ clientEnd = "closed")
WrongSet_Writable == FALSE

Writable == out # <<>>

SelectReady ==
  /\ spc = "select"
  /\ Readable \/ Writable
  /\ ready' = {f \in {"read", "write"} : IF f = "read" THEN Readable ELSE Writable}
  /\ spc' = "write"
  /\ UNCHANGED <<connVars, ibuf, out, received, handled, executed>>

WrongRetry_SelectTimeout ==
  /\ spc = "select" /\ ~Readable /\ ~Writable /\ quiet
  /\ UNCHANGED <<connVars, taskVars>>

WrongSoon_SelectTimeout ==
  /\ spc = "select" /\ ~Readable /\ ~Writable
  /\ Fail
  /\ UNCHANGED <<connVars, ibuf, out, ready, handled, executed>>

(* COMM_TIMEOUT passed and the socket was not ready.                       *)
SelectTimeout ==
  /\ spc = "select"
  /\ ~Readable /\ ~Writable
  /\ quiet
  /\ Fail
  /\ UNCHANGED <<connVars, ibuf, out, ready, handled, executed>>

(* An error of the socket or of the system, in any round.                  *)
SelectFails ==
  /\ spc = "select"
  /\ Fail
  /\ UNCHANGED <<connVars, ibuf, out, ready, handled, executed>>

WriteSome ==
  /\ spc = "write" /\ "write" \in ready
  /\ \E n \in 1 .. Len(out) :
       /\ out' = Drop(out, n)
       /\ s2c' = IF clientEnd = "open" THEN s2c \o Take(out, n) ELSE s2c
  /\ spc' = "read"
  /\ UNCHANGED <<conn, c2s, clientEnd, serverEnd, quiet, ibuf, received, ready,
                 handled, executed>>

(* A reset by a client that has closed, or any other error.                *)
WriteFails ==
  /\ spc = "write" /\ "write" \in ready
  /\ Fail
  /\ ready' = {}
  /\ UNCHANGED <<connVars, ibuf, out, handled, executed>>

WriteNothing ==
  /\ spc = "write" /\ "write" \notin ready
  /\ spc' = "read"
  /\ UNCHANGED <<connVars, ibuf, out, received, ready, handled, executed>>

(* The loop ends with a command received and everything flushed; the       *)
(* descriptor sets are made anew in each round.                            *)
AfterRead(rcvd) ==
  /\ received' = rcvd
  /\ spc' = IF rcvd /\ out = <<>> THEN "command" ELSE "select"

ReadNothing ==
  /\ spc = "read" /\ "read" \notin ready
  /\ AfterRead(received)
  /\ ready' = {}
  /\ UNCHANGED <<connVars, ibuf, out, handled, executed>>

(* As many bytes as the header announces are there.                        *)
WrongEarly_Complete(buf) == Len(buf) >= HDR
Complete(buf) == Len(buf) >= AnnouncedSize(buf)

(* read returned bytes: fewer than a header, or a header that is checked   *)
(* and may complete the command.                                           *)
ReadSome ==
  /\ spc = "read" /\ "read" \in ready
  /\ \E n \in 1 .. Len(c2s) :
       /\ n <= REQMAX - Len(ibuf)
       /\ c2s' = Drop(c2s, n)
       /\ LET buf == ibuf \o Take(c2s, n) IN
            /\ ibuf' = buf
            /\ IF Len(buf) < HDR THEN AfterRead(received)
               ELSE IF ~HasHeader(buf)
                    THEN Fail  \* protocol error
                    ELSE AfterRead(received \/ Complete(buf))
  /\ ready' = {}
  /\ UNCHANGED <<conn, s2c, clientEnd, serverEnd, quiet, out, handled, executed>>

(* Closed by the client: read returns 0.                                   *)
ReadEnd ==
  /\ spc = "read" /\ "read" \in ready
  /\ c2s = <<>>
  /\ Fail
  /\ ready' = {}
  /\ UNCHANGED <<connVars, ibuf, out, handled, executed>>

ReadFails ==
  /\ spc = "read" /\ "read" \in ready
  /\ Fail
  /\ ready' = {}
  /\ UNCHANGED <<connVars, ibuf, out, handled, executed>>

-----------------------------------------------------------------------------
(* run: the command.                                                       *)

(* makeResponse: what stays in ibuf, and what is put in obuf.              *)
WrongNone_Rest  == ibuf
WrongShort_Rest == Drop(ibuf, AnnouncedSize(ibuf) - 1)
Rest == Drop(ibuf, AnnouncedSize(ibuf))

WrongTwice_Response(r) == Ack(r) \o Ack(r)
Response(r) == Ack(r)

(* What is in ibuf is a request, byte for byte.                            *)
Intact(r) == Len(ibuf) >= Size[r[2]] /\ Take(ibuf, Size[r[2]]) = Request(r)

(* Whether cmdTxFormat transmits: not when the format is unsupported (after *)
(* a mixed header it always is, those bytes are letters of the IRSID) or   *)
(* IRRCSend refuses the data.  Bytes of several messages may make a request *)
(* that is transmitted, or may not.                                        *)
Transmits(r) ==
  {sends \in BOOLEAN : /\ MixedHeader(ibuf) => ~sends
                       /\ Intact(r) => (sends <=> r[2] \in Sendable)}

(* cmdTxFormat: transmit or not, then makeResponse takes the request out   *)
(* of ibuf and puts the acknowledgement in obuf, the same in either case.  *)
CmdTxFormat ==
  /\ spc = "command"
  /\ LET r == Announced(ibuf) IN
       /\ r[2] \in TxFormat
       /\ handled' = handled \cup {r}
       /\ \E sends \in Transmits(r) :
            executed' = IF sends THEN executed \cup {r} ELSE executed
       /\ ibuf' = Rest
       /\ out' = Response(r)
  /\ spc' = "enter"
  /\ received' = FALSE
  /\ UNCHANGED <<connVars, ready>>

CmdUnknown ==
  /\ spc = "command"
  /\ Announced(ibuf)[2] \notin TxFormat
  /\ Fail
  /\ UNCHANGED <<connVars, ibuf, out, ready, handled, executed>>

(* close, sockfd = -1, endCommTask.                                        *)
EndTask ==
  /\ spc = "ending"
  /\ spc' = "free"
  /\ HangUp
  /\ UNCHANGED <<ibuf, out, received, ready, handled, executed>>

TaskStep ==
  \/ EnterFull \/ Enter
  \/ SelectReady \/ SelectTimeout
  \/ WriteSome \/ WriteNothing
  \/ ReadNothing \/ ReadSome \/ ReadEnd
  \/ CmdTxFormat \/ CmdUnknown \/ EndTask

TaskFails == SelectFails \/ WriteFails \/ ReadFails

TaskTypeOK ==
  /\ spc \in {"free", "enter", "select", "write", "read", "command", "ending"}
  /\ ibuf \in Seq(Bytes) /\ Len(ibuf) <= REQMAX
  /\ out \in Seq(Bytes) /\ Len(out) <= HDR
  /\ received \in BOOLEAN
  /\ ready \subseteq {"read", "write"}
  /\ handled \subseteq Reqs /\ executed \subseteq handled
=============================================================================
