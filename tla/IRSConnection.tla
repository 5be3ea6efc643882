--------------------------- MODULE IRSConnection ---------------------------
(***************************************************************************)
(* The wire between a client and the communication task serving it: the    *)
(* protocol of main/irserverProtocol.h over one TCP connection after       *)
(* another.  A byte is the identity of its message and its place in it, so *)
(* a buffer shows which messages it mixes; sizes are scaled down.          *)
(***************************************************************************)
EXTENDS Integers, SequencesExt

CONSTANTS HDR,      \* sizeof(IRSHeader); a response is a header alone
          REQMAX,   \* IRS_REQMAXSIZE
          Size,     \* Size[i]: length of the i-th request of a connection
          TxFormat, \* the requests i whose command is IRServerCmdTxFormat
          Sendable, \* those of them that IRRCSend transmits: their format is
                    \* supported and takes data of their length
          MIXED     \* the size a mixed header announces, 'I' = 73 in the code

ASSUME ProtocolAssumption ==
  /\ HDR \in Nat \ {0, 1} /\ REQMAX \in Nat
  /\ Size \in Seq(HDR .. REQMAX)
  /\ TxFormat \subseteq DOMAIN Size /\ Sendable \subseteq TxFormat
  /\ MIXED \in HDR .. REQMAX

VARIABLES
  conn,       \* number of the connection
  c2s, s2c,   \* bytes under way to the server and to the client
  clientEnd,  \* "open", "closed", or "gone": silent for ever
  serverEnd,  \* "open" or "closed"
  quiet       \* the client has sent nothing for COMM_TIMEOUT seconds

connVars == <<conn, c2s, s2c, clientEnd, serverEnd, quiet>>

(* Enough numbers for a new connection to have one that no byte still kept *)
(* by the server has: numbers are used again, requests are not confused.   *)
Conn == 0 .. REQMAX + HDR
Reqs == Conn \X (DOMAIN Size)

RequestByte(r, k) == <<"req", r, k>>
AckByte(r, k)     == <<"ack", r, k>>
Request(r) == [k \in 1 .. Size[r[2]] |-> RequestByte(r, k)]
Ack(r)     == [k \in 1 .. HDR |-> AckByte(r, k)]

(* The first n bytes of buf are those of one message.                      *)
Begins(buf, n) ==
  \A k \in 1 .. n : buf[k][1] = buf[1][1] /\ buf[k][2] = buf[1][2] /\ buf[k][3] = k

(* The last byte of a header is missing, and the first of another message  *)
(* is in its place: the IRSID holds, and the size, now an 'I', is small    *)
(* enough.  Cut at any other place, two messages make a wrong IRSID or a   *)
(* size above REQMAX.                                                      *)
MixedHeader(buf) ==
  /\ Begins(buf, HDR - 1)
  /\ buf[HDR][1] = buf[1][1] /\ buf[HDR][2] # buf[1][2] /\ buf[HDR][3] = 1

(* The first HDR bytes of buf pass for a header: an IRSID and a size.      *)
HasHeader(buf) == Begins(buf, HDR) \/ MixedHeader(buf)

(* The request whose header it is, and the size it announces.              *)
Announced(buf) == buf[1][2]
AnnouncedSize(buf) == IF MixedHeader(buf) THEN MIXED ELSE Size[Announced(buf)[2]]

Take(q, n) == SubSeq(q, 1, n)
Drop(q, n) == SubSeq(q, n + 1, Len(q))

ConnInit ==
  /\ conn = 0
  /\ c2s = <<>> /\ s2c = <<>>
  /\ clientEnd = "closed" /\ serverEnd = "closed"
  /\ quiet = FALSE

(* connect on one side, accept on the other.  From here on the new client  *)
(* is followed; one left over on a connection the server closed is not.    *)
Establish(number) ==
  /\ serverEnd = "closed"
  /\ conn' = number
  /\ c2s' = <<>> /\ s2c' = <<>>
  /\ clientEnd' = "open" /\ serverEnd' = "open"
  /\ quiet' = FALSE

(* close at the server: what it has not read is lost.                      *)
HangUp ==
  /\ serverEnd' = "closed"
  /\ c2s' = <<>>
  /\ UNCHANGED <<conn, s2c, clientEnd, quiet>>

(* The client's side ends, orderly or not: what it has not read is lost.   *)
Leave(end) ==
  /\ clientEnd' = end
  /\ s2c' = <<>>
  /\ quiet' = (end = "gone")
  /\ UNCHANGED <<conn, c2s, serverEnd>>

Bytes == {"req"} \X Reqs \X (1 .. REQMAX) \cup {"ack"} \X Reqs \X (1 .. HDR)

ConnTypeOK ==
  /\ conn \in Conn
  /\ c2s \in Seq(Bytes) /\ s2c \in Seq(Bytes)
  /\ clientEnd \in {"open", "closed", "gone"}
  /\ serverEnd \in {"open", "closed"}
  /\ quiet \in BOOLEAN
=============================================================================
