----------------------------- MODULE IRSClient -----------------------------
(***************************************************************************)
(* The client library (hosttool/irslib.c): irsOpen, then requests one at a *)
(* time, each sent whole before its response is read, then irsClose.       *)
(***************************************************************************)
EXTENDS IRSConnection

VARIABLES
  cpc,   \* where the client is; "off" without a handle
  req,   \* the request in progress, or the last one
  sent,  \* bytes of it written
  resp   \* ctx->ibuf[0 .. ibufUsed-1]

clientVars == <<cpc, req, sent, resp>>

ClientInit ==
  /\ cpc = "off"
  /\ req = 0
  /\ sent = 0
  /\ resp = <<>>

(* The client is no more.                                                  *)
Off(end) ==
  /\ cpc' = "off" /\ req' = 0 /\ sent' = 0 /\ resp' = <<>>
  /\ Leave(end)

(* The message of request number i on this connection.                     *)
Mine(i) == <<conn, i>>

IrsOpen ==
  /\ cpc' = "ready" /\ req' = 0 /\ sent' = 0 /\ resp' = <<>>

(* irsInvokeTxFormat: the next request is made up in obuf.                 *)
IrsSendRequest ==
  /\ cpc = "ready"
  /\ req + 1 \in DOMAIN Size
  /\ req' = req + 1
  /\ sent' = 0
  /\ cpc' = "sending"
  /\ UNCHANGED <<connVars, resp>>

(* The response buffer is emptied before the read loop.                    *)
WrongStale_RespAfter(n) == resp
RespAfter(n) == IF n = Size[req] THEN <<>> ELSE resp

(* The write loop.  To a server that has closed, the bytes go nowhere.     *)
ClientWrite ==
  /\ cpc = "sending"
  /\ \E n \in 1 .. Size[req] - sent :
       /\ c2s' = IF serverEnd = "open"
                 THEN c2s \o SubSeq(Request(Mine(req)), sent + 1, sent + n)
                 ELSE c2s
       /\ sent' = sent + n
       /\ cpc' = IF sent + n = Size[req] THEN "waiting" ELSE "sending"
       /\ resp' = RespAfter(sent + n)
  /\ quiet' = FALSE
  /\ UNCHANGED <<conn, s2c, clientEnd, serverEnd, req>>

(* write or read fails after the server's close: -1, and irtx exits.  On a *)
(* live connection that is ClientKilled.                                   *)
ClientFails ==
  /\ cpc \in {"sending", "waiting"}
  /\ serverEnd = "closed"
  /\ Off("closed")

(* The read loop: a response is complete when just its bytes are there,    *)
(* and wrong, EPROTO, when it does not begin with a header.                *)
ClientRead ==
  /\ cpc = "waiting"
  /\ \E n \in 1 .. Len(s2c) :
       LET buf == resp \o Take(s2c, n) IN
         IF Len(buf) >= HDR /\ ~HasHeader(buf)
         THEN Off("closed")
         ELSE /\ s2c' = Drop(s2c, n)
              /\ resp' = buf
              /\ cpc' = IF Len(buf) = HDR THEN "ready" ELSE "waiting"
              /\ UNCHANGED <<conn, c2s, clientEnd, serverEnd, quiet, req, sent>>

(* read returns 0 and is called again, for ever.                           *)
ClientSpins ==
  /\ cpc = "waiting"
  /\ serverEnd = "closed" /\ s2c = <<>>
  /\ cpc' = "spinning"
  /\ UNCHANGED <<connVars, req, sent, resp>>

IrsClose ==
  /\ cpc = "ready"
  /\ Off("closed")

-----------------------------------------------------------------------------
(* What happens to a client from outside.                                  *)

(* COMM_TIMEOUT passes without a byte from the client.                     *)
ClientPauses ==
  /\ cpc \in {"ready", "sending"} /\ ~quiet
  /\ quiet' = TRUE
  /\ UNCHANGED <<conn, c2s, s2c, clientEnd, serverEnd, clientVars>>

(* The program is killed, or gives up after an error of its own: its       *)
(* system closes the connection.                                           *)
ClientKilled ==
  /\ cpc # "off"
  /\ Off("closed")

(* The host disappears from the network.                                   *)
ClientVanishes ==
  /\ cpc # "off"
  /\ Off("gone")

ClientStep ==
  IrsSendRequest \/ ClientWrite \/ ClientFails \/ ClientRead \/ ClientSpins

ClientTypeOK ==
  /\ cpc \in {"off", "ready", "sending", "waiting", "spinning"}
  /\ req \in {0} \cup DOMAIN Size
  /\ sent \in 0 .. REQMAX
  /\ resp \in Seq(Bytes)
=============================================================================
