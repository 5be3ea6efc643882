---------------------------- MODULE MCIRSession ----------------------------
EXTENDS IRSession

(* IRRCSend refuses the second request, which fills the buffer; the third  *)
(* is a header alone, with a command that is not IRServerCmdTxFormat.      *)
MCSize == <<3, 5, 2>>

(* One request a connection.                                               *)
MCOneSize == <<4>>
=============================================================================
