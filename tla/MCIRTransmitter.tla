-------------------------- MODULE MCIRTransmitter --------------------------
EXTENDS IRTransmitter

Cmd(p, n, b) == [protocol |-> p, len |-> n, bits |-> b]

(* The sizes of the code: one byte, the 31 bytes that still fit, none; the *)
(* Sony lengths of 12 and 20 bits, and one whose length is wrong.          *)
MCSerialRequests ==
  {Cmd("NEC", 1, 0), Cmd("AEHA", 31, 0), Cmd("NEC", 0, 0),
   Cmd("SONY", 3, 12), Cmd("SONY", 4, 20), Cmd("SONY", 3, 20)}

(* The longest command irtx accepts.                                       *)
MCLongRequests == {Cmd("NEC", 1, 0), Cmd("AEHA", 32, 0)}

(* Scaled to one bit a byte, for two tasks at once.                        *)
MCSharedRequests == {Cmd("NEC", 1, 0), Cmd("SONY", 2, 1)}
=============================================================================
