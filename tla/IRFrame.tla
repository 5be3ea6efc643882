------------------------------ MODULE IRFrame ------------------------------
(***************************************************************************)
(* The infrared formats of main/irrc.c: which items a command becomes.  A  *)
(* command is a record: its protocol, the number of its bytes, and bits,   *)
(* what its first byte says when that is read as a number of bits.  The    *)
(* bits themselves are abstracted to their place in the command.           *)
(***************************************************************************)
EXTENDS Integers, Sequences

CONSTANTS BITS,  \* bits in a byte
          None   \* no command

Protocol == {"NEC", "AEHA", "SONY"}
Carrier(p) == IF p = "SONY" THEN 40000 ELSE 38000

(* ProtocolDef[p].make, and ProtocolDef[p].needTrailer; all need a leader. *)
Maker(p) == IF p = "SONY" THEN "makeSendDataSony" ELSE "makeSendData"
NeedTrailer(p) == p # "SONY"

(* The checks at the head of makeSendData and makeSendDataSony.            *)
Accepts(make, r) ==
  /\ r.len >= 1
  /\ make = "makeSendDataSony" => r.len = (r.bits + 2 * BITS - 1) \div BITS

(* How many items a maker writes with the definition of protocol p.        *)
WrongLoop_DataItems(make, r) ==
  IF make = "makeSendDataSony" THEN r.bits + 1 ELSE BITS * (r.len + 1)

DataItems(make, r) == IF make = "makeSendDataSony" THEN r.bits ELSE BITS * r.len
Items(make, p, r)  == 1 + DataItems(make, r) + (IF NeedTrailer(p) THEN 1 ELSE 0)

(* The k-th of them.                                                       *)
Item(make, p, r, k) ==
  IF k = 1 THEN <<p, "leader">>
  ELSE IF k - 1 <= DataItems(make, r) THEN <<p, r, k - 1>>
  ELSE <<p, "trailer">>

WellFormed(r) == Accepts(Maker(r.protocol), r)

(* The frame of a command.                                                 *)
Frame(r) == [k \in 1 .. Items(Maker(r.protocol), r.protocol, r) |->
               Item(Maker(r.protocol), r.protocol, r, k)]

OnAir(items, carriers) == [items |-> items, carriers |-> carriers]
Silence == OnAir(<<>>, {})
=============================================================================
