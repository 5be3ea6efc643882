--------------------------- MODULE IRTransmitter ---------------------------
(***************************************************************************)
(* The transmitter of main/irrc.c.  The one IRRC object of the IR server   *)
(* is used by every communication task, without a lock: IRRCChangeProtocol *)
(* and IRRCSend are modelled by their accesses to its fields.              *)
(***************************************************************************)
EXTENDS IRFrame, FiniteSets

CONSTANTS Task,       \* the communication tasks
          Requests,   \* the commands they may send
          BUFFITEMS,  \* items the malloc of IRRCInit has room for
          Garbage,    \* an item never written
          Nobody      \* no task has the RMT channel

ASSUME TransmitterAssumption ==
  /\ BITS \in Nat \ {0} /\ BUFFITEMS \in Nat \ {0}
  /\ Requests \subseteq [protocol : Protocol, len : Nat, bits : Nat]
  /\ None \notin Requests /\ Nobody \notin Task

VARIABLES
  protocol,  \* ctx->protocol
  buff,      \* ctx->buff
  usedLen,   \* ctx->usedLen
  overrun,   \* an item was written behind the end of buff
  carrier,   \* the carrier the RMT channel is set to
  channel,   \* the task whose items the RMT channel is sending, or Nobody
  air,       \* what the channel is sending
  pc, cmd,   \* each task: where it is, and its command
  make, def, \* locals: the maker called, and the protocol it reads
  at, reg    \* locals: items made, and usedLen as last loaded

(* A length behind the end of buff is not told from a longer one.          *)
LenCap == BUFFITEMS + 1

shared == <<protocol, buff, usedLen, overrun, carrier, channel, air>>
locals == <<pc, cmd, make, def, at, reg>>
vars == <<shared, locals>>

(* IRRCInit(&irrc, IRRC_TX, IRRC_NEC, ...)                                 *)
Init ==
  /\ protocol = "NEC" /\ carrier = Carrier("NEC")
  /\ buff = [i \in 0 .. BUFFITEMS - 1 |-> Garbage]
  /\ usedLen = 0 /\ overrun = FALSE
  /\ channel = Nobody /\ air = Silence
  /\ pc = [t \in Task |-> "idle"] /\ cmd = [t \in Task |-> None]
  /\ make = [t \in Task |-> "makeSendData"] /\ def = [t \in Task |-> "NEC"]
  /\ at = [t \in Task |-> 0] /\ reg = [t \in Task |-> 0]

Goto(t, from, to) == pc[t] = from /\ pc' = [pc EXCEPT ![t] = to]

(* cmdTxFormat has a supported format and calls IRRCChangeProtocol.        *)
Submit(t) ==
  /\ Goto(t, "idle", "check")
  /\ \E r \in Requests : cmd' = [cmd EXCEPT ![t] = r]
  /\ UNCHANGED <<shared, make, def, at, reg>>

(* The command is done; its locals are gone.                               *)
Return(t, from) ==
  /\ Goto(t, from, "idle")
  /\ cmd' = [cmd EXCEPT ![t] = None]
  /\ make' = [make EXCEPT ![t] = "makeSendData"] /\ def' = [def EXCEPT ![t] = "NEC"]
  /\ at' = [at EXCEPT ![t] = 0] /\ reg' = [reg EXCEPT ![t] = 0]

-----------------------------------------------------------------------------
(* IRRCChangeProtocol.                                                     *)

SameProtocol(t) ==
  /\ Goto(t, "check", "choose")
  /\ protocol = cmd[t].protocol
  /\ UNCHANGED <<shared, cmd, make, def, at, reg>>

OtherProtocol(t) ==
  /\ Goto(t, "check", "setProtocol")
  /\ protocol # cmd[t].protocol
  /\ UNCHANGED <<shared, cmd, make, def, at, reg>>

WrongSkip_SetProtocol(t) ==
  /\ Goto(t, "setProtocol", "choose")
  /\ protocol' = cmd[t].protocol
  /\ UNCHANGED <<buff, usedLen, overrun, carrier, channel, air,
                 cmd, make, def, at, reg>>

SetProtocol(t) ==
  /\ Goto(t, "setProtocol", "setCarrier")
  /\ protocol' = cmd[t].protocol
  /\ UNCHANGED <<buff, usedLen, overrun, carrier, channel, air,
                 cmd, make, def, at, reg>>

WrongDuty_SetCarrier(t) ==
  /\ Goto(t, "setCarrier", "choose")
  /\ carrier' = 33
  /\ UNCHANGED <<protocol, buff, usedLen, overrun, channel, air,
                 cmd, make, def, at, reg>>

(* changeProtocolTx; a frame going out changes its carrier on the way.     *)
SetCarrier(t) ==
  /\ Goto(t, "setCarrier", "choose")
  /\ carrier' = Carrier(cmd[t].protocol)
  /\ air' = IF channel = Nobody THEN air
            ELSE [air EXCEPT !.carriers = @ \cup {carrier'}]
  /\ UNCHANGED <<protocol, buff, usedLen, overrun, channel,
                 cmd, make, def, at, reg>>

-----------------------------------------------------------------------------
(* IRRCSend: ProtocolDef[ctx->protocol].make is called, makes the items of *)
(* the command one by one, and the channel sends them.                     *)

Choose(t) ==
  /\ Goto(t, "choose", "begin")
  /\ Accepts(Maker(protocol), cmd[t])
  /\ make' = [make EXCEPT ![t] = Maker(protocol)]
  /\ UNCHANGED <<shared, cmd, def, at, reg>>

(* "invalid data length" or "invalid data format": nothing is sent.        *)
Refuse(t) ==
  /\ Return(t, "choose")
  /\ ~Accepts(Maker(protocol), cmd[t])
  /\ UNCHANGED shared

WrongStart_BeginMake(t) ==
  /\ Goto(t, "begin", "item")
  /\ def' = [def EXCEPT ![t] = protocol]
  /\ at' = [at EXCEPT ![t] = 1]
  /\ UNCHANGED <<protocol, buff, usedLen, overrun, carrier, channel, air,
                 cmd, make, reg>>

BeginMake(t) ==
  /\ Goto(t, "begin", "item")
  /\ def' = [def EXCEPT ![t] = protocol]
  /\ usedLen' = 0
  /\ at' = [at EXCEPT ![t] = 1]
  /\ UNCHANGED <<protocol, buff, overrun, carrier, channel, air, cmd, make, reg>>

(* ctx->buff[ctx->usedLen] = item, with the load of usedLen ...            *)
StoreItem(t) ==
  /\ Goto(t, "item", "bump")
  /\ reg' = [reg EXCEPT ![t] = usedLen]
  /\ IF usedLen < BUFFITEMS
     THEN /\ buff' = [buff EXCEPT ![usedLen] = Item(make[t], def[t], cmd[t], at[t])]
          /\ UNCHANGED overrun
     ELSE overrun' = TRUE /\ UNCHANGED buff
  /\ UNCHANGED <<protocol, usedLen, carrier, channel, air, cmd, make, def, at>>

(* ... and ctx->usedLen++.                                                 *)
BumpLength(t) ==
  /\ pc[t] = "bump"
  /\ pc' = [pc EXCEPT ![t] =
              IF at[t] < Items(make[t], def[t], cmd[t]) THEN "item" ELSE "write"]
  /\ usedLen' = IF reg[t] < LenCap THEN reg[t] + 1 ELSE LenCap
  /\ at' = [at EXCEPT ![t] = @ + 1]
  /\ UNCHANGED <<protocol, buff, overrun, carrier, channel, air,
                 cmd, make, def, reg>>

(* rmt_write_items waits for the channel and hands it the items.           *)
WriteItems(t) ==
  /\ Goto(t, "write", "wait")
  /\ channel = Nobody
  /\ channel' = t
  /\ air' = OnAir([k \in 1 .. usedLen |->
                     IF k <= BUFFITEMS THEN buff[k - 1] ELSE Garbage], {carrier})
  /\ UNCHANGED <<protocol, buff, usedLen, overrun, carrier,
                 cmd, make, def, at, reg>>

(* The last item is out; rmt_wait_tx_done returns.                         *)
TxDone(t) ==
  /\ channel = t
  /\ channel' = Nobody /\ air' = Silence
  /\ Return(t, "wait")
  /\ UNCHANGED <<protocol, buff, usedLen, overrun, carrier>>

-----------------------------------------------------------------------------
Step(t) ==
  \/ SameProtocol(t) \/ OtherProtocol(t) \/ SetProtocol(t) \/ SetCarrier(t)
  \/ Choose(t) \/ Refuse(t) \/ BeginMake(t) \/ StoreItem(t) \/ BumpLength(t)
  \/ TxDone(t)

Next == \E t \in Task : Submit(t) \/ Step(t) \/ WriteItems(t)

(* Tasks run, and the semaphore of the RMT driver wakes its waiters in     *)
(* turn.  Nothing makes a client send.                                     *)
Fairness == \A t \in Task : WF_vars(Step(t)) /\ SF_vars(WriteItems(t))

Spec == Init /\ [][Next]_vars /\ Fairness

-----------------------------------------------------------------------------
(* Properties.                                                             *)

(* The type of every variable, the contents of buff and air apart.         *)
TypeOK ==
  /\ protocol \in Protocol
  /\ DOMAIN buff = 0 .. BUFFITEMS - 1
  /\ usedLen \in 0 .. LenCap
  /\ overrun \in BOOLEAN
  /\ carrier \in {Carrier(p) : p \in Protocol}
  /\ channel \in Task \cup {Nobody}
  /\ air.carriers \subseteq {Carrier(p) : p \in Protocol}
  /\ cmd \in [Task -> Requests \cup {None}]
  /\ def \in [Task -> Protocol]
  /\ at \in [Task -> Nat] /\ reg \in [Task -> 0 .. LenCap]

(* No command is longer than the buffer the items are made in.             *)
FitsBuffer == ~overrun

(* While nobody is changing protocols, the carrier is the one of the       *)
(* stored protocol: the comparison in IRRCChangeProtocol, which skips the  *)
(* carrier when the protocol is the same, relies on it.                    *)
CarrierAgrees ==
  (\A t \in Task : pc[t] # "setCarrier") => carrier = Carrier(protocol)

(* What a task's call sends is the frame of its own command, whole, on the *)
(* carrier of its format.                                                  *)
FaithfulTransmission ==
  \A t \in Task : pc[t] = "wait" =>
    air = OnAir(Frame(cmd[t]), {Carrier(cmd[t].protocol)})

(* The transmitter sends as if making the frame and setting the carrier    *)
(* were one step: the step is the hand-over of the items to the channel.   *)
Atomic == INSTANCE AtomicTransmitter WITH
  pending <- [t \in Task |-> IF pc[t] = "wait" THEN None ELSE cmd[t]]

ImplementsAtomic == Atomic!Spec
=============================================================================
