------------------------ MODULE IRTransmitter_proof ------------------------
(***************************************************************************)
(* The transmitter, for any number of tasks, commands and any size of its  *)
(* buffer: what irrc.c does for tasks whose calls do not overlap, which is *)
(* what a lock around them would give.                                     *)
(***************************************************************************)
EXTENDS IRTransmitter, TLAPS

(* At most one task is between IRRCChangeProtocol and the end of IRRCSend. *)
Serial == \A t, u \in Task : pc[t] # "idle" /\ pc[u] # "idle" => t = u

(* The buffer of IRRCInit has room for the frame of each command sent.     *)
LongestFits == \A r \in Requests : WellFormed(r) => Len(Frame(r)) <= BUFFITEMS

-----------------------------------------------------------------------------
(* The inductive invariants.                                               *)

Statement == {"idle", "check", "setProtocol", "setCarrier", "choose", "begin",
              "item", "bump", "write", "wait"}

(* The type, with what belongs to a task whatever the others do.           *)
TaskInv ==
  /\ TypeOK
  /\ pc \in [Task -> Statement]
  /\ make \in [Task -> {"makeSendData", "makeSendDataSony"}]
  /\ \A t \in Task : pc[t] = "idle" <=> cmd[t] = None

(* The channel is sending for whoever waits.                               *)
ChannelInv ==
  /\ \A t \in Task : channel = t <=> pc[t] = "wait"
  /\ channel = Nobody => air = Silence

(* The protocol is that of the command from the moment it is set.          *)
ProtocolInv ==
  \A t \in Task :
    pc[t] \notin {"idle", "check", "setProtocol"} => protocol = cmd[t].protocol

(* The maker called is the one of the command, and has accepted it.        *)
MakerInv ==
  \A t \in Task :
    /\ pc[t] \in {"begin", "item", "bump", "write"} =>
         make[t] = Maker(cmd[t].protocol) /\ WellFormed(cmd[t])
    /\ pc[t] \in {"item", "bump", "write"} => def[t] = cmd[t].protocol

(* The first n items of the frame of r are in the buffer b.                *)
Holds(b, r, n) == \A k \in 1 .. n : k <= BUFFITEMS => b[k - 1] = Frame(r)[k]

(* How far the items are made: as far as usedLen, or by one further before *)
(* it is bumped; and what then goes out.                                   *)
BufferInv ==
  \A t \in Task :
    /\ pc[t] = "item"  => /\ at[t] \in 1 .. Len(Frame(cmd[t])) /\ usedLen = at[t] - 1
                          /\ Holds(buff, cmd[t], usedLen)
    /\ pc[t] = "bump"  => /\ at[t] \in 1 .. Len(Frame(cmd[t]))
                          /\ usedLen = at[t] - 1 /\ reg[t] = usedLen
                          /\ Holds(buff, cmd[t], at[t])
    /\ pc[t] = "write" => usedLen = Len(Frame(cmd[t])) /\ Holds(buff, cmd[t], usedLen)

SerialInv == TaskInv /\ ChannelInv /\ ProtocolInv /\ CarrierAgrees

FrameInv == MakerInv /\ BufferInv /\ FitsBuffer /\ FaithfulTransmission

IInv == SerialInv /\ FrameInv

-----------------------------------------------------------------------------
(* Frames.                                                                 *)

(* The items of a command are a leader, one for each bit, and, but for     *)
(* Sony, a trailer.                                                        *)
LEMMA FrameItems ==
  ASSUME NEW r \in Requests
  PROVE  /\ Items(Maker(r.protocol), r.protocol, r) \in Nat \ {0}
         /\ Len(Frame(r)) = Items(Maker(r.protocol), r.protocol, r)
         /\ \A k \in 1 .. Len(Frame(r)) : Frame(r)[k] = Item(Maker(r.protocol), r.protocol, r, k)
<1>1. r.protocol \in Protocol /\ r.len \in Nat /\ r.bits \in Nat
  BY TransmitterAssumption
<1>2. BITS * r.len \in Nat
  <2>1. BITS \in Nat
    BY TransmitterAssumption
  <2> QED
    BY <1>1, <2>1
<1>3. DataItems(Maker(r.protocol), r) \in Nat
  BY <1>1, <1>2 DEF DataItems
<1>4. Items(Maker(r.protocol), r.protocol, r) \in Nat \ {0}
  BY <1>3 DEF Items
<1> QED
  BY <1>4 DEF Frame

-----------------------------------------------------------------------------
(* The type.                                                               *)

(* IRRCInit gives every field its type.                                    *)
LEMMA TaskInit == Init => TaskInv
<1> SUFFICES ASSUME Init PROVE TaskInv
  OBVIOUS
<1>1. BUFFITEMS \in Nat /\ LenCap \in Nat /\ 0 \in 0 .. LenCap
  BY TransmitterAssumption DEF LenCap
<1>2. DOMAIN buff = 0 .. BUFFITEMS - 1
  BY DEF Init
<1>3. "NEC" \in Protocol /\ air.carriers = {}
  BY DEF Init, Protocol, Silence, OnAir
<1> QED
  BY <1>1, <1>2, <1>3 DEF Init, TaskInv, TypeOK, Statement

(* One step per statement of a task.                                       *)
LEMMA TaskStep ==
  ASSUME TaskInv, NEW t \in Task, Submit(t) \/ Step(t) \/ WriteItems(t)
  PROVE  TaskInv'
<1> USE TransmitterAssumption DEF TaskInv, TypeOK, Goto, shared, locals, Statement
<1>1. BUFFITEMS \in Nat /\ LenCap \in Nat /\ 0 \in 0 .. LenCap
  BY DEF LenCap
<1>2. CASE Submit(t)
  BY <1>2 DEF Submit
<1>3. CASE SameProtocol(t) \/ OtherProtocol(t)
  BY <1>3 DEF SameProtocol, OtherProtocol
<1>4. ASSUME pc[t] # "idle" PROVE cmd[t] \in Requests /\ cmd[t].protocol \in Protocol
  BY <1>4
<1>5. CASE SetProtocol(t)
  BY <1>4, <1>5 DEF SetProtocol
<1>6. CASE SetCarrier(t)
  BY <1>4, <1>6 DEF SetCarrier
<1>7. CASE Choose(t)
  BY <1>7 DEF Choose, Maker
<1>8. CASE Refuse(t)
  BY <1>1, <1>8 DEF Refuse, Return, Protocol
<1>9. CASE BeginMake(t)
  BY <1>1, <1>9 DEF BeginMake
<1>10. CASE StoreItem(t)
  BY <1>1, <1>10 DEF StoreItem
<1>11. CASE BumpLength(t)
  BY <1>1, <1>11 DEF BumpLength
<1>12. CASE TxDone(t)
  BY <1>1, <1>12 DEF TxDone, Return, Protocol, Silence, OnAir
<1>13. CASE WriteItems(t)
  BY <1>13 DEF WriteItems, OnAir
<1> QED
  BY <1>2, <1>3, <1>5, <1>6, <1>7, <1>8, <1>9, <1>10, <1>11, <1>12, <1>13 DEF Step

(* Every command and interleaving, of any number of tasks, keeps the type. *)
THEOREM TypeCorrect == Spec => []TypeOK
<1>1. TaskInv /\ [Next]_vars => TaskInv'
  <2>1. TaskInv /\ UNCHANGED vars => TaskInv'
    BY DEF TaskInv, TypeOK, vars, shared, locals
  <2> QED
    BY <2>1, TaskStep DEF Next
<1>2. TaskInv => TypeOK
  BY DEF TaskInv
<1> QED
  BY <1>1, <1>2, TaskInit, PTL DEF Spec

-----------------------------------------------------------------------------
(* Calls that do not overlap.                                              *)

(* IRRCInit: no task calls, and the carrier is that of NEC.                *)
LEMMA SerialInit == Init => SerialInv
<1> SUFFICES ASSUME Init PROVE SerialInv
  OBVIOUS
<1>1. \A t \in Task : channel # t /\ pc[t] = "idle"
  BY TransmitterAssumption DEF Init
<1> QED
  BY <1>1, TaskInit DEF Init, SerialInv, ChannelInv, ProtocolInv, CarrierAgrees

(* The others are idle while a task goes on.                               *)
LEMMA SerialStep ==
  ASSUME SerialInv, Serial, Serial', NEW t \in Task, Submit(t) \/ Step(t) \/ WriteItems(t)
  PROVE  SerialInv'
<1> USE DEF TaskInv, TypeOK, ChannelInv, ProtocolInv, CarrierAgrees, Goto, shared, locals
<1>1. TaskInv'
  BY TaskStep DEF SerialInv
<1>2. \A u \in Task : u # t => pc[u] = "idle" /\ pc'[u] = "idle"
  BY <1>1 DEF SerialInv, Serial, Submit, Step, WriteItems, SameProtocol, OtherProtocol,
     SetProtocol, SetCarrier, Choose, Refuse, BeginMake, StoreItem, BumpLength, TxDone, Return
<1>3. t # Nobody /\ (channel = Nobody \/ channel = t \/ channel \in Task)
  BY TransmitterAssumption DEF SerialInv
<1>4. ChannelInv' /\ ProtocolInv' /\ CarrierAgrees'
  <2> USE <1>2, <1>3 DEF SerialInv
  <2>1. CASE Submit(t)
    BY <2>1 DEF Submit
  <2>2. CASE SameProtocol(t) \/ OtherProtocol(t)
    BY <2>2 DEF SameProtocol, OtherProtocol
  <2>3. CASE SetProtocol(t)
    BY <2>3 DEF SetProtocol
  <2>4. CASE SetCarrier(t)
    <3>1. channel = Nobody
      BY <2>4 DEF SetCarrier
    <3>2. protocol = cmd[t].protocol
      BY <2>4 DEF SetCarrier
    <3> QED
      BY <2>4, <3>1, <3>2 DEF SetCarrier
  <2>5. CASE Choose(t)
    BY <2>5 DEF Choose
  <2>6. CASE Refuse(t)
    BY <2>6 DEF Refuse, Return
  <2>7. CASE BeginMake(t)
    BY <2>7 DEF BeginMake
  <2>8. CASE StoreItem(t)
    BY <2>8 DEF StoreItem
  <2>9. CASE BumpLength(t)
    BY <2>9 DEF BumpLength
  <2>10. CASE TxDone(t)
    BY <2>10, TransmitterAssumption DEF TxDone, Return
  <2>11. CASE WriteItems(t)
    BY <2>11 DEF WriteItems
  <2> QED
    BY <2>1, <2>2, <2>3, <2>4, <2>5, <2>6, <2>7, <2>8, <2>9, <2>10, <2>11 DEF Step
<1> QED
  BY <1>1, <1>4 DEF SerialInv

(* The invariant of calls that do not overlap is inductive.                *)
LEMMA SerialNext == SerialInv /\ Serial /\ Serial' /\ [Next]_vars => SerialInv'
<1>1. SerialInv /\ UNCHANGED vars => SerialInv'
  BY DEF SerialInv, TaskInv, TypeOK, ChannelInv, ProtocolInv, CarrierAgrees, vars, shared, locals
<1> QED
  BY <1>1, SerialStep DEF Next

(* IRRCChangeProtocol: when calls do not overlap, the carrier is that of   *)
(* the stored protocol whenever nobody is changing it.                     *)
THEOREM CarrierAgreesSerially == Spec /\ []Serial => []CarrierAgrees
<1>1. SerialInv => CarrierAgrees
  BY DEF SerialInv
<1> QED
  BY <1>1, SerialInit, SerialNext, PTL DEF Spec

-----------------------------------------------------------------------------
(* What is sent.                                                           *)

(* Making items: only these steps touch the buffer of the command.         *)
LEMMA FrameStep ==
  ASSUME IInv, LongestFits, SerialInv', Serial, Serial',
         NEW t \in Task, Submit(t) \/ Step(t) \/ WriteItems(t)
  PROVE  FrameInv'
<1> USE DEF FrameInv, MakerInv, BufferInv, FitsBuffer, FaithfulTransmission, Goto, shared, locals
<1>1. /\ pc \in [Task -> Statement] /\ make \in [Task -> {"makeSendData", "makeSendDataSony"}]
      /\ cmd \in [Task -> Requests \cup {None}] /\ def \in [Task -> Protocol]
      /\ at \in [Task -> Nat] /\ reg \in [Task -> 0 .. LenCap] /\ usedLen \in 0 .. LenCap
      /\ DOMAIN buff = 0 .. BUFFITEMS - 1 /\ BUFFITEMS \in Nat /\ LenCap = BUFFITEMS + 1
  BY TransmitterAssumption DEF IInv, SerialInv, TaskInv, TypeOK, LenCap
<1>2. \A u \in Task : u # t => pc[u] = "idle" /\ pc'[u] = "idle"
  BY <1>1 DEF Serial, Submit, Step, WriteItems, SameProtocol, OtherProtocol,
     SetProtocol, SetCarrier, Choose, Refuse, BeginMake, StoreItem, BumpLength, TxDone, Return
<1>3. ASSUME pc[t] # "idle"
      PROVE  /\ cmd[t] \in Requests
             /\ Len(Frame(cmd[t])) \in Nat \ {0}
             /\ Len(Frame(cmd[t])) = Items(Maker(cmd[t].protocol), cmd[t].protocol, cmd[t])
             /\ WellFormed(cmd[t]) => Len(Frame(cmd[t])) <= BUFFITEMS
             /\ \A k \in 1 .. Len(Frame(cmd[t])) :
                  Frame(cmd[t])[k] = Item(Maker(cmd[t].protocol), cmd[t].protocol, cmd[t], k)
  <2>1. cmd[t] \in Requests
    BY <1>1, <1>3 DEF IInv, SerialInv, TaskInv
  <2> QED
    BY <2>1, FrameItems DEF LongestFits
<1>4. pc[t] \notin {"idle", "check", "setProtocol"} => protocol = cmd[t].protocol
  BY DEF IInv, SerialInv, ProtocolInv
<1>5. CASE Submit(t) \/ SameProtocol(t) \/ OtherProtocol(t) \/ SetProtocol(t)
  <2>1. pc' = [pc EXCEPT ![t] = pc'[t]] /\ pc'[t] \in {"check", "choose", "setProtocol", "setCarrier"}
        /\ UNCHANGED <<buff, usedLen, overrun, air, make, def, at, reg>>
        /\ \A u \in Task : u # t => cmd'[u] = cmd[u]
    BY <1>1, <1>5 DEF Submit, SameProtocol, OtherProtocol, SetProtocol
  <2> QED
    BY <1>1, <1>2, <2>1 DEF IInv
<1>6. CASE SetCarrier(t)
  BY <1>1, <1>2, <1>6 DEF SetCarrier, IInv
<1>7. CASE Choose(t)
  <2>1. /\ pc' = [pc EXCEPT ![t] = "begin"] /\ make' = [make EXCEPT ![t] = Maker(cmd[t].protocol)]
        /\ WellFormed(cmd[t]) /\ UNCHANGED <<shared, cmd, def, at, reg>>
    BY <1>4, <1>7 DEF Choose, WellFormed
  <2>2. Maker(cmd[t].protocol) \in {"makeSendData", "makeSendDataSony"}
    BY DEF Maker
  <2>3. pc'[t] = "begin" /\ make'[t] = Maker(cmd[t].protocol)
    BY <1>1, <2>1
  <2>4. MakerInv' /\ BufferInv' /\ FaithfulTransmission'
    <3> HIDE DEF FaithfulTransmission, BufferInv, MakerInv
    <3>1. MakerInv'
      BY <1>2, <2>1, <2>3 DEF MakerInv
    <3>2. BufferInv'
      BY <1>2, <2>3 DEF BufferInv
    <3>3. FaithfulTransmission'
      BY <1>2, <2>3 DEF FaithfulTransmission
    <3> QED
      BY <3>1, <3>2, <3>3
  <2>5. LongestFits /\ FitsBuffer => FitsBuffer'
    BY <2>1
  <2>6. FrameInv
    BY DEF IInv
  <2> HIDE DEF MakerInv, BufferInv, FaithfulTransmission, FitsBuffer
  <2> QED
    BY <2>4, <2>5, <2>6
<1>8. CASE Refuse(t) \/ TxDone(t)
  <2>1. pc' = [pc EXCEPT ![t] = "idle"] /\ UNCHANGED overrun
    BY <1>8 DEF Refuse, TxDone, Return
  <2>2. \A u \in Task : pc'[u] = "idle"
    BY <1>1, <1>2, <2>1
  <2> QED
    BY <2>1, <2>2 DEF IInv
<1>9. CASE BeginMake(t)
  <2>1. Holds(buff', cmd[t], 0)
    BY DEF Holds
  <2>2. Len(Frame(cmd[t])) \in Nat \ {0} /\ protocol = cmd[t].protocol /\ cmd' = cmd
    BY <1>3, <1>4, <1>9 DEF BeginMake
  <2> QED
    BY <1>1, <1>2, <1>9, <2>1, <2>2 DEF BeginMake, IInv
<1>10. CASE StoreItem(t)
  <2> DEFINE r == cmd[t]
             n == at[t]
  <2>1. /\ pc[t] = "item" /\ pc' = [pc EXCEPT ![t] = "bump"] /\ reg' = [reg EXCEPT ![t] = usedLen]
        /\ UNCHANGED <<usedLen, cmd, make, def, at, air>>
    BY <1>10 DEF StoreItem
  <2>2. /\ n \in 1 .. Len(Frame(r)) /\ usedLen = n - 1 /\ Holds(buff, r, usedLen)
        /\ make[t] = Maker(r.protocol) /\ WellFormed(r) /\ def[t] = r.protocol
    BY <2>1 DEF IInv
  <2>3. /\ Len(Frame(r)) \in Nat /\ Len(Frame(r)) <= BUFFITEMS
        /\ Frame(r)[n] = Item(make[t], def[t], r, n)
    BY <1>3, <2>1, <2>2
  <2>4. usedLen < BUFFITEMS /\ usedLen \in 0 .. BUFFITEMS - 1
    BY <1>1, <2>2, <2>3
  <2>5. buff' = [buff EXCEPT ![usedLen] = Frame(r)[n]] /\ UNCHANGED overrun
    BY <1>10, <2>3, <2>4 DEF StoreItem
  <2>6. Holds(buff', r, n)
    <3>1. ASSUME NEW k \in 1 .. n, k <= BUFFITEMS PROVE buff'[k - 1] = Frame(r)[k]
      <4>1. k - 1 \in 0 .. BUFFITEMS - 1
        BY <1>1, <2>2, <2>3, <3>1
      <4>2. CASE k = n
        BY <1>1, <2>2, <2>4, <2>5, <4>1, <4>2
      <4>3. CASE k # n
        <5>1. k \in 1 .. usedLen /\ k - 1 # usedLen
          BY <2>2, <2>3, <3>1, <4>3
        <5> QED
          BY <1>1, <2>2, <2>5, <3>1, <4>1, <5>1 DEF Holds
      <4> QED
        BY <4>2, <4>3
    <3> QED
      BY <2>1, <3>1 DEF Holds
  <2> QED
    BY <1>1, <1>2, <2>1, <2>2, <2>3, <2>5, <2>6 DEF IInv
<1>11. CASE BumpLength(t)
  <2> DEFINE r == cmd[t]
             n == at[t]
  <2>1. /\ pc[t] = "bump" /\ at' = [at EXCEPT ![t] = n + 1]
        /\ pc' = [pc EXCEPT ![t] = IF n < Items(make[t], def[t], r) THEN "item" ELSE "write"]
        /\ usedLen' = IF reg[t] < LenCap THEN reg[t] + 1 ELSE LenCap
        /\ UNCHANGED <<buff, cmd, make, def, reg, air, overrun>>
    BY <1>11 DEF BumpLength
  <2>2. /\ n \in 1 .. Len(Frame(r)) /\ reg[t] = n - 1 /\ Holds(buff, r, n)
        /\ make[t] = Maker(r.protocol) /\ WellFormed(r) /\ def[t] = r.protocol
    BY <2>1 DEF IInv
  <2>3. /\ Len(Frame(r)) \in Nat /\ Len(Frame(r)) <= BUFFITEMS
        /\ Items(make[t], def[t], r) = Len(Frame(r))
    BY <1>3, <2>1, <2>2
  <2>4. usedLen' = n
    BY <1>1, <2>1, <2>2, <2>3
  <2>5. Holds(buff', r, n)
    BY <2>1, <2>2
  <2>6. CASE n < Len(Frame(r))
    <3>1. pc'[t] = "item" /\ at'[t] = n + 1 /\ n + 1 \in 1 .. Len(Frame(r)) /\ n = (n + 1) - 1
      BY <1>1, <2>1, <2>2, <2>3, <2>6
    <3> QED
      BY <1>1, <1>2, <2>1, <2>2, <2>4, <2>5, <3>1 DEF IInv
  <2>7. CASE ~(n < Len(Frame(r)))
    <3>1. pc'[t] = "write" /\ n = Len(Frame(r))
      BY <1>1, <2>1, <2>2, <2>3, <2>7
    <3> QED
      BY <1>1, <1>2, <2>1, <2>2, <2>4, <2>5, <3>1 DEF IInv
  <2> QED
    BY <2>6, <2>7
<1>12. CASE WriteItems(t)
  <2> DEFINE r == cmd[t]
             sent == [k \in 1 .. usedLen |-> IF k <= BUFFITEMS THEN buff[k - 1] ELSE Garbage]
  <2>1. /\ pc[t] = "write" /\ pc' = [pc EXCEPT ![t] = "wait"] /\ air' = OnAir(sent, {carrier})
        /\ UNCHANGED <<cmd, overrun>>
    BY <1>12 DEF WriteItems
  <2>2. usedLen = Len(Frame(r)) /\ Holds(buff, r, usedLen) /\ WellFormed(r)
    BY <2>1 DEF IInv
  <2>3. carrier = Carrier(r.protocol)
    BY <1>2, <1>4, <2>1 DEF IInv, SerialInv, CarrierAgrees
  <2>4. sent = Frame(r)
    <3>1. usedLen <= BUFFITEMS /\ usedLen \in Nat
      BY <1>3, <2>1, <2>2
    <3>2. \A k \in 1 .. usedLen : sent[k] = Frame(r)[k]
      BY <1>1, <2>2, <3>1 DEF Holds
    <3>3. Frame(r) = [k \in 1 .. usedLen |-> Frame(r)[k]]
      BY <1>3, <2>1, <2>2 DEF Frame
    <3> QED
      BY <3>2, <3>3
  <2> QED
    BY <1>1, <1>2, <2>1, <2>3, <2>4 DEF IInv
<1> QED
  BY <1>5, <1>6, <1>7, <1>8, <1>9, <1>10, <1>11, <1>12 DEF Step

(* No task has made an item yet.                                           *)
LEMMA FrameInit == Init => FrameInv
BY DEF Init, FrameInv, MakerInv, BufferInv, FitsBuffer, FaithfulTransmission

(* The whole invariant is inductive, where calls do not overlap.           *)
LEMMA FrameNext == IInv /\ LongestFits /\ Serial /\ Serial' /\ [Next]_vars => IInv'
<1>1. IInv /\ UNCHANGED vars => FrameInv'
  <2> SUFFICES ASSUME IInv, UNCHANGED vars PROVE FrameInv'
    OBVIOUS
  <2>1. UNCHANGED <<protocol, buff, usedLen, overrun, air, pc, cmd, make, def, at, reg>>
    BY DEF vars, shared, locals
  <2>2. FrameInv
    BY DEF IInv
  <2>3. MakerInv' /\ FitsBuffer' /\ FaithfulTransmission'
    BY <2>1, <2>2 DEF FrameInv, MakerInv, FitsBuffer, FaithfulTransmission
  <2>4. BufferInv'
    BY <2>1, <2>2 DEF FrameInv, BufferInv
  <2> QED
    BY <2>3, <2>4 DEF FrameInv
<1>2. SerialInv /\ Serial /\ Serial' /\ [Next]_vars => SerialInv'
  BY SerialNext
<1> QED
  BY <1>1, <1>2, FrameStep DEF Next, IInv

(* makeSendData and makeSendDataSony: with calls that do not overlap, and  *)
(* a buffer as long as the longest frame, the invariant holds.             *)
THEOREM Invariance == LongestFits => (Spec /\ []Serial => []IInv)
<1> SUFFICES ASSUME LongestFits PROVE Spec /\ []Serial => []IInv
  OBVIOUS
<1>1. Init => IInv
  BY SerialInit, FrameInit DEF IInv
<1>2. IInv /\ Serial /\ Serial' /\ [Next]_vars => IInv'
  BY FrameNext
<1> QED
  BY <1>1, <1>2, PTL DEF Spec

(* No item is written behind the end of the buffer.                        *)
THEOREM FitsSerially == LongestFits => (Spec /\ []Serial => []FitsBuffer)
<1>1. IInv => FitsBuffer
  BY DEF IInv, FrameInv
<1> QED
  BY <1>1, Invariance, PTL

(* IRRCSend: what the channel sends for a task is the frame of its own     *)
(* command, whole, on the carrier of its format.                           *)
THEOREM FaithfulSerially == LongestFits => (Spec /\ []Serial => []FaithfulTransmission)
<1>1. IInv => FaithfulTransmission
  BY DEF IInv, FrameInv
<1> QED
  BY <1>1, Invariance, PTL

-----------------------------------------------------------------------------
(* The refinement.                                                         *)

(* Both specifications speak of the same frames.                           *)
LEMMA SameFrames ==
  /\ \A r : Atomic!Frame(r) = Frame(r) /\ (Atomic!WellFormed(r) <=> WellFormed(r))
  /\ \A items, carriers : Atomic!OnAir(items, carriers) = OnAir(items, carriers)
  /\ \A p : Atomic!Carrier(p) = Carrier(p)
  /\ Atomic!Silence = Silence
BY DEF Atomic!Frame, Frame, Atomic!WellFormed, WellFormed, Atomic!OnAir, OnAir,
       Atomic!Carrier, Carrier, Atomic!Silence, Silence, Atomic!Items, Items,
       Atomic!Item, Item, Atomic!DataItems, DataItems, Atomic!Maker, Maker,
       Atomic!NeedTrailer, NeedTrailer, Atomic!Accepts, Accepts

(* What is still to be sent.                                               *)
Pending == [t \in Task |-> IF pc[t] = "wait" THEN None ELSE cmd[t]]

(* Each step is the one of AtomicTransmitter that the hand-over of the     *)
(* items, the refusal or the end of the frame is, or changes nothing.      *)
LEMMA StepRefines ==
  ASSUME IInv, IInv', Serial, Serial',
         NEW t \in Task, Submit(t) \/ Step(t) \/ WriteItems(t)
  PROVE  Atomic!Next \/ UNCHANGED <<Pending, air>>
<1> USE DEF Goto, shared, locals
<1>1. /\ pc \in [Task -> Statement] /\ cmd \in [Task -> Requests \cup {None}]
      /\ None \notin Requests
      /\ \A u \in Task : pc[u] = "idle" <=> cmd[u] = None
  BY TransmitterAssumption DEF IInv, SerialInv, TaskInv, TypeOK
<1>2. \A u \in Task : u # t => pc[u] = "idle"
  BY <1>1 DEF Serial, Submit, Step, WriteItems, SameProtocol, OtherProtocol,
     SetProtocol, SetCarrier, Choose, Refuse, BeginMake, StoreItem, BumpLength, TxDone, Return
<1>3. pc[t] \notin {"idle", "check", "setProtocol"} => protocol = cmd[t].protocol
  BY DEF IInv, SerialInv, ProtocolInv
<1>4. /\ Pending = [u \in Task |-> Pending[u]]
      /\ \A u \in Task : Pending[u] = IF pc[u] = "wait" THEN None ELSE cmd[u]
  BY DEF Pending
<1>5. CASE Submit(t)
  <2>1. PICK r \in Requests : cmd' = [cmd EXCEPT ![t] = r]
    BY <1>5 DEF Submit
  <2>2. Pending[t] = None /\ Pending' = [Pending EXCEPT ![t] = r] /\ UNCHANGED air
    BY <1>1, <1>5, <2>1 DEF Submit, Pending
  <2>3. Atomic!Submit(t, r)
    BY <2>2 DEF Atomic!Submit, Pending
  <2> QED
    BY <2>3 DEF Atomic!Next
<1>6. CASE SameProtocol(t) \/ OtherProtocol(t) \/ SetProtocol(t) \/ Choose(t) \/ BeginMake(t)
           \/ StoreItem(t)
  BY <1>1, <1>6 DEF SameProtocol, OtherProtocol, SetProtocol, Choose, BeginMake, StoreItem, Pending
<1>7. CASE BumpLength(t)
  BY <1>1, <1>7 DEF BumpLength, Pending
<1>8. CASE SetCarrier(t)
  <2>1. channel = Nobody
    BY <1>2, <1>8, TransmitterAssumption DEF SetCarrier, IInv, SerialInv, TaskInv, TypeOK, ChannelInv
  <2> QED
    BY <1>1, <1>8, <2>1 DEF SetCarrier, Pending
<1>9. CASE Refuse(t)
  <2>1. Pending[t] = cmd[t] /\ cmd[t] # None /\ ~WellFormed(cmd[t]) /\ UNCHANGED air
    BY <1>1, <1>3, <1>4, <1>9 DEF Refuse, Return, WellFormed
  <2>2. Pending' = [Pending EXCEPT ![t] = None]
    BY <1>1, <1>9 DEF Refuse, Return, Pending
  <2>3. Atomic!Refuse(t)
    BY <2>1, <2>2, SameFrames DEF Atomic!Refuse, Pending
  <2> QED
    BY <2>3 DEF Atomic!Next
<1>10. CASE WriteItems(t)
  <2>1. Pending[t] = cmd[t] /\ cmd[t] # None /\ WellFormed(cmd[t]) /\ cmd' = cmd
    BY <1>1, <1>4, <1>10 DEF WriteItems, IInv, FrameInv, MakerInv
  <2>2. air = Silence
    BY <1>10 DEF WriteItems, IInv, SerialInv, ChannelInv
  <2>3. air' = OnAir(Frame(cmd[t]), {Carrier(cmd[t].protocol)})
    <3>1. pc'[t] = "wait"
      BY <1>1, <1>10 DEF WriteItems
    <3> QED
      BY <2>1, <3>1 DEF IInv, FrameInv, FaithfulTransmission
  <2>4. Pending' = [Pending EXCEPT ![t] = None]
    BY <1>1, <1>10 DEF WriteItems, Pending
  <2>5. Atomic!Transmit(t)
    BY <2>1, <2>2, <2>3, <2>4, SameFrames DEF Atomic!Transmit, Pending
  <2> QED
    BY <2>5 DEF Atomic!Next
<1>11. CASE TxDone(t)
  <2>1. air' = Silence /\ UNCHANGED Pending
    BY <1>1, <1>11 DEF TxDone, Return, Pending
  <2> QED
    BY <2>1, SameFrames DEF Atomic!Next, Atomic!Finish, Pending
<1> QED
  BY <1>5, <1>6, <1>7, <1>8, <1>9, <1>10, <1>11 DEF Step

(* IRRCChangeProtocol and IRRCSend together are one step, as long as the   *)
(* calls of the tasks do not overlap: they implement AtomicTransmitter.    *)
THEOREM SerialIsAtomic == LongestFits => (Spec /\ []Serial => ImplementsAtomic)
<1> SUFFICES ASSUME LongestFits PROVE Spec /\ []Serial => ImplementsAtomic
  OBVIOUS
<1>1. Init => Atomic!Init
  BY SameFrames DEF Init, Atomic!Init
<1>2. IInv /\ IInv' /\ Serial /\ Serial' /\ [Next]_vars => [Atomic!Next]_<<Pending, air>>
  <2>1. UNCHANGED vars => UNCHANGED <<Pending, air>>
    BY DEF vars, shared, locals, Pending
  <2> QED
    BY <2>1, StepRefines DEF Next
<1>3. Spec /\ []Serial => []IInv
  BY Invariance
<1> QED
  BY <1>1, <1>2, <1>3, PTL DEF Spec, ImplementsAtomic, Atomic!Spec, Pending
=============================================================================
