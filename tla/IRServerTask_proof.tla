------------------------- MODULE IRServerTask_proof -------------------------
(***************************************************************************)
(* The pool of the IR server is safe for every number of slots,            *)
(* descriptors and clients: IInv of IRServerTask is inductive, and the     *)
(* safety properties that the runs check follow from it.                   *)
(***************************************************************************)
EXTENDS IRServerTask, TaskLists_proof

USE PoolAssumption DEF Slot, Acceptor, Nobody, NoTask

(* A list that is not empty has its first task linked.                     *)
LEMMA HeadIsLinked ==
  ASSUME NEW S, NEW q \in Seq(S), q # <<>>
  PROVE  Head(q) \in S /\ Linked(q, Head(q))
<1>1. Len(q) \in Nat \ {0} /\ DOMAIN q = 1 .. Len(q)
  BY EmptySeq, LenProperties
<1>2. Head(q) = q[1] /\ Head(q) \in S
  BY <1>1, HeadTailProperties
<1> QED
  BY <1>1, <1>2 DEF Linked

(* Ownership is kept by a step that opens, closes and hands over nothing.  *)
LEMMA OwnershipStable ==
  ASSUME TypeOK, SocketOwnership, open' = open,
         \A h \in Thread, c \in Conns : Holds(h, c)' <=> Holds(h, c)
  PROVE  SocketOwnership'
<1>1. open \subseteq Conns
  BY DEF TypeOK
<1> QED
  BY <1>1 DEF SocketOwnership

-----------------------------------------------------------------------------
(* Every action keeps the inductive invariant.                             *)

(* The constructor links slot i, the next number.                          *)
LEMMA ConstructorAddStep ==
  ASSUME IInv, ConstructorAdd
  PROVE  IInv'
<1>1. TypeOK'
  <2>1. lists' = [lists EXCEPT !["free"] = Append(@, Len(@) + 1)]
    BY DEF IInv, TypeOK, ConstructorAdd, AddTo
  <2>2. Len(lists["free"]) + 1 \in Slot
    BY LenProperties DEF IInv, TypeOK, ConstructorAdd
  <2>3. Append(lists["free"], Len(lists["free"]) + 1) \in Seq(Slot)
    BY <2>2, LinkedAppend DEF IInv, TypeOK
  <2> QED
    BY <2>1, <2>3 DEF IInv, TypeOK, ConstructorAdd, acceptorVars, slotVars, netVars
<1>2. MutexInv'
  BY DEF IInv, TypeOK, MutexInv, AcceptorInv, ConstructorAdd, Thread,
         SlotPCs, acceptorVars, slotVars, netVars
<1>3. AcceptorInv'
  BY DEF IInv, TypeOK, MutexInv, AcceptorInv, ListInv, ConstructorAdd,
         acceptorVars, slotVars, netVars
<1>4. ListInv'
  <2> DEFINE q == lists["free"]
             n == Len(q) + 1
  <2>1. q \in Seq(Slot) /\ n \in Slot /\ Len(q) \in Nat
    BY LenProperties DEF IInv, TypeOK, ConstructorAdd
  <2>2. \A s \in Slot : Linked(q, s) <=> s <= Len(q)
    BY DEF IInv, ListInv, ConstructorAdd
  <2>3. lists'["free"] = Append(q, n) /\ lists'["running"] = lists["running"]
    BY DEF IInv, TypeOK, ConstructorAdd, AddTo
  <2> HIDE DEF q, n
  <2>4. ~Linked(q, n)
    BY <2>1, <2>2 DEF n
  <2>5. /\ Len(Append(q, n)) = n
        /\ Distinct(q) => Distinct(Append(q, n))
        /\ \A s \in Slot : Linked(Append(q, n), s) <=> s <= n
    BY <2>1, <2>2, <2>4, LinkedAppend DEF n
  <2> QED
    BY <2>1, <2>3, <2>5
    DEF IInv, ListInv, ConstructorAdd, acceptorVars, slotVars, SetUp, q, n
<1>5. SlotInv'
  BY DEF IInv, TypeOK, MutexInv, AcceptorInv, SlotInv, ConstructorAdd,
         acceptorVars, slotVars, netVars
<1>6. BacklogInv'
  BY DEF IInv, BacklogInv, ConstructorAdd, acceptorVars, slotVars, netVars
<1>7. SocketOwnership'
  <2>1. \A h \in Thread, c \in Conns : Holds(h, c)' <=> Holds(h, c)
    BY DEF Holds, IInv, TypeOK, AcceptorInv, SlotInv, ConstructorAdd, acceptorVars, slotVars, netVars
  <2> QED
    BY <2>1, OwnershipStable DEF IInv, ConstructorAdd, acceptorVars, slotVars, netVars
<1> QED
  BY <1>1, <1>2, <1>3, <1>4, <1>5, <1>6, <1>7 DEF IInv

(* The lists are complete when the loop starts.                            *)
LEMMA InitSocketStep ==
  ASSUME IInv, InitSocket
  PROVE  IInv'
<1>1. TypeOK'
  BY DEF IInv, TypeOK, InitSocket, AcceptorPCs, SlotPCs, Thread, slotVars,
         netVars
<1>2. MutexInv'
  BY DEF IInv, TypeOK, MutexInv, AcceptorInv, InitSocket, Thread, SlotPCs,
         slotVars, netVars
<1>3. AcceptorInv'
  BY DEF IInv, TypeOK, MutexInv, AcceptorInv, ListInv, InitSocket, slotVars,
         netVars
<1>4. ListInv'
  <2>1. \A s \in Slot : Linked(lists["free"], s) /\ spc[s] = "idle" /\ task # s
    BY DEF IInv, ListInv, AcceptorInv, InitSocket
  <2> QED
    BY <2>1 DEF IInv, ListInv, InitSocket, slotVars, SetUp
<1>5. SlotInv'
  BY DEF IInv, TypeOK, MutexInv, AcceptorInv, SlotInv, InitSocket, slotVars,
         netVars
<1>6. BacklogInv'
  BY DEF IInv, BacklogInv, InitSocket, slotVars, netVars
<1>7. SocketOwnership'
  <2>1. \A h \in Thread, c \in Conns : Holds(h, c)' <=> Holds(h, c)
    BY DEF Holds, IInv, TypeOK, AcceptorInv, SlotInv, InitSocket, slotVars, netVars
  <2> QED
    BY <2>1, OwnershipStable DEF IInv, InitSocket, slotVars, netVars
<1> QED
  BY <1>1, <1>2, <1>3, <1>4, <1>5, <1>6, <1>7 DEF IInv

(* The oldest connection of the backlog passes to the acceptor.            *)
LEMMA AcceptStep ==
  ASSUME IInv, Accept
  PROVE  IInv'
<1>1. TypeOK'
  <2>1. Head(backlog) \in Conns /\ Tail(backlog) \in Seq(Conns)
    BY HeadTailProperties DEF IInv, TypeOK, Accept
  <2> QED
    BY <2>1 DEF IInv, TypeOK, Accept, AcceptorPCs, slotVars
<1>2. MutexInv'
  BY DEF IInv, TypeOK, MutexInv, AcceptorInv, Accept, Thread, SlotPCs,
         slotVars
<1>3. AcceptorInv'
  BY DEF IInv, TypeOK, MutexInv, AcceptorInv, ListInv, Accept, slotVars
<1>4. ListInv'
  BY DEF IInv, TypeOK, MutexInv, AcceptorInv, ListInv, SetUp, Accept,
         slotVars
<1>5. SlotInv'
  BY DEF IInv, TypeOK, MutexInv, AcceptorInv, SlotInv, Accept, slotVars
<1>6. BacklogInv'
  <2>1. /\ Tail(backlog) \in Seq(Conns) /\ Len(Tail(backlog)) = Len(backlog) - 1
        /\ \A i \in 1 .. Len(Tail(backlog)) : Tail(backlog)[i] = backlog[i + 1]
    BY HeadTailProperties DEF IInv, TypeOK, Accept
  <2>2. /\ Len(backlog) \in Nat \ {0} /\ DOMAIN backlog = 1 .. Len(backlog)
        /\ DOMAIN Tail(backlog) = 1 .. Len(backlog) - 1
    BY <2>1, LenProperties, EmptySeq DEF IInv, TypeOK, Accept
  <2>3. Distinct(Tail(backlog))
    BY <2>1, <2>2 DEF IInv, BacklogInv, Distinct
  <2>4. Head(backlog) = backlog[1]
    BY <2>2 DEF IInv, TypeOK
  <2>5. \A i \in DOMAIN Tail(backlog) :
          Tail(backlog)[i] \notin open /\ Tail(backlog)[i] # Head(backlog)
    BY <2>1, <2>2, <2>4 DEF IInv, BacklogInv, Distinct
  <2> QED
    BY <2>3, <2>5 DEF BacklogInv, Accept
<1>7. SocketOwnership'
  <2> DEFINE b == Head(backlog)
  <2>1. b \in Conns /\ b \notin open
    <3>1. b \in Conns /\ backlog[1] = b /\ 1 \in DOMAIN backlog
      BY HeadTailProperties, LenProperties, EmptySeq DEF IInv, TypeOK, Accept
    <3> QED
      BY <3>1 DEF IInv, BacklogInv
  <2> HIDE DEF b
  <2>2. \A h \in Thread : ~Holds(h, b)
    BY <2>1 DEF IInv, SocketOwnership
  <2>3. \A h \in Thread, c \in Conns :
          Holds(h, c)' <=> Holds(h, c) \/ (h = Acceptor /\ c = b)
    BY <2>1 DEF Holds, IInv, AcceptorInv, Accept, slotVars, Thread, b
  <2>4. open' = open \cup {b} /\ Acceptor \in Thread
    BY DEF Accept, Thread, b
  <2> QED
    BY <2>1, <2>2, <2>3, <2>4 DEF IInv, TypeOK, SocketOwnership
<1> QED
  BY <1>1, <1>2, <1>3, <1>4, <1>5, <1>6, <1>7 DEF IInv

(* The oldest connection of the backlog is lost.                           *)
LEMMA AcceptFailsStep ==
  ASSUME IInv, AcceptFails
  PROVE  IInv'
<1>1. TypeOK'
  BY DEF IInv, TypeOK, AcceptFails, AcceptorPCs, SlotPCs, Thread,
         acceptorVars, slotVars
<1>2. MutexInv'
  BY DEF IInv, TypeOK, MutexInv, AcceptorInv, AcceptFails, Thread, SlotPCs,
         acceptorVars, slotVars
<1>3. AcceptorInv'
  BY DEF IInv, TypeOK, MutexInv, AcceptorInv, ListInv, AcceptFails,
         acceptorVars, slotVars
<1>4. ListInv'
  BY DEF IInv, TypeOK, MutexInv, AcceptorInv, ListInv, SetUp, AcceptFails,
         acceptorVars, slotVars
<1>5. SlotInv'
  BY DEF IInv, TypeOK, MutexInv, AcceptorInv, SlotInv, AcceptFails,
         acceptorVars, slotVars
<1>6. BacklogInv'
  <2>1. /\ Tail(backlog) \in Seq(Conns) /\ Len(Tail(backlog)) = Len(backlog) - 1
        /\ \A i \in 1 .. Len(Tail(backlog)) : Tail(backlog)[i] = backlog[i + 1]
    BY HeadTailProperties DEF IInv, TypeOK, AcceptFails
  <2>2. /\ Len(backlog) \in Nat \ {0} /\ DOMAIN backlog = 1 .. Len(backlog)
        /\ DOMAIN Tail(backlog) = 1 .. Len(backlog) - 1
    BY <2>1, LenProperties, EmptySeq DEF IInv, TypeOK, AcceptFails
  <2>3. Distinct(Tail(backlog))
    BY <2>1, <2>2 DEF IInv, BacklogInv, Distinct
  <2> QED
    BY <2>1, <2>2, <2>3 DEF IInv, BacklogInv, AcceptFails
<1>7. SocketOwnership'
  <2>1. \A h \in Thread, c \in Conns : Holds(h, c)' <=> Holds(h, c)
    BY DEF Holds, IInv, TypeOK, AcceptorInv, SlotInv, AcceptFails, acceptorVars, slotVars
  <2> QED
    BY <2>1, OwnershipStable DEF IInv, AcceptFails, acceptorVars, slotVars
<1> QED
  BY <1>1, <1>2, <1>3, <1>4, <1>5, <1>6, <1>7 DEF IInv

(* The locals and the lists keep their relation.                           *)
LEMMA AcceptOnNoSocketStep ==
  ASSUME IInv, AcceptOnNoSocket
  PROVE  IInv'
BY DEF AcceptOnNoSocket, vars, IInv, TypeOK, MutexInv, AcceptorInv, ListInv, SlotInv,
       BacklogInv, SocketOwnership, Holds, SetUp

(* The locals and the lists keep their relation.                           *)
LEMMA AcceptorLockStep ==
  ASSUME IInv, AcceptorLock
  PROVE  IInv'
<1>1. TypeOK'
  BY DEF IInv, TypeOK, AcceptorLock, AcceptorPCs, SlotPCs, Thread, slotVars,
         netVars
<1>2. MutexInv'
  BY DEF IInv, TypeOK, MutexInv, AcceptorInv, AcceptorLock, Thread, SlotPCs,
         slotVars, netVars
<1>3. AcceptorInv'
  BY DEF IInv, TypeOK, MutexInv, AcceptorInv, ListInv, AcceptorLock,
         slotVars, netVars
<1>4. ListInv'
  BY DEF IInv, TypeOK, MutexInv, AcceptorInv, ListInv, SetUp, AcceptorLock,
         slotVars, netVars
<1>5. SlotInv'
  BY DEF IInv, TypeOK, MutexInv, AcceptorInv, SlotInv, AcceptorLock,
         slotVars, netVars
<1>6. BacklogInv'
  BY DEF IInv, BacklogInv, AcceptorLock, slotVars, netVars
<1>7. SocketOwnership'
  <2>1. \A h \in Thread, c \in Conns : Holds(h, c)' <=> Holds(h, c)
    BY DEF Holds, IInv, TypeOK, AcceptorInv, SlotInv, AcceptorLock, slotVars, netVars
  <2> QED
    BY <2>1, OwnershipStable DEF IInv, AcceptorLock, slotVars, netVars
<1> QED
  BY <1>1, <1>2, <1>3, <1>4, <1>5, <1>6, <1>7 DEF IInv

(* The head of the free list is a slot without a thread.                   *)
LEMMA GetFirstStep ==
  ASSUME IInv, GetFirst
  PROVE  IInv'
<1>1. TypeOK'
  <2>1. Head(lists["free"]) \in Slot
    BY HeadIsLinked DEF IInv, TypeOK, GetFirst
  <2> QED
    BY <2>1 DEF IInv, TypeOK, GetFirst, AcceptorPCs, slotVars, netVars
<1>2. MutexInv'
  BY DEF IInv, TypeOK, MutexInv, AcceptorInv, GetFirst, Thread, SlotPCs,
         slotVars, netVars
<1>3. AcceptorInv'
  <2>1. Head(lists["free"]) \in Slot /\ Linked(lists["free"], Head(lists["free"]))
    BY HeadIsLinked DEF IInv, TypeOK, GetFirst
  <2> QED
    BY <2>1 DEF IInv, ListInv, AcceptorInv, GetFirst, slotVars
<1>4. ListInv'
  BY DEF IInv, TypeOK, MutexInv, AcceptorInv, ListInv, SetUp, GetFirst,
         slotVars, netVars
<1>5. SlotInv'
  BY DEF IInv, TypeOK, MutexInv, AcceptorInv, SlotInv, GetFirst, slotVars,
         netVars
<1>6. BacklogInv'
  BY DEF IInv, BacklogInv, GetFirst, slotVars, netVars
<1>7. SocketOwnership'
  <2>1. \A h \in Thread, c \in Conns : Holds(h, c)' <=> Holds(h, c)
    BY DEF Holds, IInv, TypeOK, AcceptorInv, SlotInv, GetFirst, slotVars, netVars
  <2> QED
    BY <2>1, OwnershipStable DEF IInv, GetFirst, slotVars, netVars
<1> QED
  BY <1>1, <1>2, <1>3, <1>4, <1>5, <1>6, <1>7 DEF IInv

(* The locals and the lists keep their relation.                           *)
LEMMA GetNoneStep ==
  ASSUME IInv, GetNone
  PROVE  IInv'
<1>1. TypeOK'
  BY DEF IInv, TypeOK, GetNone, AcceptorPCs, SlotPCs, Thread, slotVars,
         netVars
<1>2. MutexInv'
  BY DEF IInv, TypeOK, MutexInv, AcceptorInv, GetNone, Thread, SlotPCs,
         slotVars, netVars
<1>3. AcceptorInv'
  BY DEF IInv, TypeOK, MutexInv, AcceptorInv, ListInv, GetNone, slotVars,
         netVars
<1>4. ListInv'
  BY DEF IInv, TypeOK, MutexInv, AcceptorInv, ListInv, SetUp, GetNone,
         slotVars, netVars
<1>5. SlotInv'
  BY DEF IInv, TypeOK, MutexInv, AcceptorInv, SlotInv, GetNone, slotVars,
         netVars
<1>6. BacklogInv'
  BY DEF IInv, BacklogInv, GetNone, slotVars, netVars
<1>7. SocketOwnership'
  <2>1. \A h \in Thread, c \in Conns : Holds(h, c)' <=> Holds(h, c)
    BY DEF Holds, IInv, TypeOK, AcceptorInv, SlotInv, GetNone, slotVars, netVars
  <2> QED
    BY <2>1, OwnershipStable DEF IInv, GetNone, slotVars, netVars
<1> QED
  BY <1>1, <1>2, <1>3, <1>4, <1>5, <1>6, <1>7 DEF IInv

(* The slot leaves the free list and is in transit.                        *)
LEMMA RemoveFreeStep ==
  ASSUME IInv, RemoveFree
  PROVE  IInv'
<1>1. TypeOK'
  <2>1. Unlink(lists["free"], task) \in Seq(Slot)
    BY LinkedUnlink DEF IInv, TypeOK, ListInv, AcceptorInv, SetUp, RemoveFree
  <2> QED
    BY <2>1 DEF IInv, TypeOK, RemoveFree, RemoveFrom, AcceptorPCs, SlotPCs, slotVars, netVars
<1>2. MutexInv'
  BY DEF IInv, TypeOK, MutexInv, AcceptorInv, RemoveFree, Thread, SlotPCs,
         slotVars, netVars
<1>3. AcceptorInv'
  BY DEF IInv, TypeOK, MutexInv, AcceptorInv, ListInv, RemoveFree, slotVars,
         netVars
<1>4. ListInv'
  <2>1. /\ Linked(lists["free"], task) /\ Distinct(lists["free"])
        /\ lists["free"] \in Seq(Slot)
    BY DEF IInv, TypeOK, ListInv, AcceptorInv, SetUp, RemoveFree
  <2>2. /\ lists'["free"] = Unlink(lists["free"], task)
        /\ lists'["running"] = lists["running"]
    BY DEF IInv, TypeOK, RemoveFree, RemoveFrom
  <2>3. /\ Distinct(lists'["free"])
        /\ \A u \in Slot : Linked(lists'["free"], u) <=>
             Linked(lists["free"], u) /\ u # task
    BY <2>1, <2>2, LinkedUnlink
  <2> QED
    BY <2>2, <2>3
    DEF IInv, TypeOK, AcceptorInv, MutexInv, ListInv, SetUp, RemoveFree, slotVars, netVars
<1>5. SlotInv'
  BY DEF IInv, TypeOK, MutexInv, AcceptorInv, SlotInv, RemoveFree, slotVars,
         netVars
<1>6. BacklogInv'
  BY DEF IInv, BacklogInv, RemoveFree, slotVars, netVars
<1>7. SocketOwnership'
  <2>1. \A h \in Thread, c \in Conns : Holds(h, c)' <=> Holds(h, c)
    BY DEF Holds, IInv, TypeOK, AcceptorInv, SlotInv, RemoveFree, slotVars, netVars
  <2> QED
    BY <2>1, OwnershipStable DEF IInv, RemoveFree, slotVars, netVars
<1> QED
  BY <1>1, <1>2, <1>3, <1>4, <1>5, <1>6, <1>7 DEF IInv

(* The slot in transit enters the running list.                            *)
LEMMA AddRunningStep ==
  ASSUME IInv, AddRunning
  PROVE  IInv'
<1>1. TypeOK'
  <2>1. Append(lists["running"], task) \in Seq(Slot)
    BY LinkedAppend DEF IInv, TypeOK, AcceptorInv, AddRunning
  <2> QED
    BY <2>1 DEF IInv, TypeOK, AddRunning, AddTo, AcceptorPCs, SlotPCs, slotVars, netVars
<1>2. MutexInv'
  BY DEF IInv, TypeOK, MutexInv, AcceptorInv, AddRunning, Thread, SlotPCs,
         slotVars, netVars
<1>3. AcceptorInv'
  BY DEF IInv, TypeOK, MutexInv, AcceptorInv, ListInv, AddRunning, slotVars,
         netVars
<1>4. ListInv'
  <2>1. /\ task \in Slot /\ ~Linked(lists["running"], task)
        /\ Distinct(lists["running"]) /\ lists["running"] \in Seq(Slot)
    BY DEF IInv, TypeOK, ListInv, AcceptorInv, SetUp, AddRunning
  <2>2. /\ lists'["running"] = Append(lists["running"], task)
        /\ lists'["free"] = lists["free"]
    BY DEF IInv, TypeOK, AddRunning, AddTo
  <2>3. /\ Distinct(lists'["running"])
        /\ \A u \in Slot : Linked(lists'["running"], u) <=>
             Linked(lists["running"], u) \/ u = task
    BY <2>1, <2>2, LinkedAppend
  <2> QED
    BY <2>2, <2>3
    DEF IInv, TypeOK, AcceptorInv, MutexInv, ListInv, SetUp, AddRunning, slotVars, netVars
<1>5. SlotInv'
  BY DEF IInv, TypeOK, MutexInv, AcceptorInv, SlotInv, AddRunning, slotVars,
         netVars
<1>6. BacklogInv'
  BY DEF IInv, BacklogInv, AddRunning, slotVars, netVars
<1>7. SocketOwnership'
  <2>1. \A h \in Thread, c \in Conns : Holds(h, c)' <=> Holds(h, c)
    BY DEF Holds, IInv, TypeOK, AcceptorInv, SlotInv, AddRunning, slotVars, netVars
  <2> QED
    BY <2>1, OwnershipStable DEF IInv, AddRunning, slotVars, netVars
<1> QED
  BY <1>1, <1>2, <1>3, <1>4, <1>5, <1>6, <1>7 DEF IInv

(* The slot takes the connection over from the acceptor.                   *)
LEMMA SetSocketStep ==
  ASSUME IInv, SetSocket
  PROVE  IInv'
<1>1. TypeOK'
  BY DEF IInv, TypeOK, SetSocket, AcceptorPCs, SlotPCs, Thread, netVars
<1>2. MutexInv'
  BY DEF IInv, TypeOK, MutexInv, AcceptorInv, SetSocket, Thread, SlotPCs,
         netVars
<1>3. AcceptorInv'
  BY DEF IInv, TypeOK, MutexInv, AcceptorInv, ListInv, SetSocket, netVars
<1>4. ListInv'
  BY DEF IInv, TypeOK, MutexInv, AcceptorInv, ListInv, SetUp, SetSocket,
         netVars
<1>5. SlotInv'
  BY DEF IInv, TypeOK, MutexInv, AcceptorInv, SlotInv, SetSocket, netVars
<1>6. BacklogInv'
  BY DEF IInv, BacklogInv, SetSocket, netVars
<1>7. SocketOwnership'
  <2>1. task \in Slot /\ newfd \in Conns /\ newfd \in open /\ sockfd[task] = NoFd
    BY DEF IInv, TypeOK, AcceptorInv, SlotInv, SocketOwnership, Holds, Thread,
           SetSocket
  <2>2. \A c \in Conns : Holds(Acceptor, c) <=> c = newfd
    BY <2>1 DEF Holds, SetSocket
  <2>3. \A h \in Thread, c \in Conns : Holds(h, c)' <=>
          IF c = newfd THEN h = task ELSE Holds(h, c)
    <3>1. \A h \in Slot : ~Holds(h, newfd)
      BY <2>1, <2>2 DEF IInv, SocketOwnership, Thread
    <3>2. spc[task] = "idle"
      BY <2>1 DEF IInv, AcceptorInv
    <3> QED
      BY <2>1, <3>1, <3>2 DEF Holds, IInv, TypeOK, SetSocket, Thread
  <2>4. open' = open /\ task \in Thread
    BY <2>1 DEF SetSocket, netVars, Thread
  <2> QED
    BY <2>1, <2>3, <2>4 DEF IInv, TypeOK, SocketOwnership
<1> QED
  BY <1>1, <1>2, <1>3, <1>4, <1>5, <1>6, <1>7 DEF IInv

(* The slot's thread exists from now on.                                   *)
LEMMA StartStep ==
  ASSUME IInv, Start
  PROVE  IInv'
<1>1. TypeOK'
  BY DEF IInv, TypeOK, Start, AcceptorPCs, SlotPCs, Thread, netVars
<1>2. MutexInv'
  BY DEF IInv, TypeOK, MutexInv, AcceptorInv, Start, Thread, SlotPCs,
         netVars
<1>3. AcceptorInv'
  BY DEF IInv, TypeOK, MutexInv, AcceptorInv, ListInv, Start, netVars
<1>4. ListInv'
  BY DEF IInv, TypeOK, MutexInv, AcceptorInv, ListInv, SetUp, Start, netVars
<1>5. SlotInv'
  BY DEF IInv, TypeOK, MutexInv, AcceptorInv, SlotInv, Start, netVars
<1>6. BacklogInv'
  BY DEF IInv, BacklogInv, Start, netVars
<1>7. SocketOwnership'
  <2>1. \A h \in Thread, c \in Conns : Holds(h, c)' <=> Holds(h, c)
    BY DEF Holds, IInv, TypeOK, AcceptorInv, SlotInv, Start, netVars
  <2> QED
    BY <2>1, OwnershipStable DEF IInv, Start, netVars
<1> QED
  BY <1>1, <1>2, <1>3, <1>4, <1>5, <1>6, <1>7 DEF IInv

(* The connection is nobody's from now on, and not counted open.           *)
LEMMA BusyStep ==
  ASSUME IInv, Busy
  PROVE  IInv'
<1>1. TypeOK'
  BY DEF IInv, TypeOK, Busy, AcceptorPCs, SlotPCs, Thread, slotVars
<1>2. MutexInv'
  BY DEF IInv, TypeOK, MutexInv, AcceptorInv, Busy, Thread, SlotPCs,
         slotVars
<1>3. AcceptorInv'
  BY DEF IInv, TypeOK, MutexInv, AcceptorInv, ListInv, Busy, slotVars
<1>4. ListInv'
  BY DEF IInv, TypeOK, MutexInv, AcceptorInv, ListInv, SetUp, Busy, slotVars
<1>5. SlotInv'
  BY DEF IInv, TypeOK, MutexInv, AcceptorInv, SlotInv, Busy, slotVars
<1>6. BacklogInv'
  BY DEF IInv, BacklogInv, Busy, slotVars
<1>7. SocketOwnership'
  <2>1. newfd \in Conns /\ \A c \in Conns : Holds(Acceptor, c) <=> c = newfd
    BY DEF Holds, IInv, TypeOK, AcceptorInv, Busy
  <2>2. \A h \in Thread, c \in Conns : Holds(h, c)' <=> Holds(h, c) /\ h # Acceptor
    BY DEF Holds, Thread, Busy, slotVars
  <2>3. open' = open \ {newfd} /\ Acceptor \in Thread
    BY DEF Busy, Thread
  <2> QED
    BY <2>1, <2>2, <2>3 DEF IInv, TypeOK, SocketOwnership
<1> QED
  BY <1>1, <1>2, <1>3, <1>4, <1>5, <1>6, <1>7 DEF IInv

(* The locals and the lists keep their relation.                           *)
LEMMA RunBeginStep ==
  ASSUME IInv, NEW s \in Slot, RunBegin(s)
  PROVE  IInv'
<1>1. TypeOK'
  BY DEF IInv, TypeOK, RunBegin, AcceptorPCs, SlotPCs, Thread, acceptorVars,
         netVars
<1>2. MutexInv'
  BY DEF IInv, TypeOK, MutexInv, AcceptorInv, RunBegin, Thread, SlotPCs,
         acceptorVars, netVars
<1>3. AcceptorInv'
  BY DEF IInv, TypeOK, MutexInv, AcceptorInv, ListInv, RunBegin,
         acceptorVars, netVars
<1>4. ListInv'
  BY DEF IInv, TypeOK, MutexInv, AcceptorInv, ListInv, SetUp, RunBegin,
         acceptorVars, netVars
<1>5. SlotInv'
  BY DEF IInv, TypeOK, MutexInv, AcceptorInv, SlotInv, RunBegin,
         acceptorVars, netVars
<1>6. BacklogInv'
  BY DEF IInv, BacklogInv, RunBegin, acceptorVars, netVars
<1>7. SocketOwnership'
  <2>1. \A h \in Thread, c \in Conns : Holds(h, c)' <=> Holds(h, c)
    BY DEF Holds, IInv, TypeOK, AcceptorInv, SlotInv, RunBegin, acceptorVars, netVars
  <2> QED
    BY <2>1, OwnershipStable DEF IInv, RunBegin, acceptorVars, netVars
<1> QED
  BY <1>1, <1>2, <1>3, <1>4, <1>5, <1>6, <1>7 DEF IInv

(* The locals and the lists keep their relation.                           *)
LEMMA ServeEndsStep ==
  ASSUME IInv, NEW s \in Slot, ServeEnds(s)
  PROVE  IInv'
<1>1. TypeOK'
  BY DEF IInv, TypeOK, ServeEnds, AcceptorPCs, SlotPCs, Thread, acceptorVars,
         netVars
<1>2. MutexInv'
  BY DEF IInv, TypeOK, MutexInv, AcceptorInv, ServeEnds, Thread, SlotPCs,
         acceptorVars, netVars
<1>3. AcceptorInv'
  BY DEF IInv, TypeOK, MutexInv, AcceptorInv, ListInv, ServeEnds,
         acceptorVars, netVars
<1>4. ListInv'
  BY DEF IInv, TypeOK, MutexInv, AcceptorInv, ListInv, SetUp, ServeEnds,
         acceptorVars, netVars
<1>5. SlotInv'
  BY DEF IInv, TypeOK, MutexInv, AcceptorInv, SlotInv, ServeEnds,
         acceptorVars, netVars
<1>6. BacklogInv'
  BY DEF IInv, BacklogInv, ServeEnds, acceptorVars, netVars
<1>7. SocketOwnership'
  <2>1. \A h \in Thread, c \in Conns : Holds(h, c)' <=> Holds(h, c)
    BY DEF Holds, IInv, TypeOK, AcceptorInv, SlotInv, ServeEnds, acceptorVars, netVars
  <2> QED
    BY <2>1, OwnershipStable DEF IInv, ServeEnds, acceptorVars, netVars
<1> QED
  BY <1>1, <1>2, <1>3, <1>4, <1>5, <1>6, <1>7 DEF IInv

(* The slot gives up its connection.                                       *)
LEMMA CloseSocketStep ==
  ASSUME IInv, NEW s \in Slot, CloseSocket(s)
  PROVE  IInv'
<1>1. TypeOK'
  BY DEF IInv, TypeOK, CloseSocket, AcceptorPCs, SlotPCs, Thread,
         acceptorVars
<1>2. MutexInv'
  BY DEF IInv, TypeOK, MutexInv, AcceptorInv, CloseSocket, Thread, SlotPCs,
         acceptorVars
<1>3. AcceptorInv'
  BY DEF IInv, TypeOK, MutexInv, AcceptorInv, ListInv, CloseSocket,
         acceptorVars
<1>4. ListInv'
  BY DEF IInv, TypeOK, MutexInv, AcceptorInv, ListInv, SetUp, CloseSocket,
         acceptorVars
<1>5. SlotInv'
  BY DEF IInv, TypeOK, MutexInv, AcceptorInv, SlotInv, CloseSocket,
         acceptorVars
<1>6. BacklogInv'
  BY DEF IInv, BacklogInv, CloseSocket, acceptorVars
<1>7. SocketOwnership'
  <2>1. \A c \in Conns : Holds(s, c) <=> c = sockfd[s]
    BY DEF Holds, CloseSocket
  <2>2. \A h \in Thread, c \in Conns : Holds(h, c)' <=> Holds(h, c) /\ h # s
    BY DEF Holds, IInv, TypeOK, Thread, CloseSocket, acceptorVars
  <2>3. open' = open \ {sockfd[s]} /\ s \in Thread
    BY DEF CloseSocket, Thread
  <2> QED
    BY <2>1, <2>2, <2>3 DEF IInv, TypeOK, SocketOwnership
<1> QED
  BY <1>1, <1>2, <1>3, <1>4, <1>5, <1>6, <1>7 DEF IInv

(* The slot's number is stale when it is cleared.                          *)
LEMMA ResetSlotStep ==
  ASSUME IInv, NEW s \in Slot, ResetSlot(s)
  PROVE  IInv'
<1>1. TypeOK'
  BY DEF IInv, TypeOK, ResetSlot, AcceptorPCs, SlotPCs, Thread, acceptorVars,
         netVars
<1>2. MutexInv'
  BY DEF IInv, TypeOK, MutexInv, AcceptorInv, ResetSlot, Thread, SlotPCs,
         acceptorVars, netVars
<1>3. AcceptorInv'
  BY DEF IInv, TypeOK, MutexInv, AcceptorInv, ListInv, ResetSlot,
         acceptorVars, netVars
<1>4. ListInv'
  BY DEF IInv, TypeOK, MutexInv, AcceptorInv, ListInv, SetUp, ResetSlot,
         acceptorVars, netVars
<1>5. SlotInv'
  BY DEF IInv, TypeOK, MutexInv, AcceptorInv, SlotInv, ResetSlot,
         acceptorVars, netVars
<1>6. BacklogInv'
  BY DEF IInv, BacklogInv, ResetSlot, acceptorVars, netVars
<1>7. SocketOwnership'
  <2>1. \A h \in Thread, c \in Conns : Holds(h, c)' <=> Holds(h, c)
    BY DEF Holds, IInv, TypeOK, AcceptorInv, SlotInv, ResetSlot, acceptorVars, netVars
  <2> QED
    BY <2>1, OwnershipStable DEF IInv, ResetSlot, acceptorVars, netVars
<1> QED
  BY <1>1, <1>2, <1>3, <1>4, <1>5, <1>6, <1>7 DEF IInv

(* The locals and the lists keep their relation.                           *)
LEMMA EndLockStep ==
  ASSUME IInv, NEW s \in Slot, EndLock(s)
  PROVE  IInv'
<1>1. TypeOK'
  BY DEF IInv, TypeOK, EndLock, AcceptorPCs, SlotPCs, Thread, acceptorVars,
         netVars
<1>2. MutexInv'
  BY DEF IInv, TypeOK, MutexInv, AcceptorInv, EndLock, Thread, SlotPCs,
         acceptorVars, netVars
<1>3. AcceptorInv'
  BY DEF IInv, TypeOK, MutexInv, AcceptorInv, ListInv, EndLock, acceptorVars,
         netVars
<1>4. ListInv'
  BY DEF IInv, TypeOK, MutexInv, AcceptorInv, ListInv, SetUp, EndLock,
         acceptorVars, netVars
<1>5. SlotInv'
  BY DEF IInv, TypeOK, MutexInv, AcceptorInv, SlotInv, EndLock, acceptorVars,
         netVars
<1>6. BacklogInv'
  BY DEF IInv, BacklogInv, EndLock, acceptorVars, netVars
<1>7. SocketOwnership'
  <2>1. \A h \in Thread, c \in Conns : Holds(h, c)' <=> Holds(h, c)
    BY DEF Holds, IInv, TypeOK, AcceptorInv, SlotInv, EndLock, acceptorVars, netVars
  <2> QED
    BY <2>1, OwnershipStable DEF IInv, EndLock, acceptorVars, netVars
<1> QED
  BY <1>1, <1>2, <1>3, <1>4, <1>5, <1>6, <1>7 DEF IInv

(* The slot leaves the running list and is in transit.                     *)
LEMMA RemoveRunningStep ==
  ASSUME IInv, NEW s \in Slot, RemoveRunning(s)
  PROVE  IInv'
<1>1. TypeOK'
  <2>1. Unlink(lists["running"], s) \in Seq(Slot)
    BY LinkedUnlink DEF IInv, TypeOK, ListInv, AcceptorInv, SetUp, RemoveRunning
  <2> QED
    BY <2>1 DEF IInv, TypeOK, RemoveRunning, RemoveFrom, AcceptorPCs, SlotPCs, acceptorVars, netVars
<1>2. MutexInv'
  BY DEF IInv, TypeOK, MutexInv, AcceptorInv, RemoveRunning, Thread, SlotPCs,
         acceptorVars, netVars
<1>3. AcceptorInv'
  BY DEF IInv, TypeOK, MutexInv, AcceptorInv, ListInv, RemoveRunning,
         acceptorVars, netVars
<1>4. ListInv'
  <2>1. /\ Linked(lists["running"], s) /\ Distinct(lists["running"])
        /\ lists["running"] \in Seq(Slot)
    BY DEF IInv, TypeOK, ListInv, AcceptorInv, SetUp, RemoveRunning
  <2>2. /\ lists'["running"] = Unlink(lists["running"], s)
        /\ lists'["free"] = lists["free"]
    BY DEF IInv, TypeOK, RemoveRunning, RemoveFrom
  <2>3. /\ Distinct(lists'["running"])
        /\ \A u \in Slot : Linked(lists'["running"], u) <=>
             Linked(lists["running"], u) /\ u # s
    BY <2>1, <2>2, LinkedUnlink
  <2> QED
    BY <2>2, <2>3
    DEF IInv, TypeOK, AcceptorInv, MutexInv, ListInv, SetUp, RemoveRunning, acceptorVars, netVars
<1>5. SlotInv'
  BY DEF IInv, TypeOK, MutexInv, AcceptorInv, SlotInv, RemoveRunning,
         acceptorVars, netVars
<1>6. BacklogInv'
  BY DEF IInv, BacklogInv, RemoveRunning, acceptorVars, netVars
<1>7. SocketOwnership'
  <2>1. \A h \in Thread, c \in Conns : Holds(h, c)' <=> Holds(h, c)
    BY DEF Holds, IInv, TypeOK, AcceptorInv, SlotInv, RemoveRunning, acceptorVars, netVars
  <2> QED
    BY <2>1, OwnershipStable DEF IInv, RemoveRunning, acceptorVars, netVars
<1> QED
  BY <1>1, <1>2, <1>3, <1>4, <1>5, <1>6, <1>7 DEF IInv

(* The slot in transit enters the free list.                               *)
LEMMA AddFreeStep ==
  ASSUME IInv, NEW s \in Slot, AddFree(s)
  PROVE  IInv'
<1>1. TypeOK'
  <2>1. Append(lists["free"], s) \in Seq(Slot)
    BY LinkedAppend DEF IInv, TypeOK, AcceptorInv, AddFree
  <2> QED
    BY <2>1 DEF IInv, TypeOK, AddFree, AddTo, AcceptorPCs, SlotPCs, acceptorVars, netVars
<1>2. MutexInv'
  BY DEF IInv, TypeOK, MutexInv, AcceptorInv, AddFree, Thread, SlotPCs,
         acceptorVars, netVars
<1>3. AcceptorInv'
  BY DEF IInv, TypeOK, MutexInv, AcceptorInv, ListInv, AddFree, acceptorVars,
         netVars
<1>4. ListInv'
  <2>1. /\ s \in Slot /\ ~Linked(lists["free"], s)
        /\ Distinct(lists["free"]) /\ lists["free"] \in Seq(Slot)
    BY DEF IInv, TypeOK, ListInv, AcceptorInv, SetUp, AddFree
  <2>2. /\ lists'["free"] = Append(lists["free"], s)
        /\ lists'["running"] = lists["running"]
    BY DEF IInv, TypeOK, AddFree, AddTo
  <2>3. /\ Distinct(lists'["free"])
        /\ \A u \in Slot : Linked(lists'["free"], u) <=>
             Linked(lists["free"], u) \/ u = s
    BY <2>1, <2>2, LinkedAppend
  <2> QED
    BY <2>2, <2>3
    DEF IInv, TypeOK, AcceptorInv, MutexInv, ListInv, SetUp, AddFree, acceptorVars, netVars
<1>5. SlotInv'
  BY DEF IInv, TypeOK, MutexInv, AcceptorInv, SlotInv, AddFree, acceptorVars,
         netVars
<1>6. BacklogInv'
  BY DEF IInv, BacklogInv, AddFree, acceptorVars, netVars
<1>7. SocketOwnership'
  <2>1. \A h \in Thread, c \in Conns : Holds(h, c)' <=> Holds(h, c)
    BY DEF Holds, IInv, TypeOK, AcceptorInv, SlotInv, AddFree, acceptorVars, netVars
  <2> QED
    BY <2>1, OwnershipStable DEF IInv, AddFree, acceptorVars, netVars
<1> QED
  BY <1>1, <1>2, <1>3, <1>4, <1>5, <1>6, <1>7 DEF IInv

(* A connection that is neither waiting nor open joins the backlog.        *)
LEMMA ConnectStep ==
  ASSUME IInv, NEW b \in Conns, Connect(b)
  PROVE  IInv'
<1>1. TypeOK'
  <2>1. Append(backlog, b) \in Seq(Conns)
    BY AppendProperties DEF IInv, TypeOK
  <2> QED
    BY <2>1 DEF IInv, TypeOK, Connect, acceptorVars, slotVars
<1>2. MutexInv'
  BY DEF IInv, TypeOK, MutexInv, AcceptorInv, Connect, Thread, SlotPCs,
         acceptorVars, slotVars
<1>3. AcceptorInv'
  BY DEF IInv, TypeOK, MutexInv, AcceptorInv, ListInv, Connect, acceptorVars,
         slotVars
<1>4. ListInv'
  BY DEF IInv, TypeOK, MutexInv, AcceptorInv, ListInv, SetUp, Connect,
         acceptorVars, slotVars
<1>5. SlotInv'
  BY DEF IInv, TypeOK, MutexInv, AcceptorInv, SlotInv, Connect, acceptorVars,
         slotVars
<1>6. BacklogInv'
  <2>1. ~Linked(backlog, b) /\ b \notin open
    BY DEF Connect, ToSet, Linked
  <2>2. /\ Distinct(Append(backlog, b))
        /\ \A d : Linked(Append(backlog, b), d) <=> Linked(backlog, d) \/ d = b
    BY <2>1, LinkedAppend DEF IInv, TypeOK, BacklogInv
  <2> QED
    BY <2>1, <2>2 DEF IInv, BacklogInv, Connect, Linked
<1>7. SocketOwnership'
  <2>1. \A h \in Thread, c \in Conns : Holds(h, c)' <=> Holds(h, c)
    BY DEF Holds, IInv, TypeOK, AcceptorInv, SlotInv, Connect, acceptorVars, slotVars
  <2> QED
    BY <2>1, OwnershipStable DEF IInv, Connect, acceptorVars, slotVars
<1> QED
  BY <1>1, <1>2, <1>3, <1>4, <1>5, <1>6, <1>7 DEF IInv

-----------------------------------------------------------------------------
(* The server starts with empty lists, no connection and no thread.        *)
LEMMA InitIInv == Init => IInv
<1> SUFFICES ASSUME Init PROVE IInv
  OBVIOUS
<1>1. \A S : <<>> \in Seq(S) /\ Len(<<>>) = 0 /\ DOMAIN <<>> = {}
  BY EmptySeq, LenProperties
<1>2. TypeOK
  BY <1>1 DEF Init, TypeOK, AcceptorPCs, SlotPCs, Thread
<1>3. MutexInv /\ AcceptorInv /\ SlotInv
  BY DEF Init, MutexInv, AcceptorInv, SlotInv
<1>4. ListInv
  BY <1>1 DEF Init, ListInv, SetUp, Linked, Distinct
<1>5. BacklogInv
  BY <1>1 DEF Init, BacklogInv, Distinct
<1>6. SocketOwnership
  BY DEF Init, SocketOwnership, Holds, Thread
<1> QED
  BY <1>2, <1>3, <1>4, <1>5, <1>6 DEF IInv

(* IInv is inductive.                                                      *)
LEMMA NextIInv == IInv /\ [Next]_vars => IInv'
<1> SUFFICES ASSUME IInv, [Next]_vars PROVE IInv'
  OBVIOUS
<1>1. CASE AcceptorStep
  BY <1>1, ConstructorAddStep, InitSocketStep, AcceptStep, AcceptFailsStep,
     AcceptOnNoSocketStep, GetFirstStep, GetNoneStep, RemoveFreeStep,
     AddRunningStep, SetSocketStep, StartStep, BusyStep DEF AcceptorStep
<1>2. CASE AcceptorLock
  BY <1>2, AcceptorLockStep
<1>3. ASSUME NEW s \in Slot, SlotStep(s) \/ EndLock(s) \/ ServeEnds(s)
      PROVE  IInv'
  BY <1>3, RunBeginStep, CloseSocketStep, ResetSlotStep, RemoveRunningStep,
     AddFreeStep, EndLockStep, ServeEndsStep DEF SlotStep
<1>4. ASSUME NEW c \in Conns, Connect(c)
      PROVE  IInv'
  BY <1>4, ConnectStep
<1>5. CASE UNCHANGED vars
  BY <1>5 DEF vars, IInv, TypeOK, MutexInv, AcceptorInv, ListInv, SlotInv,
              BacklogInv, SocketOwnership, Holds, SetUp
<1> QED
  BY <1>1, <1>2, <1>3, <1>4, <1>5 DEF Next

(* runLoop and serverLoop: the invariant holds in every interleaving of the *)
(* acceptor, the tasks and the peers.                                      *)
THEOREM Invariance == Spec => []IInv
  BY InitIInv, NextIInv, PTL DEF Spec

-----------------------------------------------------------------------------
(* Every variable of the pool keeps its type.                              *)
THEOREM TypeCorrect == Spec => []TypeOK
<1>1. IInv => TypeOK
  BY DEF IInv
<1> QED
  BY <1>1, Invariance, PTL

(* run, endCommTask and the accept loop never lose a slot and never hand   *)
(* out a slot that is in use: the two lists partition the slots.           *)
THEOREM SlotsArePartitioned == Spec => []SlotPartition
<1>1. IInv => SlotPartition
  <2> SUFFICES ASSUME IInv PROVE SlotPartition
    OBVIOUS
  <2>1. ASSUME mutex = Nobody, pc # "construct", NEW s \in Slot
        PROVE  /\ pc # "addRunning"
               /\ spc[s] \in SlotPCs \ {"removeRunning", "addFree"}
    BY <2>1 DEF IInv, TypeOK, MutexInv
  <2>2. ASSUME NEW s \in Slot
        PROVE  ~(Linked(lists["free"], s) /\ Linked(lists["running"], s))
    BY DEF IInv, TypeOK, ListInv, AcceptorInv, SetUp
  <2> QED
    BY <2>1, <2>2 DEF IInv, ListInv, SlotPartition, SlotPCs
<1> QED
  BY <1>1, Invariance, PTL

(* Every accepted connection has exactly one thread responsible for it.    *)
THEOREM SocketsAreOwned == Spec => []SocketOwnership
<1>1. IInv => SocketOwnership
  BY DEF IInv
<1> QED
  BY <1>1, Invariance, PTL

(* The acceptor sets a slot up alone, although it holds no lock.           *)
THEOREM SetUpIsExclusive == Spec => []SetUpExclusive
<1>1. IInv => SetUpExclusive
  BY DEF IInv, TypeOK, AcceptorInv, SlotInv, SetUp, SetUpExclusive
<1> QED
  BY <1>1, Invariance, PTL

(* A connection is refused only when all slots were in use.                *)
THEOREM RefusalIsJustified == Spec => RefusedOnlyWhenBusy
<1>1. IInv /\ [Next]_vars =>
        [pc = "getFirst" /\ pc' = "busy" => \A s \in Slot : spc[s] # "idle"]_vars
  <2> SUFFICES ASSUME IInv, Next, pc = "getFirst", pc' = "busy", NEW s \in Slot
               PROVE  spc[s] # "idle"
    OBVIOUS
  <2>1. lists["free"] = <<>>
    BY DEF Next, AcceptorStep, SlotStep, ConstructorAdd, InitSocket, Accept,
           AcceptFails, AcceptOnNoSocket, AcceptorLock, GetFirst, GetNone,
           RemoveFree, AddRunning, SetSocket, Start, Busy, RunBegin, ServeEnds,
           CloseSocket, ResetSlot, EndLock, RemoveRunning, AddFree, Connect,
           acceptorVars, vars
  <2>2. ~Linked(lists["free"], s)
    BY <2>1 DEF Linked
  <2> QED
    BY <2>2 DEF IInv, ListInv, SetUp
<1> QED
  BY <1>1, Invariance, PTL DEF Spec, RefusedOnlyWhenBusy

(* The pool implements the abstract task lists.                            *)
THEOREM PoolImplementsTaskQueue == Spec => ListDiscipline
<1>1. Init => Q!Init
  BY DEF Init, Q!Init
<1>2. IInv /\ [Next]_vars => [Q!Next]_lists
  <2> SUFFICES ASSUME IInv, Next, lists' # lists PROVE Q!Next
    BY DEF vars
  <2>1. \A l \in {"free", "running"}, t \in Slot :
          (\A k \in {"free", "running"} : ~Linked(lists[k], t)) /\ AddTo(l, t)
            => Q!Next
    BY DEF AddTo, Q!Next, Q!AddTask, Q!Linked, Linked
  <2>2. \A l \in {"free", "running"}, t \in Slot :
          Linked(lists[l], t) /\ RemoveFrom(l, t) => Q!Next
    BY DEF RemoveFrom, Q!Next, Q!RemoveTask, Q!Linked, Linked,
           Q!Unlink, Unlink, Q!RemoveAt, RemoveAt
  <2>3. CASE ConstructorAdd
    <3>1. Len(lists["free"]) \in Nat
      BY LenProperties DEF IInv, TypeOK
    <3> QED
      BY <2>1, <2>3, <3>1 DEF ConstructorAdd, IInv, ListInv, AcceptorInv, SetUp
  <2>4. CASE RemoveFree
    BY <2>2, <2>4 DEF RemoveFree, IInv, TypeOK, AcceptorInv, ListInv, SetUp
  <2>5. CASE AddRunning
    BY <2>1, <2>5 DEF AddRunning, IInv, TypeOK, AcceptorInv, ListInv, SetUp
  <2>6. ASSUME NEW s \in Slot, RemoveRunning(s) PROVE Q!Next
    BY <2>2, <2>6 DEF RemoveRunning, IInv, ListInv
  <2>7. ASSUME NEW s \in Slot, AddFree(s) PROVE Q!Next
    BY <2>1, <2>7 DEF AddFree, IInv, TypeOK, AcceptorInv, ListInv, SetUp
  <2> QED
    BY <2>3, <2>4, <2>5, <2>6, <2>7
    DEF Next, AcceptorStep, SlotStep, InitSocket, Accept, AcceptFails,
        AcceptOnNoSocket, AcceptorLock, GetFirst, GetNone, SetSocket, Start,
        Busy, RunBegin, ServeEnds, CloseSocket, ResetSlot, EndLock, Connect, vars
<1> QED
  BY <1>1, <1>2, Invariance, PTL DEF Spec, ListDiscipline, Q!Spec
=============================================================================
