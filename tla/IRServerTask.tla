---------------------------- MODULE IRServerTask ----------------------------
(***************************************************************************)
(* The task pool of the IR server (main/irserver.cpp, IRServerTask): one   *)
(* acceptor thread hands each accepted connection to a free                *)
(* CommunicationTask slot, and the slot's own thread serves it, closes it  *)
(* and gives the slot back.  The two lists of slots are guarded by a       *)
(* mutex; setSocket, start and the whole of run are outside it.  What a    *)
(* slot does with its connection is the module CommunicationTask; here it  *)
(* serves for some time and ends.                                          *)
(***************************************************************************)
EXTENDS Integers, FiniteSets, TaskLists

CONSTANTS MULTIPLICITY,  \* slots, and the length of the listen backlog
          MAXFD,         \* descriptors the network stack can have open
          Conns,         \* the clients that connect, each once at a time
          NoFd           \* sockfd = -1

ASSUME PoolAssumption ==
  /\ MULTIPLICITY \in Nat \ {0}
  /\ MAXFD \in Nat
  /\ NoFd \notin Conns

Slot     == 1 .. MULTIPLICITY
Acceptor == 0
Nobody   == -1
NoTask   == 0

VARIABLES
  lists,      \* freeCommTaskList and runningCommTaskList
  mutex,      \* the thread holding IRServerTask::mutex, or Nobody
  pc,         \* the acceptor thread
  listening,  \* IRServerTask::sockfd >= 0
  backlog,    \* connections completed by the stack and not accepted yet
  newfd,      \* acceptor's local: the accepted connection
  task,       \* acceptor's local: the slot it took, NoTask for NULL
  spc,        \* the thread of each slot, "idle" when there is none
  sockfd,     \* CommunicationTask::sockfd
  mode,       \* CommunicationTask::mode
  open,       \* accepted connections not closed, the leaked ones excepted
  leaked      \* descriptors dropped by the busy branch of run

vars == <<lists, mutex, pc, listening, backlog, newfd, task,
          spc, sockfd, mode, open, leaked>>

acceptorVars == <<pc, listening, newfd, task>>
slotVars     == <<spc, sockfd, mode>>
netVars      == <<backlog, open, leaked>>

Q == INSTANCE TaskQueue WITH Task <- Slot, List <- {"free", "running"}

(* The operators named Wrong... here and in the other modules are mutations *)
(* of the definition named behind them: mistakes the properties must find. *)
WrongEnd_AddTo(l, t)   == lists' = [lists EXCEPT ![l] = <<t>> \o @]
WrongNop_RemoveFrom(l, t) == UNCHANGED lists

AddTo(l, t)      == lists' = [lists EXCEPT ![l] = Append(@, t)]
RemoveFrom(l, t) == lists' = [lists EXCEPT ![l] = Unlink(@, t)]

Init ==
  /\ lists = [l \in {"free", "running"} |-> <<>>]
  /\ mutex = Nobody
  /\ pc = "construct"
  /\ listening = FALSE
  /\ backlog = <<>>
  /\ newfd = NoFd
  /\ task = NoTask
  /\ spc = [s \in Slot |-> "idle"]
  /\ sockfd = [s \in Slot |-> NoFd]
  /\ mode = [s \in Slot |-> "FREE"]
  /\ open = {}
  /\ leaked = 0

-----------------------------------------------------------------------------
(* startIRServer: the constructor links every slot, then init opens the    *)
(* listening socket; its result is ignored and the task started anyway.    *)

WrongBound_ConstructorAdd ==
  /\ pc = "construct"
  /\ Len(lists["free"]) <= MULTIPLICITY
  /\ AddTo("free", Len(lists["free"]) + 1)
  /\ UNCHANGED <<mutex, acceptorVars, slotVars, netVars>>

ConstructorAdd ==
  /\ pc = "construct"
  /\ Len(lists["free"]) < MULTIPLICITY
  /\ AddTo("free", Len(lists["free"]) + 1)
  /\ UNCHANGED <<mutex, acceptorVars, slotVars, netVars>>

InitSocket ==
  /\ pc = "construct"
  /\ Len(lists["free"]) = MULTIPLICITY
  /\ listening' \in BOOLEAN
  /\ pc' = "accept"
  /\ UNCHANGED <<lists, mutex, newfd, task, slotVars, netVars>>

-----------------------------------------------------------------------------
(* The network stack completes a connection into the listen backlog.       *)
Connect(c) ==
  /\ listening
  /\ Len(backlog) < MULTIPLICITY
  /\ c \notin open \cup ToSet(backlog)
  /\ backlog' = Append(backlog, c)
  /\ UNCHANGED <<lists, mutex, acceptorVars, slotVars, open, leaked>>

-----------------------------------------------------------------------------
(* IRServerTask::run.                                                      *)

WrongWait_Accept ==
  /\ pc = "accept"
  /\ backlog # <<>> /\ lists["free"] # <<>>
  /\ newfd' = Head(backlog)
  /\ backlog' = Tail(backlog)
  /\ open' = open \cup {Head(backlog)}
  /\ pc' = "lock"
  /\ UNCHANGED <<lists, mutex, listening, task, slotVars, leaked>>

Accept ==
  /\ pc = "accept"
  /\ backlog # <<>>
  /\ Cardinality(open) + leaked < MAXFD
  /\ newfd' = Head(backlog)
  /\ backlog' = Tail(backlog)
  /\ open' = open \cup {Head(backlog)}
  /\ pc' = "lock"
  /\ UNCHANGED <<lists, mutex, listening, task, slotVars, leaked>>

(* No descriptor is left: the stack drops the connection, accept returns   *)
(* -1 and the loop goes on.                                                *)
AcceptFails ==
  /\ pc = "accept"
  /\ backlog # <<>>
  /\ Cardinality(open) + leaked >= MAXFD
  /\ backlog' = Tail(backlog)
  /\ UNCHANGED <<lists, mutex, acceptorVars, slotVars, open, leaked>>

(* init failed: accept(-1) fails at once, for ever.                        *)
AcceptOnNoSocket ==
  /\ pc = "accept"
  /\ ~listening
  /\ UNCHANGED vars

AcceptorLock ==
  /\ pc = "lock"
  /\ mutex = Nobody
  /\ mutex' = Acceptor
  /\ pc' = "getFirst"
  /\ UNCHANGED <<lists, listening, newfd, task, slotVars, netVars>>

GetFirst ==
  /\ pc = "getFirst"
  /\ lists["free"] # <<>>
  /\ task' = Head(lists["free"])
  /\ pc' = "removeFree"
  /\ UNCHANGED <<lists, mutex, listening, newfd, slotVars, netVars>>

WrongList_GetNone ==
  /\ pc = "getFirst"
  /\ lists["running"] # <<>>
  /\ task' = NoTask /\ mutex' = Nobody /\ pc' = "busy"
  /\ UNCHANGED <<lists, listening, newfd, slotVars, netVars>>

WrongHold_GetNone ==
  /\ pc = "getFirst"
  /\ lists["free"] = <<>>
  /\ task' = NoTask /\ pc' = "busy"
  /\ UNCHANGED <<lists, mutex, listening, newfd, slotVars, netVars>>

GetNone ==
  /\ pc = "getFirst"
  /\ lists["free"] = <<>>
  /\ task' = NoTask
  /\ mutex' = Nobody
  /\ pc' = "busy"
  /\ UNCHANGED <<lists, listening, newfd, slotVars, netVars>>

RemoveFree ==
  /\ pc = "removeFree"
  /\ RemoveFrom("free", task)
  /\ pc' = "addRunning"
  /\ UNCHANGED <<mutex, listening, newfd, task, slotVars, netVars>>

AddRunning ==
  /\ pc = "addRunning"
  /\ AddTo("running", task)
  /\ mutex' = Nobody
  /\ pc' = "setSocket"
  /\ UNCHANGED <<listening, newfd, task, slotVars, netVars>>

SetSocket ==
  /\ pc = "setSocket"
  /\ sockfd' = [sockfd EXCEPT ![task] = newfd]
  /\ pc' = "start"
  /\ UNCHANGED <<lists, mutex, listening, newfd, task, spc, mode, netVars>>

(* The thread starts; newfd and task go out of scope.                      *)
Start ==
  /\ pc = "start"
  /\ spc' = [spc EXCEPT ![task] = "begin"]
  /\ newfd' = NoFd
  /\ task' = NoTask
  /\ pc' = "accept"
  /\ UNCHANGED <<lists, mutex, listening, sockfd, mode, netVars>>

(* "server is busy": newfd is dropped without close.                       *)
Busy ==
  /\ pc = "busy"
  /\ newfd' = NoFd
  /\ open' = open \ {newfd}
  /\ leaked' = leaked + 1
  /\ pc' = "accept"
  /\ UNCHANGED <<lists, mutex, listening, task, slotVars, backlog>>

-----------------------------------------------------------------------------
(* CommunicationTask::run and IRServerTask::endCommTask, in the slot's     *)
(* thread.                                                                 *)

RunBegin(s) ==
  /\ spc[s] = "begin"
  /\ mode' = [mode EXCEPT ![s] = "RUNNING"]
  /\ spc' = [spc EXCEPT ![s] = "serve"]
  /\ UNCHANGED <<lists, mutex, acceptorVars, sockfd, netVars>>

ServeEnds(s) ==
  /\ spc[s] = "serve"
  /\ spc' = [spc EXCEPT ![s] = "close"]
  /\ UNCHANGED <<lists, mutex, acceptorVars, sockfd, mode, netVars>>

CloseSocket(s) ==
  /\ spc[s] = "close"
  /\ open' = open \ {sockfd[s]}
  /\ spc' = [spc EXCEPT ![s] = "reset"]
  /\ UNCHANGED <<lists, mutex, acceptorVars, sockfd, mode, backlog, leaked>>

WrongFd_ResetSlot(s) ==
  /\ spc[s] = "reset"
  /\ mode' = [mode EXCEPT ![s] = "FREE"]
  /\ spc' = [spc EXCEPT ![s] = "lock"]
  /\ UNCHANGED <<lists, mutex, acceptorVars, sockfd, netVars>>

WrongMode_ResetSlot(s) ==
  /\ spc[s] = "reset"
  /\ sockfd' = [sockfd EXCEPT ![s] = NoFd]
  /\ spc' = [spc EXCEPT ![s] = "lock"]
  /\ UNCHANGED <<lists, mutex, acceptorVars, mode, netVars>>

ResetSlot(s) ==
  /\ spc[s] = "reset"
  /\ sockfd' = [sockfd EXCEPT ![s] = NoFd]
  /\ mode' = [mode EXCEPT ![s] = "FREE"]
  /\ spc' = [spc EXCEPT ![s] = "lock"]
  /\ UNCHANGED <<lists, mutex, acceptorVars, netVars>>

EndLock(s) ==
  /\ spc[s] = "lock"
  /\ mutex = Nobody
  /\ mutex' = s
  /\ spc' = [spc EXCEPT ![s] = "removeRunning"]
  /\ UNCHANGED <<lists, acceptorVars, sockfd, mode, netVars>>

RemoveRunning(s) ==
  /\ spc[s] = "removeRunning"
  /\ RemoveFrom("running", s)
  /\ spc' = [spc EXCEPT ![s] = "addFree"]
  /\ UNCHANGED <<mutex, acceptorVars, sockfd, mode, netVars>>

(* The last statement of endCommTask; the lock is released, run returns    *)
(* and the thread ends.                                                    *)
AddFree(s) ==
  /\ spc[s] = "addFree"
  /\ AddTo("free", s)
  /\ mutex' = Nobody
  /\ spc' = [spc EXCEPT ![s] = "idle"]
  /\ UNCHANGED <<acceptorVars, sockfd, mode, netVars>>

-----------------------------------------------------------------------------
AcceptorStep ==
  \/ ConstructorAdd \/ InitSocket
  \/ Accept \/ AcceptFails \/ AcceptOnNoSocket
  \/ GetFirst \/ GetNone \/ RemoveFree \/ AddRunning
  \/ SetSocket \/ Start \/ Busy

SlotStep(s) ==
  \/ RunBegin(s) \/ CloseSocket(s) \/ ResetSlot(s)
  \/ RemoveRunning(s) \/ AddFree(s)

Next ==
  \/ AcceptorStep \/ AcceptorLock
  \/ \E s \in Slot : SlotStep(s) \/ EndLock(s) \/ ServeEnds(s)
  \/ \E c \in Conns : Connect(c)

(* Threads run; a FreeRTOS mutex wakes its waiters in turn, so taking it   *)
(* is strongly fair.  Nothing makes a client connect or leave.             *)
Fairness ==
  /\ WF_vars(AcceptorStep)
  /\ SF_vars(AcceptorLock)
  /\ \A s \in Slot : WF_vars(SlotStep(s)) /\ SF_vars(EndLock(s))

Spec == Init /\ [][Next]_vars /\ Fairness
-----------------------------------------------------------------------------
(* Properties.                                                             *)

Thread == Slot \cup {Acceptor}

AcceptorPCs == {"construct", "accept", "lock", "getFirst", "removeFree",
                "addRunning", "setSocket", "start", "busy"}
SlotPCs     == {"idle", "begin", "serve", "close", "reset", "lock",
                "removeRunning", "addFree"}

(* The type of every variable.                                             *)
TypeOK ==
  /\ lists \in [{"free", "running"} -> Seq(Slot)]
  /\ mutex \in Thread \cup {Nobody}
  /\ pc \in AcceptorPCs
  /\ listening \in BOOLEAN
  /\ backlog \in Seq(Conns)
  /\ newfd \in Conns \cup {NoFd}
  /\ task \in Slot \cup {NoTask}
  /\ spc \in [Slot -> SlotPCs]
  /\ sockfd \in [Slot -> Conns \cup {NoFd}]
  /\ mode \in [Slot -> {"FREE", "RUNNING"}]
  /\ open \subseteq Conns
  /\ leaked \in Nat

(* The acceptor is giving slot s its connection.                           *)
SetUp(s) == task = s /\ pc \in {"setSocket", "start"}

(* Whenever the mutex is free, the two lists partition the slots, each     *)
(* slot linked once, and a slot is in the free list exactly when no thread *)
(* runs in it and the acceptor is not setting it up: a slot is never lost  *)
(* by run or endCommTask and never handed out while in use.                *)
SlotPartition ==
  /\ Distinct(lists["free"]) /\ Distinct(lists["running"])
  /\ \A s \in Slot : ~(Linked(lists["free"], s) /\ Linked(lists["running"], s))
  /\ mutex = Nobody /\ pc # "construct" =>
       \A s \in Slot :
         IF spc[s] = "idle" /\ ~SetUp(s) THEN Linked(lists["free"], s)
                                         ELSE Linked(lists["running"], s)

(* Thread h is responsible for the accepted connection c: the acceptor     *)
(* until setSocket, from then on the slot, until its close.                *)
Holds(h, c) ==
  \/ h = Acceptor /\ newfd = c /\ pc # "start"
  \/ h \in Slot /\ sockfd[h] = c /\ spc[h] # "reset"

(* Every open connection has exactly one thread responsible for it, and a  *)
(* thread only holds connections that are open: setSocket and the reset in *)
(* run neither overwrite a live descriptor nor leave two users of one.     *)
SocketOwnership ==
  /\ \A c \in open : \E h \in Thread : Holds(h, c)
  /\ \A c \in Conns, h \in Thread : Holds(h, c) =>
       c \in open /\ \A k \in Thread : Holds(k, c) => k = h

(* While the acceptor sets up the slot it took, outside the mutex, the     *)
(* slot is quiet: its last thread has reset it and touches it no more.     *)
SetUpExclusive ==
  \A s \in Slot : SetUp(s) =>
    /\ spc[s] = "idle" /\ mode[s] = "FREE"
    /\ pc = "setSocket" => sockfd[s] = NoFd
    /\ pc = "start" => sockfd[s] = newfd

(* A connection is dropped as "server is busy" only when every slot was in *)
(* use at the moment the free list was read.                               *)
RefusedOnlyWhenBusy ==
  [][pc = "getFirst" /\ pc' = "busy" => \A s \in Slot : spc[s] # "idle"]_vars

(* The pool uses its lists as CommunicationTaskList demands.               *)
ListDiscipline == Q!Spec

(* The accept loop never waits for a client that is being served: every    *)
(* completed connection is taken out of the backlog.                       *)
BacklogDrains ==
  \A c \in Conns : c \in ToSet(backlog) ~> c \notin ToSet(backlog)

(* A slot whose communication loop has ended becomes free again, whatever  *)
(* the other slots and the acceptor do with the mutex.                     *)
SlotReturns ==
  \A s \in Slot : spc[s] = "close" ~> Linked(lists["free"], s)

-----------------------------------------------------------------------------
(* The inductive invariant behind the safety properties.                   *)

(* The mutex is held exactly between lock and the last list operation.     *)
MutexInv ==
  /\ mutex = Acceptor <=> pc \in {"getFirst", "removeFree", "addRunning"}
  /\ \A s \in Slot : mutex = s <=> spc[s] \in {"removeRunning", "addFree"}

(* The acceptor's locals, and the slot it chose: nobody runs in it.        *)
AcceptorInv ==
  /\ newfd # NoFd <=> pc \notin {"construct", "accept"}
  /\ task # NoTask <=> pc \in {"removeFree", "addRunning", "setSocket", "start"}
  /\ task # NoTask => spc[task] = "idle"

(* The list each slot is in, by where its thread and the acceptor are.     *)
ListInv ==
  /\ Distinct(lists["free"]) /\ Distinct(lists["running"])
  /\ pc = "construct" =>
       /\ Len(lists["free"]) <= MULTIPLICITY
       /\ \A s \in Slot : Linked(lists["free"], s) <=> s <= Len(lists["free"])
       /\ \A s \in Slot : spc[s] = "idle"
  /\ pc # "construct" =>
       \A s \in Slot : Linked(lists["free"], s) <=>
         spc[s] = "idle" /\ ~SetUp(s) /\ ~(task = s /\ pc = "addRunning")
  /\ \A s \in Slot : Linked(lists["running"], s) <=>
       \/ SetUp(s)
       \/ spc[s] \in {"begin", "serve", "close", "reset", "lock", "removeRunning"}

(* The fields of a slot, by where its thread and the acceptor are.         *)
SlotInv ==
  \A s \in Slot :
    /\ mode[s] = "RUNNING" <=> spc[s] \in {"serve", "close", "reset"}
    /\ sockfd[s] # NoFd <=> \/ spc[s] \in {"begin", "serve", "close", "reset"}
                            \/ task = s /\ pc = "start"
    /\ task = s /\ pc = "start" => sockfd[s] = newfd

(* A connection waits in the backlog once, and only before it is accepted. *)
BacklogInv ==
  /\ Distinct(backlog)
  /\ \A i \in DOMAIN backlog : backlog[i] \notin open

IInv == /\ TypeOK /\ MutexInv /\ AcceptorInv /\ ListInv
        /\ SlotInv /\ BacklogInv /\ SocketOwnership
=============================================================================
