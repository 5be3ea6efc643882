----------------------- MODULE CommunicationTaskList -----------------------
(***************************************************************************)
(* The two linked lists of communication tasks as main/irserver.cpp keeps  *)
(* them: first and last in each list, next and prev in each task, changed  *)
(* one assignment at a time by the constructor, the acceptor and the slot  *)
(* threads.  The threads follow IRServerTask: the acceptor moves the first *)
(* free task to the running list, a running task moves itself back, each   *)
(* inside the mutex.  Followed from first through next, the lists          *)
(* implement TaskQueue at every assignment.                                *)
(***************************************************************************)
EXTENDS Integers, FiniteSets, TaskLists

CONSTANTS MULTIPLICITY,  \* number of tasks
          NULL           \* the null pointer

Task     == 1 .. MULTIPLICITY
Acceptor == 0
Nobody   == -1
Thread   == Task \cup {Acceptor}
List     == {"free", "running"}

ASSUME ListAssumption ==
  /\ MULTIPLICITY \in Nat \ {0}
  /\ NULL \notin Task

VARIABLES
  first, last,  \* the list objects
  next, prev,   \* the task objects
  mutex,        \* the thread holding IRServerTask::mutex, or Nobody
  pc,           \* the statement each thread is at, "none" when it does not exist
  arg,          \* the task each thread is moving
  aborted       \* "task list corrupted": abort() was called

vars == <<first, last, next, prev, mutex, pc, arg, aborted>>

Init ==
  /\ first = [l \in List |-> NULL]
  /\ last = [l \in List |-> NULL]
  /\ next = [t \in Task |-> NULL]
  /\ prev = [t \in Task |-> NULL]
  /\ mutex = Nobody
  /\ pc = [h \in Thread |-> IF h = Acceptor THEN <<"construct", "check">>
                                            ELSE <<"none">>]
  /\ arg = [h \in Thread |-> IF h = Acceptor THEN 1 ELSE h]
  /\ aborted = FALSE

(* A thread inside an operation is at <<operation, statement>>; the list   *)
(* the operation works on follows from who does what.                      *)
ListOf(h) ==
  CASE pc[h][1] = "construct" -> "free"
    [] pc[h][1] = "remove"    -> IF h = Acceptor THEN "free" ELSE "running"
    [] pc[h][1] = "add"       -> IF h = Acceptor THEN "running" ELSE "free"

At(h, op, stmt) == ~aborted /\ pc[h] = <<op, stmt>>
Goto(h, op, stmt) == pc' = [pc EXCEPT ![h] = <<op, stmt>>]

Adding(h, stmt) == \E op \in {"construct", "add"} : At(h, op, stmt)

-----------------------------------------------------------------------------
(* CommunicationTaskList::add.                                             *)

AddCheck(h) ==
  /\ Adding(h, "check")
  /\ IF next[arg[h]] # NULL \/ prev[arg[h]] # NULL
     THEN aborted' = TRUE /\ UNCHANGED pc
     ELSE Goto(h, pc[h][1], "link") /\ UNCHANGED aborted
  /\ UNCHANGED <<first, last, next, prev, mutex, arg>>

AddLinkLast(h) ==
  /\ Adding(h, "link")
  /\ last[ListOf(h)] # NULL
  /\ next' = [next EXCEPT ![last[ListOf(h)]] = arg[h]]
  /\ Goto(h, pc[h][1], "prev")
  /\ UNCHANGED <<first, last, prev, mutex, arg, aborted>>

AddLinkFirst(h) ==
  /\ Adding(h, "link")
  /\ last[ListOf(h)] = NULL
  /\ IF first[ListOf(h)] # NULL
     THEN aborted' = TRUE /\ UNCHANGED <<first, pc>>
     ELSE /\ first' = [first EXCEPT ![ListOf(h)] = arg[h]]
          /\ Goto(h, pc[h][1], "last")
          /\ UNCHANGED aborted
  /\ UNCHANGED <<last, next, prev, mutex, arg>>

AddPrev(h) ==
  /\ Adding(h, "prev")
  /\ prev' = [prev EXCEPT ![arg[h]] = last[ListOf(h)]]
  /\ Goto(h, pc[h][1], "last")
  /\ UNCHANGED <<first, last, next, mutex, arg, aborted>>

(* The last assignment of add.  The constructor goes on with the next task *)
(* and ends as the accept loop; the acceptor releases the mutex and starts *)
(* the task; a slot's thread releases it and ends.                         *)
AddLast(h) ==
  /\ Adding(h, "last")
  /\ last' = [last EXCEPT ![ListOf(h)] = arg[h]]
  /\ IF pc[h][1] = "construct" /\ arg[h] < MULTIPLICITY
     THEN /\ Goto(h, "construct", "check")
          /\ arg' = [arg EXCEPT ![h] = @ + 1]
     ELSE /\ pc' = [t \in Thread |->
                      IF t = h THEN IF h = Acceptor THEN <<"accept">> ELSE <<"none">>
                      ELSE IF h = Acceptor /\ pc[h][1] = "add" /\ t = arg[h]
                           THEN <<"run">> ELSE pc[t]]
          /\ UNCHANGED arg
  /\ mutex' = Nobody
  /\ UNCHANGED <<first, next, prev, aborted>>

-----------------------------------------------------------------------------
(* CommunicationTaskList::remove.                                          *)

RemoveForward(h) ==
  /\ At(h, "remove", "forward")
  /\ LET t == arg[h] IN
       IF prev[t] # NULL
       THEN next' = [next EXCEPT ![prev[t]] = next[t]] /\ UNCHANGED first
       ELSE first' = [first EXCEPT ![ListOf(h)] = next[t]] /\ UNCHANGED next
  /\ Goto(h, "remove", "backward")
  /\ UNCHANGED <<last, prev, mutex, arg, aborted>>

WrongEnd_RemoveBackward(h) ==
  /\ At(h, "remove", "backward")
  /\ prev' = IF next[arg[h]] # NULL THEN [prev EXCEPT ![next[arg[h]]] = prev[arg[h]]]
             ELSE prev
  /\ Goto(h, "remove", "next")
  /\ UNCHANGED <<first, last, next, mutex, arg, aborted>>

RemoveBackward(h) ==
  /\ At(h, "remove", "backward")
  /\ LET t == arg[h] IN
       IF next[t] # NULL
       THEN prev' = [prev EXCEPT ![next[t]] = prev[t]] /\ UNCHANGED last
       ELSE last' = [last EXCEPT ![ListOf(h)] = prev[t]] /\ UNCHANGED prev
  /\ Goto(h, "remove", "next")
  /\ UNCHANGED <<first, next, mutex, arg, aborted>>

RemoveNext(h) ==
  /\ At(h, "remove", "next")
  /\ next' = [next EXCEPT ![arg[h]] = NULL]
  /\ Goto(h, "remove", "prev")
  /\ UNCHANGED <<first, last, prev, mutex, arg, aborted>>

WrongKept_RemovePrev(h) ==
  /\ At(h, "remove", "prev")
  /\ Goto(h, "add", "check")
  /\ UNCHANGED <<first, last, next, prev, mutex, arg, aborted>>

RemovePrev(h) ==
  /\ At(h, "remove", "prev")
  /\ prev' = [prev EXCEPT ![arg[h]] = NULL]
  /\ Goto(h, "add", "check")
  /\ UNCHANGED <<first, last, next, mutex, arg, aborted>>

-----------------------------------------------------------------------------
(* The critical sections of IRServerTask.                                  *)

(* run: a connection came in; take the mutex.                              *)
AcceptorLock ==
  /\ ~aborted /\ pc[Acceptor] = <<"accept">>
  /\ mutex = Nobody
  /\ mutex' = Acceptor
  /\ pc' = [pc EXCEPT ![Acceptor] = <<"getFirst">>]
  /\ UNCHANGED <<first, last, next, prev, arg, aborted>>

(* getFirst, and the busy branch when it returns NULL.                     *)
GetFirst ==
  /\ ~aborted /\ pc[Acceptor] = <<"getFirst">>
  /\ IF first["free"] # NULL
     THEN /\ arg' = [arg EXCEPT ![Acceptor] = first["free"]]
          /\ Goto(Acceptor, "remove", "forward")
          /\ UNCHANGED mutex
     ELSE /\ mutex' = Nobody
          /\ pc' = [pc EXCEPT ![Acceptor] = <<"accept">>]
          /\ UNCHANGED arg
  /\ UNCHANGED <<first, last, next, prev, aborted>>

WrongUnlocked_EndCommTask(t) ==
  /\ ~aborted /\ pc[t] = <<"run">>
  /\ Goto(t, "remove", "forward")
  /\ UNCHANGED <<first, last, next, prev, mutex, arg, aborted>>

(* endCommTask, called by the thread of task t.                            *)
EndCommTask(t) ==
  /\ ~aborted /\ pc[t] = <<"run">>
  /\ mutex = Nobody
  /\ mutex' = t
  /\ Goto(t, "remove", "forward")
  /\ UNCHANGED <<first, last, next, prev, arg, aborted>>

-----------------------------------------------------------------------------
ListStep(h) ==
  \/ AddCheck(h) \/ AddLinkLast(h) \/ AddLinkFirst(h) \/ AddPrev(h) \/ AddLast(h)
  \/ RemoveForward(h) \/ RemoveBackward(h) \/ RemoveNext(h) \/ RemovePrev(h)

Next ==
  \/ \E h \in Thread : ListStep(h)
  \/ AcceptorLock \/ GetFirst
  \/ \E t \in Task : EndCommTask(t)

Spec == Init /\ [][Next]_vars

-----------------------------------------------------------------------------
(* Properties.                                                             *)

(* Following link from start, at most as far as there are tasks.           *)
Chain(start, link) ==
  LET at[k \in 1 .. MULTIPLICITY] ==
        IF k = 1 THEN start ELSE IF at[k-1] = NULL THEN NULL ELSE link[at[k-1]]
  IN  [k \in 1 .. Cardinality({i \in 1 .. MULTIPLICITY : at[i] # NULL}) |-> at[k]]

(* No sequence of connections beginning and ending makes add find its task *)
(* still linked, or a list with a first and no last: "task list corrupted" *)
(* never happens.                                                          *)
NeverAborts == ~aborted

(* Whenever the mutex is free the two directions of each list agree, its   *)
(* ends are closed, and every task is in one of the two lists.             *)
WellLinked ==
  mutex = Nobody /\ pc[Acceptor] = <<"accept">> =>
    /\ \A l \in List :
         /\ Chain(last[l], prev) = Reverse(Chain(first[l], next))
         /\ first[l] # NULL => prev[first[l]] = NULL
         /\ last[l] # NULL => next[last[l]] = NULL
    /\ \A t \in Task : \E l \in List : Linked(Chain(first[l], next), t)

(* The lists, read forward, implement the abstract lists: the assignment   *)
(* that links or unlinks a task forward is the whole operation, the others *)
(* change nothing a reader of getFirst could see.                          *)
Q == INSTANCE TaskQueue WITH
       lists <- [l \in List |-> Chain(first[l], next)]

ImplementsTaskQueue == Q!Spec
=============================================================================
