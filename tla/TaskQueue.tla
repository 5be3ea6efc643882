----------------------------- MODULE TaskQueue -----------------------------
(***************************************************************************)
(* What the two CommunicationTaskLists of the server promise together      *)
(* (main/irserver.cpp): a task is in at most one list, a list keeps the    *)
(* order the tasks were added in, add takes only a task that is in no      *)
(* list, and remove only a task that is in the list it is removed from.    *)
(* The pool of IRServerTask implements this specification by the calls it  *)
(* makes, CommunicationTaskList by the pointers it assigns.                *)
(***************************************************************************)
EXTENDS TaskLists

CONSTANTS Task,   \* the tasks that can be linked
          List    \* the names of the lists

VARIABLE lists    \* the tasks of each list, first to last

Init == lists = [l \in List |-> <<>>]

AddTask(l, t) ==
  /\ \A k \in List : ~Linked(lists[k], t)
  /\ lists' = [lists EXCEPT ![l] = Append(@, t)]

RemoveTask(l, t) ==
  /\ Linked(lists[l], t)
  /\ lists' = [lists EXCEPT ![l] = Unlink(@, t)]

Next == \E l \in List, t \in Task : AddTask(l, t) \/ RemoveTask(l, t)

Spec == Init /\ [][Next]_lists
=============================================================================
