----------------------------- MODULE TaskLists -----------------------------
(***************************************************************************)
(* The content of a CommunicationTaskList (main/irserver.cpp) as the       *)
(* sequence of its tasks, first to last.                                   *)
(***************************************************************************)
EXTENDS Naturals, SequencesExt

(* Whether task t is linked in the list q.                                 *)
Linked(q, t) == \E i \in DOMAIN q : q[i] = t

(* No task is linked twice in the list q.                                  *)
Distinct(q) == \A i, j \in DOMAIN q : q[i] = q[j] => i = j

(* What remove(t) leaves of the list q.                                    *)
Unlink(q, t) == RemoveAt(q, CHOOSE i \in DOMAIN q : q[i] = t)
=============================================================================
