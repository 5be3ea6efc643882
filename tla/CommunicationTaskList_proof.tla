-------------------- MODULE CommunicationTaskList_proof --------------------
(***************************************************************************)
(* The linked lists of tasks, for any number of tasks.  The invariant says *)
(* which sequences of tasks the pointers make, and at each statement of    *)
(* add and remove what is still to be assigned.  It follows that add never *)
(* finds a list corrupted, that the two directions of a list agree when    *)
(* nobody works on it, and that the lists implement TaskQueue.             *)
(***************************************************************************)
EXTENDS CommunicationTaskList, TaskLists_proof, FiniteSetTheorems, WellFoundedInduction

-----------------------------------------------------------------------------
(* Lists and the pointers that make them.                                  *)

(* The i-th task of the list s, or NULL outside of it.                     *)
Nth(s, i) == IF i \in DOMAIN s THEN s[i] ELSE NULL

(* The tasks reached from f through nx are those of s.                     *)
Fwd(f, nx, s) == f = Nth(s, 1) /\ \A i \in DOMAIN s : nx[s[i]] = Nth(s, i + 1)

(* And those reached from b through pv are those of s, last to first.      *)
Bwd(b, pv, s) == b = Nth(s, Len(s)) /\ \A i \in DOMAIN s : pv[s[i]] = Nth(s, i - 1)

(* A nonempty set of naturals has a least element.                         *)
LEMMA Least ==
  ASSUME NEW T, T \subseteq Nat, T # {}
  PROVE  \E x \in T : \A y \in T : x <= y
<1>1. PICK x \in T : \A y \in T : ~(<<y, x>> \in OpToRel(<, Nat))
  BY NatLessThanWellFounded, WFMin
<1>2. \A y \in T : ~(y < x)
  BY <1>1 DEF OpToRel
<1> QED
  BY <1>2

(* A list of tasks, none twice, is no longer than there are tasks.         *)
LEMMA DistinctLength ==
  ASSUME NEW s \in Seq(Task), Distinct(s)
  PROVE  Len(s) <= MULTIPLICITY
<1>1. MULTIPLICITY \in Nat /\ Len(s) \in Nat /\ DOMAIN s = 1 .. Len(s)
  BY ListAssumption, LenProperties
<1>2. /\ IsFiniteSet(1 .. Len(s)) /\ Cardinality(1 .. Len(s)) = Len(s)
      /\ IsFiniteSet(Task) /\ Cardinality(Task) = MULTIPLICITY
  <2>1. /\ Cardinality(1 .. Len(s)) = IF 1 > Len(s) THEN 0 ELSE Len(s) - 1 + 1
        /\ Cardinality(1 .. MULTIPLICITY) = IF 1 > MULTIPLICITY THEN 0 ELSE MULTIPLICITY - 1 + 1
        /\ IsFiniteSet(1 .. Len(s)) /\ IsFiniteSet(1 .. MULTIPLICITY)
    BY <1>1, FS_Interval
  <2> QED
    BY <1>1, <2>1 DEF Task
<1>3. s \in [1 .. Len(s) -> Task]
  BY <1>1
<1>4. SUFFICES ASSUME MULTIPLICITY < Len(s) PROVE FALSE
  BY <1>1
<1>5. \E i, j \in 1 .. Len(s) : i # j /\ s[i] = s[j]
  BY <1>2, <1>3, <1>4, FS_PigeonHole
<1> QED
  BY <1>1, <1>5 DEF Distinct

(* Followed from its first task, a list is what it is.                     *)
LEMMA ChainIs ==
  ASSUME NEW s \in Seq(Task), Distinct(s), NEW f, NEW nx, Fwd(f, nx, s)
  PROVE  Chain(f, nx) = s
<1> DEFINE Step(at, k) == IF k = 1 THEN f ELSE IF at[k - 1] = NULL THEN NULL ELSE nx[at[k - 1]]
           Is(at) == at = [k \in 1 .. MULTIPLICITY |-> Step(at, k)]
           g == [k \in 1 .. MULTIPLICITY |-> Nth(s, k)]
           at == CHOOSE x : Is(x)
<1>1. MULTIPLICITY \in Nat /\ Len(s) \in Nat /\ DOMAIN s = 1 .. Len(s) /\ Len(s) <= MULTIPLICITY
  BY ListAssumption, LenProperties, DistinctLength
<1>2. \A i \in 1 .. Len(s) : s[i] \in Task /\ s[i] # NULL
  BY <1>1, ListAssumption
<1>3. Is(g)
  <2>1. ASSUME NEW k \in 1 .. MULTIPLICITY PROVE Nth(s, k) = Step(g, k)
    <3>1. CASE k = 1
      BY <3>1 DEF Fwd
    <3>2. CASE k # 1
      <4>1. k - 1 \in 1 .. MULTIPLICITY /\ g[k - 1] = Nth(s, k - 1)
        BY <1>1, <3>2
      <4>2. CASE k - 1 \in 1 .. Len(s)
        BY <1>1, <1>2, <3>2, <4>1, <4>2 DEF Fwd, Nth
      <4>3. CASE k - 1 \notin 1 .. Len(s)
        BY <1>1, <3>2, <4>1, <4>3 DEF Nth
      <4> QED
        BY <4>2, <4>3
    <3> QED
      BY <3>1, <3>2
  <2> QED
    BY <2>1
<1>4. Is(at)
  BY <1>3
<1> HIDE DEF at
<1>5. ASSUME NEW x, Is(x), x # g PROVE FALSE
  <2> DEFINE T == {k \in 1 .. MULTIPLICITY : x[k] # g[k]}
  <2>1. T # {}
    BY <1>5
  <2>2. PICK k \in T : \A j \in T : k <= j
    <3>1. T \subseteq Nat
      OBVIOUS
    <3> HIDE DEF T
    <3> QED
      BY <2>1, <3>1, Least
  <2>3. k \in 1 .. MULTIPLICITY /\ x[k] # g[k] /\ x[k] = Step(x, k) /\ g[k] = Step(g, k)
    BY <1>3, <1>5, <2>2
  <2>4. k # 1
    BY <2>3
  <2>5. k - 1 \in 1 .. MULTIPLICITY /\ k - 1 \notin T
    BY <1>1, <2>2, <2>3, <2>4
  <2>6. x[k - 1] = g[k - 1]
    BY <2>5
  <2> HIDE DEF g
  <2> QED
    BY <2>3, <2>4, <2>6
<1>6. at = g
  BY <1>4, <1>5
<1>7. Chain(f, nx) = [k \in 1 .. Cardinality({i \in 1 .. MULTIPLICITY : at[i] # NULL}) |-> at[k]]
  BY DEF Chain, at
<1>8. {i \in 1 .. MULTIPLICITY : at[i] # NULL} = 1 .. Len(s)
  BY <1>1, <1>2, <1>6 DEF Nth
<1>9. Cardinality(1 .. Len(s)) = Len(s)
  <2>1. 1 \in Int /\ Len(s) \in Int
    BY <1>1
  <2>2. Cardinality(1 .. Len(s)) = IF 1 > Len(s) THEN 0 ELSE Len(s) - 1 + 1
    BY <2>1, FS_Interval
  <2> QED
    BY <1>1, <2>2
<1>10. Chain(f, nx) = [k \in 1 .. Len(s) |-> s[k]]
  <2>1. \A k \in 1 .. Len(s) : at[k] = s[k]
    BY <1>1, <1>6 DEF Nth
  <2> QED
    BY <1>7, <1>8, <1>9, <2>1
<1> QED
  BY <1>1, <1>10

-----------------------------------------------------------------------------
(* The inductive invariant.  q is what the lists hold, l the list and t    *)
(* the task of the operation that is going on, p the statement it is at.   *)

(* Task t is in one of the lists.                                          *)
In(q, t) == \E l \in List : Linked(q[l], t)

(* No task is twice in the lists.                                          *)
Lists(q) ==
  /\ q \in [List -> Seq(Task)]
  /\ \A l \in List : Distinct(q[l])
  /\ \A t \in Task : ~(Linked(q["free"], t) /\ Linked(q["running"], t))

(* Each list can be followed forward at every statement, the other one     *)
(* backward, too, and a task in no list has no links.                      *)
HeapInv(q, l, t) ==
  /\ Lists(q)
  /\ \A k \in List : Fwd(first[k], next, q[k])
  /\ \A k \in List \ {l} : Bwd(last[k], prev, q[k])
  /\ \A u \in Task \ {t} : ~In(q, u) => next[u] = NULL /\ prev[u] = NULL

(* The task is in no list.                                                 *)
Detached(q, l, t) == Bwd(last[l], prev, q[l]) /\ ~In(q, t)

(* The task is reached forward, but not yet backward ...                   *)
Appended(q, l, t) ==
  LET n == Len(q[l])
  IN  /\ n > 1 /\ q[l][n] = t /\ last[l] = q[l][n - 1] /\ prev[t] = NULL
      /\ \A i \in 1 .. n - 1 : prev[q[l][i]] = Nth(q[l], i - 1)

(* ... or only the end of the list is still missing.                       *)
BackLinked(q, l, t) ==
  LET n == Len(q[l])
  IN  /\ n > 0 /\ q[l][n] = t /\ last[l] = Nth(q[l], n - 1)
      /\ \A i \in 1 .. n : prev[q[l][i]] = Nth(q[l], i - 1)

(* The task was the i-th, is no longer reached forward, but backward.      *)
Bypassed(q, l, t) ==
  LET n == Len(q[l])
  IN  /\ ~In(q, t)
      /\ \E i \in 1 .. n + 1 :
           /\ next[t] = Nth(q[l], i) /\ prev[t] = Nth(q[l], i - 1)
           /\ last[l] = IF i = n + 1 THEN t ELSE Nth(q[l], n)
           /\ \A j \in 1 .. n : prev[q[l][j]] = IF j = i THEN t ELSE Nth(q[l], j - 1)

Stage(p, q, l, t) ==
  /\ p[1] \in {"construct", "add"} /\ p[2] \in {"check", "link"} =>
       Detached(q, l, t) /\ next[t] = NULL /\ prev[t] = NULL
  /\ p[1] \in {"construct", "add"} /\ p[2] = "prev" => Appended(q, l, t)
  /\ p[1] \in {"construct", "add"} /\ p[2] = "last" => BackLinked(q, l, t)
  /\ p = <<"remove", "forward">>  => Bwd(last[l], prev, q[l]) /\ Linked(q[l], t)
  /\ p = <<"remove", "backward">> => Bypassed(q, l, t)
  /\ p = <<"remove", "next">>     => Detached(q, l, t)
  /\ p = <<"remove", "prev">>     => Detached(q, l, t) /\ next[t] = NULL

Constructing == {"construct"} \X {"check", "link", "prev", "last"}
Moving == ({"add"} \X {"check", "link", "prev", "last"})
            \cup ({"remove"} \X {"forward", "backward", "next", "prev"})

(* Whoever moves a task has the mutex, once the constructor is done.       *)
ThreadInv ==
  /\ ~aborted
  /\ first \in [List -> Task \cup {NULL}] /\ last \in [List -> Task \cup {NULL}]
  /\ next \in [Task -> Task \cup {NULL}] /\ prev \in [Task -> Task \cup {NULL}]
  /\ mutex \in Thread \cup {Nobody} /\ arg \in [Thread -> Task]
  /\ DOMAIN pc = Thread
  /\ pc[Acceptor] \in Constructing \cup Moving \cup {<<"accept">>, <<"getFirst">>}
  /\ \A t \in Task : pc[t] \in Moving \cup {<<"none">>, <<"run">>} /\ arg[t] = t
  /\ \A h \in Thread : mutex = h <=> pc[h] \in Moving \cup {<<"getFirst">>}
  /\ pc[Acceptor] \in Constructing => mutex = Nobody /\ \A t \in Task : pc[t] = <<"none">>

Busy(h) == pc[h] \in Constructing \cup Moving

(* The tasks that run are in the running list, and no task is lost.        *)
ContentInv(q) ==
  /\ \A t \in Task : pc[t] = <<"run">> => Linked(q["running"], t)
  /\ \A h \in Thread : Busy(h) =>
       HeapInv(q, ListOf(h), arg[h]) /\ Stage(pc[h], q, ListOf(h), arg[h])
  /\ (\A h \in Thread : ~Busy(h)) =>
       Lists(q) /\ \A l \in List : Fwd(first[l], next, q[l]) /\ Bwd(last[l], prev, q[l])
  /\ pc[Acceptor] \in Constructing =>
       \A t \in Task : In(q, t) <=>
         t < arg[Acceptor] \/ (t = arg[Acceptor] /\ pc[Acceptor][2] \in {"prev", "last"})
  /\ pc[Acceptor] \notin Constructing =>
       \A t \in Task : In(q, t) \/ \E h \in Thread : Busy(h) /\ t = arg[h]

IInv == ThreadInv /\ \E q \in [List -> Seq(Task)] : ContentInv(q)

-----------------------------------------------------------------------------
(* What the lists hold.                                                    *)

(* The lists with task t added to l, and without task t of l.              *)
Added(q, l, t) == [q EXCEPT ![l] = Append(q[l], t)]
Taken(q, l, t) == [q EXCEPT ![l] = Unlink(q[l], t)]

(* A task that is in a list is not NULL; lists are sequences of tasks.     *)
LEMMA Elements ==
  ASSUME NEW q, Lists(q), NEW l \in List
  PROVE  /\ q[l] \in Seq(Task) /\ Len(q[l]) \in Nat /\ DOMAIN q[l] = 1 .. Len(q[l])
         /\ \A i \in 1 .. Len(q[l]) : q[l][i] \in Task /\ q[l][i] # NULL
         /\ \A i, j \in 1 .. Len(q[l]) : q[l][i] = q[l][j] => i = j
<1>1. q[l] \in Seq(Task) /\ Distinct(q[l])
  BY DEF Lists
<1>2. Len(q[l]) \in Nat /\ DOMAIN q[l] = 1 .. Len(q[l])
  BY <1>1, LenProperties
<1>3. \A i \in 1 .. Len(q[l]) : q[l][i] \in Task /\ q[l][i] # NULL
  BY <1>1, <1>2, ListAssumption
<1> QED
  BY <1>1, <1>2, <1>3 DEF Distinct

(* No task is in both.                                                     *)
LEMMA Apart ==
  ASSUME NEW q, Lists(q), NEW k \in List, NEW l \in List, k # l, NEW t, Linked(q[l], t)
  PROVE  ~Linked(q[k], t)
<1>1. t \in Task
  BY Elements DEF Linked
<1> QED
  BY <1>1 DEF Lists, List

(* add, seen from the lists.                                               *)
LEMMA ListsAppend ==
  ASSUME NEW q, Lists(q), NEW l \in List, NEW t \in Task, ~In(q, t)
  PROVE  LET r == Added(q, l, t)
         IN  /\ Lists(r) /\ r[l] = Append(q[l], t) /\ \A k \in List \ {l} : r[k] = q[k]
             /\ \A k \in List : \A u : Linked(r[k], u) <=> Linked(q[k], u) \/ (k = l /\ u = t)
<1> DEFINE r == Added(q, l, t)
<1>1. q \in [List -> Seq(Task)] /\ q[l] \in Seq(Task) /\ Distinct(q[l]) /\ ~Linked(q[l], t)
  BY DEF Lists, In
<1>2. /\ Append(q[l], t) \in Seq(Task) /\ Distinct(Append(q[l], t))
      /\ \A u : Linked(Append(q[l], t), u) <=> Linked(q[l], u) \/ u = t
  BY <1>1, LinkedAppend
<1>3. r \in [List -> Seq(Task)] /\ r[l] = Append(q[l], t) /\ \A k \in List \ {l} : r[k] = q[k]
  BY <1>1, <1>2 DEF Added
<1>4. \A k \in List : \A u : Linked(r[k], u) <=> Linked(q[k], u) \/ (k = l /\ u = t)
  BY <1>2, <1>3
<1>5. \A k \in List : Distinct(r[k])
  BY <1>2, <1>3 DEF Lists
<1>6. \A u \in Task : ~(Linked(r["free"], u) /\ Linked(r["running"], u))
  BY <1>4 DEF Lists, In, List
<1> QED
  BY <1>3, <1>4, <1>5, <1>6 DEF Lists

(* remove, seen from the lists.                                            *)
LEMMA ListsUnlink ==
  ASSUME NEW q, Lists(q), NEW l \in List, NEW t, Linked(q[l], t)
  PROVE  LET r == Taken(q, l, t)
         IN  /\ Lists(r) /\ r[l] = Unlink(q[l], t) /\ \A k \in List \ {l} : r[k] = q[k]
             /\ \A k \in List : \A u : Linked(r[k], u) <=> Linked(q[k], u) /\ u # t
<1> DEFINE r == Taken(q, l, t)
<1>1. q \in [List -> Seq(Task)] /\ q[l] \in Seq(Task) /\ Distinct(q[l])
  BY DEF Lists
<1>2. /\ Unlink(q[l], t) \in Seq(Task) /\ Distinct(Unlink(q[l], t))
      /\ \A u : Linked(Unlink(q[l], t), u) <=> Linked(q[l], u) /\ u # t
  BY <1>1, LinkedUnlink
<1>3. r \in [List -> Seq(Task)] /\ r[l] = Unlink(q[l], t) /\ \A k \in List \ {l} : r[k] = q[k]
  BY <1>1, <1>2 DEF Taken
<1>4. \A k \in List : \A u : Linked(r[k], u) <=> Linked(q[k], u) /\ u # t
  <2>1. \A k \in List \ {l} : ~Linked(q[k], t)
    BY Apart
  <2> QED
    BY <1>2, <1>3, <2>1
<1>5. \A k \in List : Distinct(r[k])
  BY <1>2, <1>3 DEF Lists
<1>6. \A u \in Task : ~(Linked(r["free"], u) /\ Linked(r["running"], u))
  BY <1>4 DEF Lists, List
<1> QED
  BY <1>3, <1>4, <1>5, <1>6 DEF Lists

(* The task of a list that is not the operation's, as the pointers go.     *)
LEMMA OtherList ==
  ASSUME NEW s \in Seq(Task), NEW f, NEW nx, NEW ny, Fwd(f, nx, s),
         \A i \in 1 .. Len(s) : ny[s[i]] = nx[s[i]]
  PROVE  Fwd(f, ny, s)
BY DEF Fwd

(* The same, backward.                                                     *)
LEMMA OtherListBack ==
  ASSUME NEW s \in Seq(Task), NEW b, NEW pv, NEW pw, Bwd(b, pv, s),
         \A i \in 1 .. Len(s) : pw[s[i]] = pv[s[i]]
  PROVE  Bwd(b, pw, s)
BY DEF Bwd

-----------------------------------------------------------------------------
(* add, assignment by assignment.                                          *)

Heap == /\ first \in [List -> Task \cup {NULL}] /\ last \in [List -> Task \cup {NULL}]
        /\ next \in [Task -> Task \cup {NULL}] /\ prev \in [Task -> Task \cup {NULL}]

(* A list with no last has no first: add never finds one without other.    *)
LEMMA EmptyList ==
  ASSUME NEW q, NEW l \in List, NEW t \in Task, HeapInv(q, l, t), Detached(q, l, t)
  PROVE  /\ last[l] = NULL => first[l] = NULL /\ Len(q[l]) = 0
         /\ last[l] # NULL => Len(q[l]) > 0 /\ last[l] = q[l][Len(q[l])]
<1>1. Lists(q) /\ Fwd(first[l], next, q[l]) /\ Bwd(last[l], prev, q[l])
  BY DEF HeapInv, Detached
<1> QED
  BY <1>1, Elements DEF Fwd, Bwd, Nth

(* What a step leaves of the invariant of the pointers: the list it works  *)
(* on can be followed, and the links of the other list are not touched.    *)
LEMMA HeapKept ==
  ASSUME NEW q, NEW r, NEW l \in List, NEW t \in Task, HeapInv(q, l, t), Lists(r),
         \A k \in List \ {l} : r[k] = q[k] /\ first'[k] = first[k] /\ last'[k] = last[k],
         \A k \in List \ {l}, u \in Task :
           Linked(q[k], u) => next'[u] = next[u] /\ prev'[u] = prev[u],
         Fwd(first'[l], next', r[l]),
         \A u \in Task \ {t} : ~In(r, u) => next'[u] = NULL /\ prev'[u] = NULL
  PROVE  HeapInv(r, l, t)'
<1>1. Lists(q)
  BY DEF HeapInv
<1>2. ASSUME NEW k \in List \ {l}
      PROVE  Fwd(first'[k], next', r[k]) /\ Bwd(last'[k], prev', r[k])
  <2>1. q[k] \in Seq(Task) /\ \A i \in 1 .. Len(q[k]) :
          next'[q[k][i]] = next[q[k][i]] /\ prev'[q[k][i]] = prev[q[k][i]]
    BY <1>1, Elements DEF Linked
  <2>2. Fwd(first[k], next, q[k]) /\ Bwd(last[k], prev, q[k])
    BY DEF HeapInv
  <2>3. Fwd(first[k], next', q[k]) /\ Bwd(last[k], prev', q[k])
    BY <2>1, <2>2, OtherList, OtherListBack
  <2> QED
    BY <2>3
<1>3. \A k \in List : Fwd(first'[k], next', r[k])
  BY <1>2
<1> QED
  BY <1>2, <1>3 DEF HeapInv

(* last->next = task                                                       *)
LEMMA LinkLast ==
  ASSUME Heap, NEW q, NEW l \in List, NEW t \in Task, HeapInv(q, l, t), Detached(q, l, t),
         next[t] = NULL, prev[t] = NULL, last[l] # NULL,
         next' = [next EXCEPT ![last[l]] = t], UNCHANGED <<first, last, prev>>
  PROVE  \E r : r = Added(q, l, t) /\ HeapInv(r, l, t)' /\ Appended(r, l, t)'
<1>0. PICK r : r = Added(q, l, t)
  OBVIOUS
<1> DEFINE s == q[l]
           a == Append(s, t)
           n == Len(s)
<1>1. Lists(q) /\ ~In(q, t) /\ \A k \in List : Fwd(first[k], next, q[k])
  BY DEF HeapInv, Detached
<1>2. /\ Lists(r) /\ r[l] = a /\ \A k \in List \ {l} : r[k] = q[k]
      /\ \A k \in List : \A u : Linked(r[k], u) <=> Linked(q[k], u) \/ (k = l /\ u = t)
  <2>1. LET x == Added(q, l, t)
        IN  /\ Lists(x) /\ x[l] = a /\ \A k \in List \ {l} : x[k] = q[k]
            /\ \A k \in List : \A u : Linked(x[k], u) <=> Linked(q[k], u) \/ (k = l /\ u = t)
    BY <1>1, ListsAppend
  <2> QED
    BY <1>0, <2>1
<1>3. /\ s \in Seq(Task) /\ n \in Nat /\ DOMAIN s = 1 .. n
      /\ \A i \in 1 .. n : s[i] \in Task /\ s[i] # NULL /\ s[i] # t
      /\ \A i, j \in 1 .. n : s[i] = s[j] => i = j
  BY <1>1, Elements DEF In, Linked
<1>4. a \in Seq(Task) /\ DOMAIN a = 1 .. n + 1 /\ Len(a) = n + 1 /\ a[n + 1] = t
      /\ \A i \in 1 .. n : a[i] = s[i]
  BY <1>3
<1>5. n > 0 /\ last[l] = s[n]
  BY EmptyList
<1>6. \A u \in Task : next'[u] = IF u = s[n] THEN t ELSE next[u]
  BY <1>5 DEF Heap
<1> HIDE DEF a
<1>7. Fwd(first[l], next', a)
  <2>1. first[l] = Nth(a, 1)
    BY <1>1, <1>3, <1>4, <1>5 DEF Fwd, Nth
  <2>2. ASSUME NEW i \in 1 .. n + 1 PROVE next'[a[i]] = Nth(a, i + 1)
    <3>1. CASE i = n + 1
      BY <1>3, <1>4, <1>5, <1>6, <3>1 DEF Nth
    <3>2. CASE i = n
      BY <1>3, <1>4, <1>5, <1>6, <3>2 DEF Nth
    <3>3. CASE i < n
      <4>1. next[s[i]] = Nth(s, i + 1) /\ a[i] = s[i] /\ s[i] # s[n] /\ s[i] \in Task
        BY <1>1, <1>3, <1>4, <1>5, <3>3 DEF Fwd
      <4> QED
        BY <1>3, <1>4, <1>6, <3>3, <4>1 DEF Nth
    <3> QED
      BY <1>3, <2>2, <3>1, <3>2, <3>3
  <2> QED
    BY <1>4, <2>1, <2>2 DEF Fwd
<1>8. Linked(q[l], s[n])
  BY <1>3, <1>5 DEF Linked
<1>9. \A k \in List \ {l}, u \in Task : Linked(q[k], u) => u # s[n]
  BY <1>1, <1>8, Apart
<1>10. \A u \in Task \ {t} : ~In(r, u) => ~In(q, u) /\ u # s[n]
  BY <1>2, <1>8 DEF In
<1>11. HeapInv(r, l, t)'
  <2>1. \A u \in Task \ {t} : ~In(r, u) => next'[u] = NULL /\ prev'[u] = NULL
    BY <1>6, <1>10 DEF HeapInv
  <2> QED
    <3>1. \A k \in List \ {l} : r[k] = q[k] /\ first'[k] = first[k] /\ last'[k] = last[k]
      BY <1>2
    <3>2. \A k \in List \ {l}, u \in Task :
            Linked(q[k], u) => next'[u] = next[u] /\ prev'[u] = prev[u]
      BY <1>6, <1>9
    <3>3. Lists(r) /\ Fwd(first'[l], next', r[l])
      BY <1>2, <1>7
    <3> QED
      BY <2>1, <3>1, <3>2, <3>3, HeapKept
<1>12. \A i \in 1 .. n : prev[a[i]] = Nth(a, i - 1)
  <2>1. \A i \in 1 .. n : prev[s[i]] = Nth(s, i - 1)
    BY <1>3 DEF Detached, Bwd
  <2>2. ASSUME NEW i \in 1 .. n PROVE Nth(s, i - 1) = Nth(a, i - 1)
    <3>1. CASE i = 1
      BY <1>3, <1>4, <3>1 DEF Nth
    <3>2. CASE i # 1
      <4>1. i - 1 \in 1 .. n /\ i - 1 \in 1 .. n + 1
        BY <1>3, <2>2, <3>2
      <4> QED
        BY <1>3, <1>4, <4>1 DEF Nth
    <3> QED
      BY <3>1, <3>2
  <2> QED
    BY <1>3, <1>4, <2>1, <2>2
<1>13. Appended(r, l, t)'
  BY <1>2, <1>3, <1>4, <1>5, <1>12 DEF Appended
<1> QED
  BY <1>0, <1>11, <1>13

(* first = task                                                            *)
LEMMA LinkFirst ==
  ASSUME Heap, NEW q, NEW l \in List, NEW t \in Task, HeapInv(q, l, t), Detached(q, l, t),
         next[t] = NULL, prev[t] = NULL, last[l] = NULL,
         first' = [first EXCEPT ![l] = t], UNCHANGED <<last, next, prev>>
  PROVE  \E r : r = Added(q, l, t) /\ HeapInv(r, l, t)' /\ BackLinked(r, l, t)'
<1>0. PICK r : r = Added(q, l, t)
  OBVIOUS
<1> DEFINE a == Append(q[l], t)
<1>1. Lists(q) /\ ~In(q, t)
  BY DEF HeapInv, Detached
<1>2. /\ Lists(r) /\ r[l] = a /\ \A k \in List \ {l} : r[k] = q[k]
      /\ \A k \in List : \A u : Linked(r[k], u) <=> Linked(q[k], u) \/ (k = l /\ u = t)
  BY <1>0, <1>1, ListsAppend
<1>3. q[l] \in Seq(Task) /\ Len(q[l]) = 0
  BY <1>1, Elements, EmptyList
<1>4. a \in Seq(Task) /\ DOMAIN a = 1 .. 1 /\ Len(a) = 1 /\ a[1] = t
  BY <1>3
<1>5. first'[l] = t /\ \A k \in List \ {l} : first'[k] = first[k]
  BY DEF Heap
<1> HIDE DEF a
<1>6. Fwd(first'[l], next', r[l])
  BY <1>2, <1>4, <1>5 DEF Fwd, Nth
<1>7. \A u \in Task \ {t} : ~In(r, u) => next'[u] = NULL /\ prev'[u] = NULL
  BY <1>2 DEF HeapInv, In
<1>8. HeapInv(r, l, t)'
  BY <1>2, <1>5, <1>6, <1>7, HeapKept
<1>9. BackLinked(r, l, t)'
  BY <1>2, <1>4 DEF BackLinked, Nth
<1> QED
  BY <1>0, <1>8, <1>9

(* task->prev = last                                                       *)
LEMMA LinkBack ==
  ASSUME Heap, NEW q, NEW l \in List, NEW t \in Task, HeapInv(q, l, t), Appended(q, l, t),
         prev' = [prev EXCEPT ![t] = last[l]], UNCHANGED <<first, last, next>>
  PROVE  HeapInv(q, l, t)' /\ BackLinked(q, l, t)'
<1>1. Lists(q) /\ Fwd(first[l], next, q[l])
  BY DEF HeapInv
<1>2. prev'[t] = last[l] /\ \A u \in Task \ {t} : prev'[u] = prev[u]
  BY DEF Heap
<1> DEFINE s == q[l]
           n == Len(s)
<1>3. /\ s \in Seq(Task) /\ n \in Nat /\ DOMAIN s = 1 .. n
      /\ \A i \in 1 .. n : s[i] \in Task /\ s[i] # NULL
      /\ \A i, j \in 1 .. n : s[i] = s[j] => i = j
  BY <1>1, Elements
<1>4. /\ n > 1 /\ s[n] = t /\ last[l] = s[n - 1]
      /\ \A i \in 1 .. n - 1 : prev[s[i]] = Nth(s, i - 1)
  BY DEF Appended
<1>5. Linked(q[l], t)
  BY <1>3, <1>4 DEF Linked
<1>6. \A k \in List \ {l}, u \in Task : Linked(q[k], u) => u # t
  BY <1>1, <1>5, Apart
<1>7. HeapInv(q, l, t)'
  <2>1. \A u \in Task \ {t} : ~In(q, u) => next'[u] = NULL /\ prev'[u] = NULL
    BY <1>2 DEF HeapInv
  <2> QED
    BY <1>1, <1>2, <1>6, <2>1, HeapKept
<1> HIDE DEF s
<1>8. ASSUME NEW i \in 1 .. n PROVE prev'[s[i]] = Nth(s, i - 1)
  <2>1. CASE i = n
    <3>1. n - 1 \in DOMAIN s
      BY <1>3, <1>4
    <3> QED
      BY <1>2, <1>4, <2>1, <3>1 DEF Nth
  <2>2. CASE i # n
    <3>1. n \in 1 .. n /\ i \in 1 .. n - 1
      <4>1. n \in Nat /\ n > 1
        BY <1>3, <1>4
      <4> HIDE DEF n
      <4> QED
        BY <4>1, <2>2
    <3>2. s[i] \in Task /\ s[i] # t
      BY <1>3, <1>4, <2>2, <3>1
    <3> QED
      BY <1>2, <1>4, <3>1, <3>2
  <2> QED
    BY <2>1, <2>2
<1>9. last'[l] = Nth(s, n - 1)
  <2>1. n - 1 \in DOMAIN s
    BY <1>3, <1>4
  <2> QED
    BY <1>4, <2>1 DEF Nth
<1>10. BackLinked(q, l, t)'
  BY <1>3, <1>4, <1>8, <1>9 DEF BackLinked, s
<1> QED
  BY <1>7, <1>10

(* last = task                                                             *)
LEMMA LinkEnd ==
  ASSUME Heap, NEW q, NEW l \in List, NEW t \in Task, HeapInv(q, l, t), BackLinked(q, l, t),
         last' = [last EXCEPT ![l] = t], UNCHANGED <<first, next, prev>>
  PROVE  /\ Linked(q[l], t)
         /\ \A k \in List, u \in Task : HeapInv(q, k, u)' /\ Bwd(last[k], prev, q[k])'
<1>1. Lists(q) /\ Fwd(first[l], next, q[l])
  BY DEF HeapInv
<1>2. last'[l] = t /\ \A k \in List \ {l} : last'[k] = last[k]
  BY DEF Heap
<1> DEFINE s == q[l]
           n == Len(s)
<1>3. /\ s \in Seq(Task) /\ n \in Nat /\ DOMAIN s = 1 .. n
      /\ n > 0 /\ s[n] = t /\ \A i \in 1 .. n : prev[s[i]] = Nth(s, i - 1)
  BY <1>1, Elements DEF BackLinked
<1>4. Linked(q[l], t)
  BY <1>3 DEF Linked
<1>5. Bwd(last'[l], prev', q[l])
  BY <1>2, <1>3 DEF Bwd, Nth
<1>6. \A k \in List : Bwd(last'[k], prev', q[k])
  BY <1>2, <1>5 DEF HeapInv
<1>7. ASSUME NEW u \in Task, ~In(q, u) PROVE next'[u] = NULL /\ prev'[u] = NULL
  BY <1>4, <1>7 DEF HeapInv, In
<1>8. \A k \in List : Fwd(first'[k], next', q[k])
  BY DEF HeapInv
<1> QED
  BY <1>1, <1>4, <1>6, <1>7, <1>8 DEF HeapInv

-----------------------------------------------------------------------------
(* remove, assignment by assignment.                                       *)

(* The list a is s without its i-th task.                                  *)
IsWithout(a, s, i) ==
  /\ a \in Seq(Task) /\ Len(a) = Len(s) - 1 /\ DOMAIN a = 1 .. Len(s) - 1
  /\ \A j \in 1 .. Len(s) - 1 : a[j] = IF j < i THEN s[j] ELSE s[j + 1]

(* The list without its i-th task t.                                       *)
LEMMA Removed ==
  ASSUME NEW q, Lists(q), NEW l \in List, NEW t, NEW i \in 1 .. Len(q[l]), q[l][i] = t
  PROVE  IsWithout(Unlink(q[l], t), q[l], i)
<1>1. /\ q[l] \in Seq(Task) /\ Len(q[l]) \in Nat /\ DOMAIN q[l] = 1 .. Len(q[l])
      /\ \A j, k \in 1 .. Len(q[l]) : q[l][j] = q[l][k] => j = k
  BY Elements
<1> DEFINE s == q[l]
           a == RemoveAt(s, i)
<1>2. (CHOOSE j \in DOMAIN s : s[j] = t) = i
  BY <1>1
<1> HIDE DEF s
<1>3. /\ a \in Seq(Task) /\ Len(a) = Len(s) - 1
      /\ \A j \in 1 .. Len(s) - 1 : a[j] = IF j < i THEN s[j] ELSE s[j + 1]
  <2>1. s \in Seq(Task) /\ i \in 1 .. Len(s)
    BY <1>1 DEF s
  <2> QED
    BY <2>1, RemoveAtProperties
<1> HIDE DEF a
<1>4. DOMAIN a = 1 .. Len(s) - 1
  BY <1>3, LenProperties
<1>5. Unlink(s, t) = a
  BY <1>2 DEF Unlink, a
<1> QED
  BY <1>3, <1>4, <1>5 DEF s, IsWithout

(* prev->next = next, or first = next                                      *)
LEMMA UnlinkForward ==
  ASSUME Heap, NEW q, NEW l \in List, NEW t \in Task, HeapInv(q, l, t),
         Bwd(last[l], prev, q[l]), Linked(q[l], t),
         IF prev[t] # NULL
         THEN next' = [next EXCEPT ![prev[t]] = next[t]] /\ UNCHANGED first
         ELSE first' = [first EXCEPT ![l] = next[t]] /\ UNCHANGED next,
         UNCHANGED <<last, prev>>
  PROVE  \E r : r = Taken(q, l, t) /\ HeapInv(r, l, t)' /\ Bypassed(r, l, t)'
<1>0. PICK r : r = Taken(q, l, t)
  OBVIOUS
<1> DEFINE s == q[l]
           a == Unlink(s, t)
           n == Len(s)
<1>1. Lists(q) /\ Fwd(first[l], next, s)
  BY DEF HeapInv
<1>2. /\ Lists(r) /\ r[l] = a /\ \A k \in List \ {l} : r[k] = q[k]
      /\ \A k \in List : \A u : Linked(r[k], u) <=> Linked(q[k], u) /\ u # t
  BY <1>0, <1>1, ListsUnlink
<1>3. /\ s \in Seq(Task) /\ n \in Nat /\ DOMAIN s = 1 .. n
      /\ \A i \in 1 .. n : s[i] \in Task /\ s[i] # NULL
      /\ \A i, j \in 1 .. n : s[i] = s[j] => i = j
  BY <1>1, Elements
<1>4. PICK i \in 1 .. n : s[i] = t
  BY <1>3 DEF Linked
<1>5. /\ a \in Seq(Task) /\ Len(a) = n - 1 /\ DOMAIN a = 1 .. n - 1
      /\ \A j \in 1 .. n - 1 : a[j] = IF j < i THEN s[j] ELSE s[j + 1]
  <2>1. IsWithout(a, s, i)
    BY <1>1, <1>4, Removed
  <2> HIDE DEF a, s
  <2> QED
    BY <2>1 DEF IsWithout
<1> HIDE DEF a
<1>6. \A k \in List \ {l}, u \in Task : Linked(q[k], u) => ~Linked(s, u)
  BY <1>1, Apart
<1> HIDE DEF s
<1>7. /\ first[l] = Nth(s, 1) /\ last[l] = Nth(s, n)
      /\ \A j \in 1 .. n : next[s[j]] = Nth(s, j + 1) /\ prev[s[j]] = Nth(s, j - 1)
  BY <1>1, <1>3 DEF Fwd, Bwd, s
<1>8. ASSUME i = 1 PROVE HeapInv(r, l, t)' /\ next'[t] = Nth(a, i)
  <2>1. prev[t] = NULL /\ next[t] = Nth(s, 2)
    BY <1>3, <1>4, <1>7, <1>8 DEF Nth
  <2>2. /\ first'[l] = next[t] /\ \A k \in List \ {l} : first'[k] = first[k]
        /\ next' = next
    BY <2>1 DEF Heap
  <2>3. first'[l] = Nth(a, 1)
    BY <1>3, <1>5, <1>8, <2>1, <2>2 DEF Nth
  <2>4. ASSUME NEW j \in 1 .. n - 1 PROVE next'[a[j]] = Nth(a, j + 1)
    <3>1. a[j] = s[j + 1] /\ j + 1 \in 1 .. n /\ next'[a[j]] = Nth(s, (j + 1) + 1)
      BY <1>3, <1>5, <1>7, <1>8, <2>2, <2>4
    <3> QED
      BY <1>3, <1>5, <1>8, <3>1 DEF Nth
  <2>5. Fwd(first'[l], next', r[l])
    BY <1>2, <1>5, <2>3, <2>4 DEF Fwd
  <2>6. HeapInv(r, l, t)'
    <3>1. \A u \in Task \ {t} : ~In(r, u) => next'[u] = NULL /\ prev'[u] = NULL
      BY <1>2, <2>2 DEF HeapInv, In
    <3> QED
      BY <1>2, <2>2, <2>5, <3>1, HeapKept
  <2>7. next'[t] = Nth(a, i)
    BY <2>1, <2>2, <2>3, <1>8
  <2> QED
    BY <2>6, <2>7
<1>9. ASSUME i # 1 PROVE HeapInv(r, l, t)' /\ next'[t] = Nth(a, i)
  <2>1. i - 1 \in 1 .. n /\ prev[t] = s[i - 1] /\ next[t] = Nth(s, i + 1)
    <3>1. i - 1 \in 1 .. n
      BY <1>3, <1>9
    <3> QED
      BY <1>3, <1>4, <1>7, <3>1 DEF Nth
  <2>2. /\ first' = first /\ s[i - 1] \in Task
        /\ \A u \in Task : next'[u] = IF u = s[i - 1] THEN next[t] ELSE next[u]
    BY <1>3, <2>1 DEF Heap
  <2>3. Nth(s, i + 1) = Nth(a, i)
    <3>1. CASE i = n
      BY <1>3, <1>5, <3>1 DEF Nth
    <3>2. CASE i # n
      BY <1>3, <1>5, <3>2 DEF Nth
    <3> QED
      BY <3>1, <3>2
  <2>4. first'[l] = Nth(a, 1)
    <3>1. 1 \in 1 .. n - 1 /\ 1 < i
      BY <1>3, <1>9
    <3> QED
      BY <1>3, <1>5, <1>7, <2>2, <3>1 DEF Nth
  <2>5. ASSUME NEW j \in 1 .. n - 1 PROVE next'[a[j]] = Nth(a, j + 1)
    <3>1. CASE j < i - 1
      <4>1. /\ j \in 1 .. n /\ a[j] = s[j] /\ s[j] # s[i - 1] /\ s[j] \in Task
            /\ j + 1 \in 1 .. n - 1 /\ j + 1 \in 1 .. n /\ a[j + 1] = s[j + 1]
        BY <1>3, <1>5, <1>9, <2>1, <3>1
      <4> QED
        BY <1>3, <1>5, <1>7, <2>2, <4>1 DEF Nth
    <3>2. CASE j = i - 1
      <4>1. a[j] = s[i - 1] /\ j + 1 = i
        BY <1>3, <1>5, <3>2
      <4> QED
        BY <2>1, <2>2, <2>3, <4>1
    <3>3. CASE j > i - 1
      <4>1. /\ j + 1 \in 1 .. n /\ a[j] = s[j + 1] /\ s[j + 1] # s[i - 1] /\ s[j + 1] \in Task
        BY <1>3, <1>5, <2>1, <3>3
      <4>2. next'[a[j]] = Nth(s, (j + 1) + 1)
        BY <1>7, <2>2, <4>1
      <4> QED
        BY <1>3, <1>5, <3>3, <4>2 DEF Nth
    <3> QED
      BY <1>3, <3>1, <3>2, <3>3
  <2>6. Fwd(first'[l], next', r[l])
    BY <1>2, <1>5, <2>4, <2>5 DEF Fwd
  <2>7. Linked(s, s[i - 1])
    BY <1>3, <2>1 DEF Linked
  <2>8. HeapInv(r, l, t)'
    <3>1. \A u \in Task \ {t} : ~In(r, u) => next'[u] = NULL /\ prev'[u] = NULL
      <4>1. \A u \in Task \ {t} : ~In(r, u) => ~In(q, u) /\ u # s[i - 1]
        BY <1>2, <2>7 DEF In, s
      <4> QED
        BY <2>2, <4>1 DEF HeapInv
    <3>2. \A k \in List \ {l}, u \in Task : Linked(q[k], u) => u # s[i - 1]
      BY <1>6, <2>7
    <3> QED
      BY <1>2, <2>2, <2>6, <3>1, <3>2, HeapKept
  <2>9. next'[t] = Nth(a, i)
    <3>1. t # s[i - 1]
      BY <1>3, <1>4, <2>1
    <3> QED
      BY <2>1, <2>2, <2>3, <3>1
  <2> QED
    BY <2>8, <2>9
<1>10. HeapInv(r, l, t)' /\ next'[t] = Nth(a, i)
  BY <1>8, <1>9
<1>11. ~In(r, t)
  BY <1>2 DEF In
<1>12. prev[t] = Nth(a, i - 1) /\ last[l] = IF i = n THEN t ELSE Nth(a, n - 1)
  <2>1. Nth(s, i - 1) = Nth(a, i - 1)
    <3>1. CASE i = 1
      BY <1>3, <1>5, <3>1 DEF Nth
    <3>2. CASE i # 1
      <4>1. i - 1 \in 1 .. n - 1 /\ i - 1 \in 1 .. n /\ i - 1 < i
        BY <1>3, <3>2
      <4> QED
        BY <1>3, <1>5, <4>1 DEF Nth
    <3> QED
      BY <3>1, <3>2
  <2>2. CASE i = n
    BY <1>3, <1>4, <1>7, <2>1, <2>2 DEF Nth
  <2>3. CASE i # n
    <3>1. n - 1 \in 1 .. n - 1 /\ ~(n - 1 < i) /\ (n - 1) + 1 = n /\ n \in 1 .. n
      BY <1>3, <2>3
    <3>2. a[n - 1] = s[n]
      BY <1>5, <3>1
    <3> QED
      BY <1>3, <1>4, <1>5, <1>7, <2>1, <2>3, <3>1, <3>2 DEF Nth
  <2> QED
    BY <2>2, <2>3
<1>13. ASSUME NEW j \in 1 .. n - 1 PROVE prev[a[j]] = IF j = i THEN t ELSE Nth(a, j - 1)
  <2>1. CASE j < i
    <3>1. j \in 1 .. n /\ prev[a[j]] = Nth(s, j - 1)
      BY <1>3, <1>5, <1>7, <2>1
    <3>2. Nth(s, j - 1) = Nth(a, j - 1)
      <4>1. CASE j = 1
        BY <1>3, <1>5, <4>1 DEF Nth
      <4>2. CASE j # 1
        <5>1. j - 1 \in 1 .. n - 1 /\ j - 1 \in 1 .. n /\ j - 1 < i
          BY <1>3, <2>1, <4>2
        <5> QED
          BY <1>3, <1>5, <5>1 DEF Nth
      <4> QED
        BY <4>1, <4>2
    <3> QED
      BY <2>1, <3>1, <3>2
  <2>2. CASE j = i
    <3>1. a[j] = s[j + 1] /\ j + 1 \in 1 .. n /\ (j + 1) - 1 = i
      BY <1>3, <1>5, <2>2
    <3>2. prev[a[j]] = Nth(s, (j + 1) - 1)
      BY <1>7, <3>1
    <3> QED
      BY <1>3, <1>4, <2>2, <3>1, <3>2 DEF Nth
  <2>3. CASE j > i
    <3>1. a[j] = s[j + 1] /\ j + 1 \in 1 .. n /\ (j + 1) - 1 = j
      BY <1>3, <1>5, <2>3
    <3>2. prev[a[j]] = Nth(s, j)
      BY <1>7, <3>1
    <3>3. j - 1 \in 1 .. n - 1 /\ ~(j - 1 < i) /\ (j - 1) + 1 = j /\ j \in 1 .. n
      BY <1>3, <2>3
    <3>4. a[j - 1] = s[j]
      BY <1>5, <3>3
    <3> QED
      BY <1>3, <1>5, <2>3, <3>2, <3>3, <3>4 DEF Nth
  <2> QED
    BY <1>3, <2>1, <2>2, <2>3
<1>14. Bypassed(r, l, t)'
  <2>1. i \in 1 .. Len(a) + 1 /\ Len(a) + 1 = n
    BY <1>3, <1>5
  <2>2. \A j \in 1 .. Len(a) : prev'[a[j]] = IF j = i THEN t ELSE Nth(a, j - 1)
    BY <1>5, <1>13
  <2>3. last'[l] = IF i = Len(a) + 1 THEN t ELSE Nth(a, Len(a))
    BY <1>5, <1>12, <2>1
  <2> QED
    BY <1>2, <1>10, <1>11, <1>12, <2>1, <2>2, <2>3 DEF Bypassed
<1> QED
  BY <1>0, <1>10, <1>14 DEF s

(* next->prev = prev, or last = prev                                       *)
LEMMA UnlinkBackward ==
  ASSUME Heap, NEW q, NEW l \in List, NEW t \in Task, HeapInv(q, l, t), Bypassed(q, l, t),
         IF next[t] # NULL
         THEN prev' = [prev EXCEPT ![next[t]] = prev[t]] /\ UNCHANGED last
         ELSE last' = [last EXCEPT ![l] = prev[t]] /\ UNCHANGED prev,
         UNCHANGED <<first, next>>
  PROVE  HeapInv(q, l, t)' /\ Detached(q, l, t)'
<1> DEFINE s == q[l]
           n == Len(s)
<1>1. Lists(q) /\ Fwd(first[l], next, s) /\ ~In(q, t)
  BY DEF HeapInv, Bypassed
<1>2. /\ s \in Seq(Task) /\ n \in Nat /\ DOMAIN s = 1 .. n
      /\ \A i \in 1 .. n : s[i] \in Task /\ s[i] # NULL
      /\ \A i, j \in 1 .. n : s[i] = s[j] => i = j
  BY <1>1, Elements
<1>3. \A k \in List \ {l}, u \in Task : Linked(q[k], u) => ~Linked(s, u)
  BY <1>1, Apart
<1>4. PICK i \in 1 .. n + 1 :
        /\ next[t] = Nth(s, i) /\ prev[t] = Nth(s, i - 1)
        /\ last[l] = IF i = n + 1 THEN t ELSE Nth(s, n)
        /\ \A j \in 1 .. n : prev[s[j]] = IF j = i THEN t ELSE Nth(s, j - 1)
  BY DEF Bypassed
<1>5. \A u \in Task \ {t} : ~In(q, u) => next[u] = NULL /\ prev[u] = NULL
  BY DEF HeapInv
<1>6. CASE i = n + 1
  <2>1. next[t] = NULL /\ prev[t] = Nth(s, n)
    BY <1>2, <1>4, <1>6 DEF Nth
  <2>2. last'[l] = prev[t] /\ prev' = prev /\ \A k \in List \ {l} : last'[k] = last[k]
    BY <2>1 DEF Heap
  <2>3. \A j \in 1 .. n : prev[s[j]] = Nth(s, j - 1)
    BY <1>2, <1>4, <1>6
  <2>4. HeapInv(q, l, t)'
    BY <1>1, <1>5, <2>2, HeapKept
  <2>5. Detached(q, l, t)'
    BY <1>1, <1>2, <2>1, <2>2, <2>3 DEF Detached, Bwd
  <2> QED
    BY <2>4, <2>5
<1>7. CASE i # n + 1
  <2>1. i \in 1 .. n /\ next[t] = s[i] /\ last[l] = Nth(s, n)
    BY <1>2, <1>4, <1>7 DEF Nth
  <2>2. last' = last /\ \A u \in Task : prev'[u] = IF u = s[i] THEN Nth(s, i - 1) ELSE prev[u]
    BY <1>2, <1>4, <2>1 DEF Heap
  <2>3. \A j \in 1 .. n : prev'[s[j]] = Nth(s, j - 1)
    <3>1. ASSUME NEW j \in 1 .. n PROVE prev'[s[j]] = Nth(s, j - 1)
      <4>1. CASE j = i
        BY <1>2, <2>1, <2>2, <4>1
      <4>2. CASE j # i
        <5>1. s[j] # s[i] /\ s[j] \in Task
          BY <1>2, <2>1, <4>2
        <5> QED
          BY <1>4, <2>2, <4>2, <5>1
      <4> QED
        BY <4>1, <4>2
    <3> QED
      BY <3>1
  <2>4. Linked(s, s[i])
    BY <1>2, <2>1 DEF Linked
  <2>5. HeapInv(q, l, t)'
    <3>1. \A u \in Task \ {t} : ~In(q, u) => next'[u] = NULL /\ prev'[u] = NULL
      BY <1>5, <2>2, <2>4 DEF In
    <3>2. \A k \in List \ {l}, u \in Task : Linked(q[k], u) => u # s[i]
      BY <1>3, <2>4
    <3> QED
      BY <1>1, <2>2, <3>1, <3>2, HeapKept
  <2>6. Detached(q, l, t)'
    BY <1>1, <1>2, <2>1, <2>2, <2>3 DEF Detached, Bwd
  <2> QED
    BY <2>5, <2>6
<1> QED
  BY <1>6, <1>7

(* next = NULL of the task taken out                                       *)
LEMMA ClearNext ==
  ASSUME Heap, NEW q, NEW l \in List, NEW t \in Task, HeapInv(q, l, t), Detached(q, l, t),
         next' = [next EXCEPT ![t] = NULL], UNCHANGED <<first, last, prev>>
  PROVE  HeapInv(q, l, t)' /\ Detached(q, l, t)' /\ next'[t] = NULL
<1>1. Lists(q) /\ Fwd(first[l], next, q[l]) /\ ~In(q, t)
  BY DEF HeapInv, Detached
<1>2. next'[t] = NULL /\ \A u \in Task \ {t} : next'[u] = next[u]
  BY DEF Heap
<1>3. q[l] \in Seq(Task) /\ \A i \in 1 .. Len(q[l]) : q[l][i] \in Task \ {t}
  BY <1>1, Elements DEF In, Linked
<1>4. Fwd(first'[l], next', q[l])
  BY <1>1, <1>2, <1>3 DEF Fwd
<1>5. \A k \in List, u \in Task : Linked(q[k], u) => u # t
  BY <1>1 DEF In
<1>6. \A u \in Task \ {t} : ~In(q, u) => next'[u] = NULL /\ prev'[u] = NULL
  BY <1>2 DEF HeapInv
<1>7. HeapInv(q, l, t)'
  BY <1>1, <1>2, <1>4, <1>5, <1>6, HeapKept
<1> QED
  BY <1>2, <1>7 DEF Detached

(* prev = NULL of the task taken out: it can be added to either list.      *)
LEMMA ClearPrev ==
  ASSUME Heap, NEW q, NEW l \in List, NEW t \in Task, HeapInv(q, l, t), Detached(q, l, t),
         next[t] = NULL,
         prev' = [prev EXCEPT ![t] = NULL], UNCHANGED <<first, last, next>>
  PROVE  /\ next'[t] = NULL /\ prev'[t] = NULL
         /\ \A k \in List : HeapInv(q, k, t)' /\ Detached(q, k, t)'
<1>1. Lists(q) /\ Fwd(first[l], next, q[l]) /\ Bwd(last[l], prev, q[l]) /\ ~In(q, t)
  BY DEF HeapInv, Detached
<1>2. prev'[t] = NULL /\ \A u \in Task \ {t} : prev'[u] = prev[u]
  BY DEF Heap
<1>3. \A k \in List, u \in Task : Linked(q[k], u) => u # t
  BY <1>1 DEF In
<1>4. \A u \in Task \ {t} : ~In(q, u) => next'[u] = NULL /\ prev'[u] = NULL
  BY <1>2 DEF HeapInv
<1>5. HeapInv(q, l, t)'
  BY <1>1, <1>2, <1>3, <1>4, HeapKept
<1>6. Bwd(last'[l], prev', q[l])
  <2>1. q[l] \in Seq(Task) /\ \A i \in 1 .. Len(q[l]) : q[l][i] \in Task \ {t}
    BY <1>1, Elements DEF In, Linked
  <2>2. \A i \in 1 .. Len(q[l]) : prev'[q[l][i]] = prev[q[l][i]]
    BY <1>2, <2>1
  <2>3. Bwd(last[l], prev', q[l])
    BY <1>1, <2>1, <2>2, OtherListBack
  <2> QED
    BY <2>3
<1>7. \A k \in List : Bwd(last'[k], prev', q[k])
  BY <1>5, <1>6 DEF HeapInv
<1> QED
  BY <1>1, <1>2, <1>5, <1>7 DEF HeapInv, Detached

-----------------------------------------------------------------------------
(* The threads.                                                            *)

(* The statements of the operations, and those outside of them.            *)
LEMMA Statements ==
  /\ \A op, s : <<op, s>> \in Constructing <=>
       op = "construct" /\ s \in {"check", "link", "prev", "last"}
  /\ \A op, s : <<op, s>> \in Moving <=>
       \/ op = "add" /\ s \in {"check", "link", "prev", "last"}
       \/ op = "remove" /\ s \in {"forward", "backward", "next", "prev"}
  /\ \A p \in Constructing \cup Moving : p = <<p[1], p[2]>>
  /\ \A w : <<w>> \notin Constructing \cup Moving
  /\ \A v, w, x : <<v>> # <<w, x>>
  /\ \A v, w : <<v>> = <<w>> => v = w
<1>1. \A v, w, x : <<v>> # <<w, x>>
  <2>1. \A v, w, x : Len(<<v>>) = 1 /\ Len(<<w, x>>) = 2
    OBVIOUS
  <2> QED
    BY <2>1
<1> QED
  BY <1>1 DEF Constructing, Moving

(* The list of an operation.                                               *)
LEMMA ListOfIs ==
  ASSUME NEW h \in Thread, NEW op, NEW s, pc[h] = <<op, s>>
  PROVE  /\ op = "construct" => ListOf(h) = "free"
         /\ op = "remove" => ListOf(h) = IF h = Acceptor THEN "free" ELSE "running"
         /\ op = "add" => ListOf(h) = IF h = Acceptor THEN "running" ELSE "free"
BY DEF ListOf

(* The acceptor and the tasks are different threads, and none is Nobody.   *)
LEMMA Threads ==
  /\ Acceptor \in Thread /\ Acceptor \notin Task /\ Nobody \notin Thread
  /\ Task \subseteq Thread /\ Task \subseteq Nat /\ 1 \in Task
  /\ \A h \in Thread : h # Acceptor => h \in Task
BY ListAssumption DEF Thread, Task, Acceptor, Nobody

(* At most one thread is in an operation.                                  *)
LEMMA Alone ==
  ASSUME ThreadInv, NEW h \in Thread, NEW g \in Thread, Busy(h), Busy(g)
  PROVE  g = h
<1>1. CASE pc[h] \in Moving /\ pc[g] \in Moving
  BY <1>1 DEF ThreadInv
<1>2. ASSUME NEW x \in Thread, NEW y \in Thread, pc[x] \in Constructing, Busy(y)
      PROVE  x = y
  <2>1. \A t \in Task : pc[t] \notin Constructing
    BY Statements DEF ThreadInv, Moving, Constructing
  <2>2. x = Acceptor
    BY <1>2, <2>1, Threads
  <2>3. \A t \in Task : ~Busy(t)
    BY <1>2, <2>2, Statements DEF ThreadInv, Busy
  <2> QED
    BY <1>2, <2>2, <2>3, Threads
<1> QED
  BY <1>1, <1>2 DEF Busy

(* What the invariant says of the thread that is in an operation.          *)
LEMMA Working ==
  ASSUME ThreadInv, NEW q \in [List -> Seq(Task)], ContentInv(q), NEW h \in Thread,
         NEW op, NEW s, pc[h] = <<op, s>>
  PROVE  /\ Heap /\ op \in {"construct", "add", "remove"} /\ Busy(h)
         /\ op = "construct" => h = Acceptor
         /\ ListOf(h) \in List /\ arg[h] \in Task
         /\ HeapInv(q, ListOf(h), arg[h]) /\ Stage(<<op, s>>, q, ListOf(h), arg[h])
<1>1. Heap /\ arg[h] \in Task
  BY DEF ThreadInv, Heap
<1>2. pc[h] \in Constructing \cup Moving
  <2>1. /\ pc[Acceptor] \in Constructing \cup Moving \cup {<<"accept">>, <<"getFirst">>}
        /\ \A t \in Task : pc[t] \in Moving \cup {<<"none">>, <<"run">>}
    BY DEF ThreadInv
  <2>2. pc[h] \notin {<<"accept">>, <<"getFirst">>, <<"none">>, <<"run">>}
    BY Statements
  <2> QED
    BY <2>1, <2>2, Threads
<1>3. op \in {"construct", "add", "remove"}
  BY <1>2, Statements
<1>4. op = "construct" => h = Acceptor
  <2>1. \A t \in Task : pc[t] \in Moving \cup {<<"none">>, <<"run">>}
    BY DEF ThreadInv
  <2>2. h # Acceptor => <<op, s>> \in Moving
    BY <2>1, Statements, Threads
  <2> QED
    BY <2>2, Statements
<1>5. ListOf(h) \in List
  BY <1>3, ListOfIs DEF List
<1>6. HeapInv(q, ListOf(h), arg[h]) /\ Stage(<<op, s>>, q, ListOf(h), arg[h])
  BY <1>2 DEF ContentInv, Busy
<1> QED
  BY <1>1, <1>2, <1>3, <1>4, <1>5, <1>6 DEF Busy

(* What the lists go through in a step.                                    *)
QueueStep(q, r) ==
  \/ r = q
  \/ \E l \in List, t \in Task :
       \/ ~In(q, t) /\ r = Added(q, l, t)
       \/ Linked(q[l], t) /\ r = Taken(q, l, t)

(* ... which is nothing to the tasks other than t.                         *)
Others(q, r, t) ==
  \A u \in Task \ {t} :
    (In(r, u) <=> In(q, u)) /\ (Linked(q["running"], u) => Linked(r["running"], u))

Stepped(q) == ThreadInv' /\ \E r \in [List -> Seq(Task)] : ContentInv(r)' /\ QueueStep(q, r)

(* The lists and the pointers may have changed, the threads have not       *)
(* except for the statement the working one is at.                         *)
LEMMA Within ==
  ASSUME ThreadInv, NEW q \in [List -> Seq(Task)], ContentInv(q),
         NEW h \in Thread, NEW p, NEW p2, pc[h] = p,
         (p \in Moving /\ p2 \in Moving) \/ (p \in Constructing /\ p2 \in Constructing),
         pc' = [pc EXCEPT ![h] = p2], UNCHANGED <<mutex, arg, aborted>>, Heap',
         NEW m \in List, NEW t \in Task, m = ListOf(h)', t = arg[h],
         NEW r \in [List -> Seq(Task)], HeapInv(r, m, t)', Stage(p2, r, m, t)',
         QueueStep(q, r),
         Others(q, r, t),
         pc[t] = <<"run">> /\ Linked(q["running"], t) => Linked(r["running"], t),
         p2 \in Constructing => (In(r, t) <=> p2[2] \in {"prev", "last"})
  PROVE  Stepped(q)
<1>1. /\ pc'[h] = p2 /\ \A g \in Thread \ {h} : pc'[g] = pc[g]
      /\ DOMAIN pc' = Thread
  BY DEF ThreadInv
<1>2. p2 # <<"run">> /\ p # <<"none">> /\ p2 # <<"none">>
  BY Statements
<1>3. p \in Constructing => h = Acceptor
  <2>1. \A u \in Task : pc[u] \notin Constructing
    BY Statements DEF ThreadInv, Moving, Constructing
  <2> QED
    BY <2>1, Threads
<1>4. p \in Moving => p \notin Constructing /\ p2 \notin Constructing
  BY DEF Moving, Constructing
<1>5. p \in Constructing => p2 \notin Moving /\ p \notin Moving
  BY DEF Moving, Constructing
<1>6. ThreadInv'
  <2>1. ~aborted' /\ mutex' \in Thread \cup {Nobody} /\ arg' \in [Thread -> Task]
    BY DEF ThreadInv
  <2>2. pc'[Acceptor] \in Constructing \cup Moving \cup {<<"accept">>, <<"getFirst">>}
    BY <1>1, Threads DEF ThreadInv
  <2>3. \A u \in Task : pc'[u] \in Moving \cup {<<"none">>, <<"run">>} /\ arg'[u] = u
    BY <1>1, <1>3, <1>4, Threads DEF ThreadInv
  <2>4. \A g \in Thread : mutex' = g <=> pc'[g] \in Moving \cup {<<"getFirst">>}
    <3>1. \A g \in Thread : mutex = g <=> pc[g] \in Moving \cup {<<"getFirst">>}
      BY DEF ThreadInv
    <3>2. p \notin {<<"getFirst">>} /\ p2 \notin {<<"getFirst">>}
      BY Statements
    <3> QED
      BY <1>1, <1>4, <1>5, <3>1, <3>2
  <2>5. pc'[Acceptor] \in Constructing =>
          mutex' = Nobody /\ \A u \in Task : pc'[u] = <<"none">>
    <3>1. CASE h = Acceptor
      <4>1. pc'[Acceptor] \in Constructing => pc[Acceptor] \in Constructing
        BY <1>1, <1>4, <3>1
      <4>2. \A u \in Task : pc'[u] = pc[u]
        BY <1>1, <3>1, Threads
      <4> QED
        BY <4>1, <4>2 DEF ThreadInv
    <3>2. CASE h # Acceptor
      <4>1. h \in Task /\ pc'[Acceptor] = pc[Acceptor]
        BY <1>1, <3>2, Threads
      <4>2. pc[Acceptor] \notin Constructing
        BY <1>2, <4>1 DEF ThreadInv
      <4> QED
        BY <4>1, <4>2
    <3> QED
      BY <3>1, <3>2
  <2> QED
    BY <1>1, <2>1, <2>2, <2>3, <2>4, <2>5 DEF ThreadInv, Heap
<1>7. Busy(h) /\ Busy(h)' /\ \A g \in Thread : (Busy(g) <=> Busy(g)') /\ arg'[g] = arg[g]
  BY <1>1 DEF Busy
<1>8. ContentInv(r)'
  <2>1. \A u \in Task : pc'[u] = <<"run">> => Linked(r["running"], u)
    <3>1. \A u \in Task : pc'[u] = <<"run">> => pc[u] = <<"run">>
      BY <1>1, <1>2, Threads
    <3> QED
      BY <3>1 DEF ContentInv, Others
  <2>2. ASSUME NEW g \in Thread, Busy(g)'
        PROVE  HeapInv(r, ListOf(g), arg[g])' /\ Stage(pc[g], r, ListOf(g), arg[g])'
    <3>1. g = h
      BY <1>7, <2>2, Alone
    <3>2. ListOf(g)' = m /\ arg'[g] = t /\ pc'[g] = p2
      BY <1>1, <3>1
    <3>3. HeapInv(r, ListOf(g), arg[g])'
      BY <3>2 DEF HeapInv
    <3>4. Stage(pc[g], r, ListOf(g), arg[g])'
      <4>1. Detached(r, ListOf(g), arg[g])' <=> Detached(r, m, t)'
        BY <3>2 DEF Detached
      <4>2. Appended(r, ListOf(g), arg[g])' <=> Appended(r, m, t)'
        BY <3>2 DEF Appended
      <4>3. BackLinked(r, ListOf(g), arg[g])' <=> BackLinked(r, m, t)'
        BY <3>2 DEF BackLinked
      <4>4. Bypassed(r, ListOf(g), arg[g])' <=> Bypassed(r, m, t)'
        BY <3>2 DEF Bypassed
      <4> QED
        BY <3>2, <4>1, <4>2, <4>3, <4>4 DEF Stage
    <3> QED
      BY <3>3, <3>4
  <2>3. pc'[Acceptor] \in Constructing =>
          \A u \in Task : In(r, u) <=>
            u < arg'[Acceptor] \/ (u = arg'[Acceptor] /\ pc'[Acceptor][2] \in {"prev", "last"})
    <3>1. SUFFICES ASSUME pc'[Acceptor] \in Constructing, NEW u \in Task
                   PROVE  In(r, u) <=>
                     u < arg'[Acceptor] \/ (u = arg'[Acceptor] /\ pc'[Acceptor][2] \in {"prev", "last"})
      OBVIOUS
    <3>2. h = Acceptor
      <4>1. h # Acceptor => pc[h] = <<"none">>
        BY <1>6, <3>1, <1>1, <1>2, Threads DEF ThreadInv
      <4> QED
        BY <1>2, <4>1
    <3>3. pc[Acceptor] \in Constructing /\ arg'[Acceptor] = t /\ arg[Acceptor] = t
          /\ pc'[Acceptor] = p2
      BY <1>1, <1>4, <3>1, <3>2
    <3>4. u # t => (In(q, u) <=> u < t)
      BY <3>3, Threads DEF ContentInv
    <3>5. u = t => ~(u < t)
      BY Threads
    <3> QED
      BY <3>1, <3>3, <3>4, <3>5 DEF Others
  <2>4. pc'[Acceptor] \notin Constructing =>
          \A u \in Task : In(r, u) \/ \E g \in Thread : Busy(g)' /\ u = arg'[g]
    <3>1. SUFFICES ASSUME pc'[Acceptor] \notin Constructing, NEW u \in Task
                   PROVE  In(r, u) \/ \E g \in Thread : Busy(g)' /\ u = arg'[g]
      OBVIOUS
    <3>2. CASE u = t
      BY <1>7, <3>2
    <3>3. CASE u # t
      <4>1. pc[Acceptor] \notin Constructing
        BY <1>1, <1>4, <3>1, Threads
      <4> QED
        BY <1>7, <3>3, <4>1 DEF ContentInv, Others
    <3> QED
      BY <3>2, <3>3
  <2> QED
    BY <1>7, <2>1, <2>2, <2>3, <2>4 DEF ContentInv
<1> QED
  BY <1>6, <1>8 DEF Stepped

-----------------------------------------------------------------------------
(* Each step keeps the invariant and takes the lists a step of a queue.    *)

(* The check finds the task without links.                                 *)
LEMMA StepAddCheck ==
  ASSUME ThreadInv, NEW q \in [List -> Seq(Task)], ContentInv(q), NEW h \in Thread, AddCheck(h)
  PROVE  Stepped(q)
<1>1. PICK op \in {"construct", "add"} : pc[h] = <<op, "check">>
  BY DEF AddCheck, Adding, At
<1>2. PICK l \in List, t \in Task : l = ListOf(h) /\ t = arg[h]
  BY <1>1, Working
<1>3. /\ Heap /\ HeapInv(q, l, t) /\ Detached(q, l, t) /\ next[t] = NULL /\ prev[t] = NULL
      /\ op = "construct" => h = Acceptor
  BY <1>1, <1>2, Working DEF Stage
<1>4. pc' = [pc EXCEPT ![h] = <<op, "link">>] /\ UNCHANGED <<first, last, next, prev, mutex, arg, aborted>>
  BY <1>1, <1>2, <1>3 DEF AddCheck, Goto
<1>5. pc'[h] = <<op, "link">> /\ ListOf(h)' = l
  <2>1. pc'[h] = <<op, "link">>
    BY <1>4 DEF ThreadInv
  <2> QED
    BY <1>1, <1>2, <2>1 DEF ListOf
<1>6. HeapInv(q, l, t)' /\ Stage(<<op, "link">>, q, l, t)'
  BY <1>3, <1>4 DEF HeapInv, Stage, Detached
<1>7. op = "construct" => ~In(q, t)
  BY <1>3 DEF Detached
<1>8. Heap'
  BY <1>3, <1>4 DEF Heap
<1> QED
  BY <1>1, <1>2, <1>4, <1>5, <1>6, <1>7, <1>8, Statements, Within DEF QueueStep, Others

(* The task is linked behind the last one: the lists are those with it.    *)
LEMMA StepAddLinkLast ==
  ASSUME ThreadInv, NEW q \in [List -> Seq(Task)], ContentInv(q), NEW h \in Thread, AddLinkLast(h)
  PROVE  Stepped(q)
<1>1. PICK op \in {"construct", "add"} : pc[h] = <<op, "link">>
  BY DEF AddLinkLast, Adding, At
<1>2. PICK l \in List, t \in Task : l = ListOf(h) /\ t = arg[h]
  BY <1>1, Working
<1>3. /\ Heap /\ HeapInv(q, l, t) /\ Detached(q, l, t) /\ next[t] = NULL /\ prev[t] = NULL
  BY <1>1, <1>2, Working DEF Stage
<1>4. /\ pc' = [pc EXCEPT ![h] = <<op, "prev">>] /\ UNCHANGED <<first, last, prev, mutex, arg, aborted>>
      /\ last[l] # NULL /\ next' = [next EXCEPT ![last[l]] = t]
  BY <1>1, <1>2 DEF AddLinkLast, Goto
<1>5. pc'[h] = <<op, "prev">> /\ ListOf(h)' = l
  <2>1. pc'[h] = <<op, "prev">>
    BY <1>4 DEF ThreadInv
  <2> QED
    BY <1>1, <1>2, <2>1 DEF ListOf
<1>6. Lists(q) /\ ~In(q, t)
  BY <1>3 DEF HeapInv, Detached
<1>7. PICK r : r = Added(q, l, t) /\ HeapInv(r, l, t)' /\ Appended(r, l, t)'
  BY <1>3, <1>4, LinkLast
<1>8. /\ Lists(r)
      /\ \A k \in List : \A u : Linked(r[k], u) <=> Linked(q[k], u) \/ (k = l /\ u = t)
  BY <1>6, <1>7, ListsAppend
<1>9. QueueStep(q, r)
  BY <1>6, <1>7 DEF QueueStep
<1>10. Stage(<<op, "prev">>, r, l, t)'
  BY <1>7 DEF Stage
<1>11. /\ r \in [List -> Seq(Task)] /\ In(r, t)
       /\ Others(q, r, t) /\ (Linked(q["running"], t) => Linked(r["running"], t))
  BY <1>8 DEF Others, In, Lists, List
<1>12. Heap'
  BY <1>3, <1>4 DEF Heap
<1>13. /\ \/ <<op, "link">> \in Moving /\ <<op, "prev">> \in Moving
          \/ <<op, "link">> \in Constructing /\ <<op, "prev">> \in Constructing
       /\ <<op, "prev">>[2] \in {"prev", "last"}
  BY Statements
<1> QED
  BY <1>1, <1>2, <1>4, <1>5, <1>7, <1>9, <1>10, <1>11, <1>12, <1>13, Within

(* The task becomes the first of an empty list.                            *)
LEMMA StepAddLinkFirst ==
  ASSUME ThreadInv, NEW q \in [List -> Seq(Task)], ContentInv(q), NEW h \in Thread, AddLinkFirst(h)
  PROVE  Stepped(q)
<1>1. PICK op \in {"construct", "add"} : pc[h] = <<op, "link">>
  BY DEF AddLinkFirst, Adding, At
<1>2. PICK l \in List, t \in Task : l = ListOf(h) /\ t = arg[h]
  BY <1>1, Working
<1>3. /\ Heap /\ HeapInv(q, l, t) /\ Detached(q, l, t) /\ next[t] = NULL /\ prev[t] = NULL
  BY <1>1, <1>2, Working DEF Stage
<1>4. last[l] = NULL /\ first[l] = NULL
  BY <1>2, <1>3, EmptyList DEF AddLinkFirst
<1>5. /\ pc' = [pc EXCEPT ![h] = <<op, "last">>] /\ UNCHANGED <<last, next, prev, mutex, arg, aborted>>
      /\ first' = [first EXCEPT ![l] = t]
  BY <1>1, <1>2, <1>4 DEF AddLinkFirst, Goto
<1>6. pc'[h] = <<op, "last">> /\ ListOf(h)' = l
  <2>1. pc'[h] = <<op, "last">>
    BY <1>5 DEF ThreadInv
  <2> QED
    BY <1>1, <1>2, <2>1 DEF ListOf
<1>7. Lists(q) /\ ~In(q, t)
  BY <1>3 DEF HeapInv, Detached
<1>8. PICK r : r = Added(q, l, t) /\ HeapInv(r, l, t)' /\ BackLinked(r, l, t)'
  BY <1>3, <1>4, <1>5, LinkFirst
<1>9. /\ Lists(r)
      /\ \A k \in List : \A u : Linked(r[k], u) <=> Linked(q[k], u) \/ (k = l /\ u = t)
  BY <1>7, <1>8, ListsAppend
<1>10. QueueStep(q, r)
  BY <1>7, <1>8 DEF QueueStep
<1>11. Stage(<<op, "last">>, r, l, t)'
  BY <1>8 DEF Stage
<1>12. /\ r \in [List -> Seq(Task)] /\ In(r, t)
       /\ Others(q, r, t) /\ (Linked(q["running"], t) => Linked(r["running"], t))
  BY <1>9 DEF Others, In, Lists, List
<1>13. Heap'
  BY <1>3, <1>5 DEF Heap
<1>14. /\ \/ <<op, "link">> \in Moving /\ <<op, "last">> \in Moving
          \/ <<op, "link">> \in Constructing /\ <<op, "last">> \in Constructing
       /\ <<op, "last">>[2] \in {"prev", "last"}
  BY Statements
<1> QED
  BY <1>1, <1>2, <1>5, <1>6, <1>8, <1>10, <1>11, <1>12, <1>13, <1>14, Within

(* The task is linked backward.                                            *)
LEMMA StepAddPrev ==
  ASSUME ThreadInv, NEW q \in [List -> Seq(Task)], ContentInv(q), NEW h \in Thread, AddPrev(h)
  PROVE  Stepped(q)
<1>1. PICK op \in {"construct", "add"} : pc[h] = <<op, "prev">>
  BY DEF AddPrev, Adding, At
<1>2. PICK l \in List, t \in Task : l = ListOf(h) /\ t = arg[h]
  BY <1>1, Working
<1>3. Heap /\ HeapInv(q, l, t) /\ Appended(q, l, t)
  BY <1>1, <1>2, Working DEF Stage
<1>4. /\ pc' = [pc EXCEPT ![h] = <<op, "last">>] /\ UNCHANGED <<first, last, next, mutex, arg, aborted>>
      /\ prev' = [prev EXCEPT ![t] = last[l]]
  BY <1>1, <1>2 DEF AddPrev, Goto
<1>5. pc'[h] = <<op, "last">> /\ ListOf(h)' = l
  <2>1. pc'[h] = <<op, "last">>
    BY <1>4 DEF ThreadInv
  <2> QED
    BY <1>1, <1>2, <2>1 DEF ListOf
<1>6. HeapInv(q, l, t)' /\ BackLinked(q, l, t)'
  BY <1>3, <1>4, LinkBack
<1>7. Stage(<<op, "last">>, q, l, t)'
  BY <1>6 DEF Stage
<1>8. In(q, t)
  <2>1. Lists(q)
    BY <1>3 DEF HeapInv
  <2>2. Len(q[l]) \in DOMAIN q[l]
    BY <1>3, <2>1, Elements DEF Appended
  <2> QED
    BY <1>3, <2>2 DEF Appended, In, Linked
<1>9. Heap'
  BY <1>2, <1>3, <1>4 DEF Heap
<1> QED
  BY <1>1, <1>2, <1>4, <1>5, <1>6, <1>7, <1>8, <1>9, Statements, Within DEF QueueStep, Others

(* The task is taken out of the way forward: the lists are those without.  *)
LEMMA StepRemoveForward ==
  ASSUME ThreadInv, NEW q \in [List -> Seq(Task)], ContentInv(q), NEW h \in Thread, RemoveForward(h)
  PROVE  Stepped(q)
<1>1. pc[h] = <<"remove", "forward">>
  BY DEF RemoveForward, At
<1>2. PICK l \in List, t \in Task : l = ListOf(h) /\ t = arg[h]
  BY <1>1, Working
<1>3. Heap /\ HeapInv(q, l, t) /\ Bwd(last[l], prev, q[l]) /\ Linked(q[l], t)
  BY <1>1, <1>2, Working DEF Stage
<1>4. /\ pc' = [pc EXCEPT ![h] = <<"remove", "backward">>] /\ UNCHANGED <<last, prev, mutex, arg, aborted>>
      /\ IF prev[t] # NULL
         THEN next' = [next EXCEPT ![prev[t]] = next[t]] /\ UNCHANGED first
         ELSE first' = [first EXCEPT ![l] = next[t]] /\ UNCHANGED next
  BY <1>2 DEF RemoveForward, Goto
<1>5. pc'[h] = <<"remove", "backward">> /\ ListOf(h)' = l
  <2>1. pc'[h] = <<"remove", "backward">>
    BY <1>4 DEF ThreadInv
  <2> QED
    BY <1>1, <1>2, <2>1 DEF ListOf
<1>6. Lists(q)
  BY <1>3 DEF HeapInv
<1>7. PICK r : r = Taken(q, l, t) /\ HeapInv(r, l, t)' /\ Bypassed(r, l, t)'
  BY <1>3, <1>4, UnlinkForward
<1>8. Lists(r) /\ \A k \in List : \A u : Linked(r[k], u) <=> Linked(q[k], u) /\ u # t
  BY <1>3, <1>6, <1>7, ListsUnlink
<1>9. QueueStep(q, r)
  BY <1>3, <1>7 DEF QueueStep
<1>10. Stage(<<"remove", "backward">>, r, l, t)'
  BY <1>7 DEF Stage
<1>11. pc[t] # <<"run">>
  <2>1. CASE h = Acceptor
    <3>1. l = "free"
      BY <1>1, <1>2, <2>1, ListOfIs
    <3>2. ~Linked(q["running"], t)
      BY <1>3, <1>6, <3>1 DEF Lists
    <3> QED
      BY <3>2 DEF ContentInv
  <2>2. CASE h # Acceptor
    <3>1. t = h
      BY <1>2, <2>2, Threads DEF ThreadInv
    <3> QED
      BY <1>1, <3>1, Statements
  <2> QED
    BY <2>1, <2>2
<1>12. /\ r \in [List -> Seq(Task)]
       /\ Others(q, r, t)
  BY <1>8, <1>11 DEF Others, In, Lists, List
<1>13. Heap'
  <2>1. next[t] \in Task \cup {NULL} /\ prev[t] \in Task \cup {NULL}
    BY <1>3 DEF Heap
  <2> QED
    BY <1>3, <1>4, <2>1 DEF Heap
<1>14. <<"remove", "backward">> \in Moving /\ <<"remove", "forward">> \in Moving
       /\ <<"remove", "backward">> \notin Constructing
  BY Statements
<1> QED
  BY <1>1, <1>2, <1>4, <1>5, <1>7, <1>9, <1>10, <1>11, <1>12, <1>13, <1>14, Within

(* ... and backward.                                                       *)
LEMMA StepRemoveBackward ==
  ASSUME ThreadInv, NEW q \in [List -> Seq(Task)], ContentInv(q), NEW h \in Thread, RemoveBackward(h)
  PROVE  Stepped(q)
<1>1. pc[h] = <<"remove", "backward">>
  BY DEF RemoveBackward, At
<1>2. PICK l \in List, t \in Task : l = ListOf(h) /\ t = arg[h]
  BY <1>1, Working
<1>3. Heap /\ HeapInv(q, l, t) /\ Bypassed(q, l, t)
  BY <1>1, <1>2, Working DEF Stage
<1>4. /\ pc' = [pc EXCEPT ![h] = <<"remove", "next">>] /\ UNCHANGED <<first, next, mutex, arg, aborted>>
      /\ IF next[t] # NULL
         THEN prev' = [prev EXCEPT ![next[t]] = prev[t]] /\ UNCHANGED last
         ELSE last' = [last EXCEPT ![l] = prev[t]] /\ UNCHANGED prev
  BY <1>2 DEF RemoveBackward, Goto
<1>5. pc'[h] = <<"remove", "next">> /\ ListOf(h)' = l
  <2>1. pc'[h] = <<"remove", "next">>
    BY <1>4 DEF ThreadInv
  <2> QED
    BY <1>1, <1>2, <2>1 DEF ListOf
<1>6. HeapInv(q, l, t)' /\ Detached(q, l, t)'
  BY <1>3, <1>4, UnlinkBackward
<1>7. Stage(<<"remove", "next">>, q, l, t)'
  BY <1>6 DEF Stage
<1>8. Heap'
  <2>1. next[t] \in Task \cup {NULL} /\ prev[t] \in Task \cup {NULL}
    BY <1>3 DEF Heap
  <2> QED
    BY <1>3, <1>4, <2>1 DEF Heap
<1>9. <<"remove", "backward">> \in Moving /\ <<"remove", "next">> \in Moving
      /\ <<"remove", "next">> \notin Constructing
  BY Statements
<1> QED
  BY <1>1, <1>2, <1>4, <1>5, <1>6, <1>7, <1>8, <1>9, Within DEF QueueStep, Others

(* The links of the task itself are cleared, next ...                      *)
LEMMA StepRemoveNext ==
  ASSUME ThreadInv, NEW q \in [List -> Seq(Task)], ContentInv(q), NEW h \in Thread, RemoveNext(h)
  PROVE  Stepped(q)
<1>1. pc[h] = <<"remove", "next">>
  BY DEF RemoveNext, At
<1>2. PICK l \in List, t \in Task : l = ListOf(h) /\ t = arg[h]
  BY <1>1, Working
<1>3. Heap /\ HeapInv(q, l, t) /\ Detached(q, l, t)
  BY <1>1, <1>2, Working DEF Stage
<1>4. /\ pc' = [pc EXCEPT ![h] = <<"remove", "prev">>] /\ UNCHANGED <<first, last, prev, mutex, arg, aborted>>
      /\ next' = [next EXCEPT ![t] = NULL]
  BY <1>2 DEF RemoveNext, Goto
<1>5. pc'[h] = <<"remove", "prev">> /\ ListOf(h)' = l
  <2>1. pc'[h] = <<"remove", "prev">>
    BY <1>4 DEF ThreadInv
  <2> QED
    BY <1>1, <1>2, <2>1 DEF ListOf
<1>6. HeapInv(q, l, t)' /\ Detached(q, l, t)' /\ next'[t] = NULL
  BY <1>3, <1>4, ClearNext
<1>7. Stage(<<"remove", "prev">>, q, l, t)'
  BY <1>6 DEF Stage
<1>8. Heap'
  BY <1>3, <1>4 DEF Heap
<1>9. <<"remove", "prev">> \in Moving /\ <<"remove", "next">> \in Moving
      /\ <<"remove", "prev">> \notin Constructing
  BY Statements
<1> QED
  BY <1>1, <1>2, <1>4, <1>5, <1>6, <1>7, <1>8, <1>9, Within DEF QueueStep, Others

(* ... and prev, and the thread goes on to add it to the other list.       *)
LEMMA StepRemovePrev ==
  ASSUME ThreadInv, NEW q \in [List -> Seq(Task)], ContentInv(q), NEW h \in Thread, RemovePrev(h)
  PROVE  Stepped(q)
<1>1. pc[h] = <<"remove", "prev">>
  BY DEF RemovePrev, At
<1>2. PICK l \in List, t \in Task : l = ListOf(h) /\ t = arg[h]
  BY <1>1, Working
<1>3. Heap /\ HeapInv(q, l, t) /\ Detached(q, l, t) /\ next[t] = NULL
  BY <1>1, <1>2, Working DEF Stage
<1>4. /\ pc' = [pc EXCEPT ![h] = <<"add", "check">>] /\ UNCHANGED <<first, last, next, mutex, arg, aborted>>
      /\ prev' = [prev EXCEPT ![t] = NULL]
  BY <1>2 DEF RemovePrev, Goto
<1>5. pc'[h] = <<"add", "check">>
  BY <1>4 DEF ThreadInv
<1>6. PICK m \in List : m = ListOf(h)'
  BY <1>5 DEF ListOf, List
<1>7. HeapInv(q, m, t)' /\ Detached(q, m, t)' /\ next'[t] = NULL /\ prev'[t] = NULL
  BY <1>3, <1>4, ClearPrev
<1>8. Stage(<<"add", "check">>, q, m, t)'
  BY <1>7 DEF Stage
<1>9. Heap'
  BY <1>3, <1>4 DEF Heap
<1>10. <<"remove", "prev">> \in Moving /\ <<"add", "check">> \in Moving
       /\ <<"add", "check">> \notin Constructing
  BY Statements
<1> QED
  BY <1>1, <1>2, <1>4, <1>6, <1>7, <1>8, <1>9, <1>10, Within DEF QueueStep, Others

(* What the invariant asks of a state in which no operation is going on.   *)
LEMMA Rested ==
  ASSUME NEW q \in [List -> Seq(Task)], Lists(q), \A g \in Thread : ~Busy(g)',
         \A k \in List : Fwd(first'[k], next', q[k]) /\ Bwd(last'[k], prev', q[k]),
         \A u \in Task : pc'[u] = <<"run">> => Linked(q["running"], u),
         \A u \in Task : In(q, u)
  PROVE  ContentInv(q)'
<1>1. pc'[Acceptor] \notin Constructing
  BY Threads DEF Busy
<1> QED
  BY <1>1 DEF ContentInv

(* The list is closed: the constructor goes on with the next task ...      *)
LEMMA StepConstructNext ==
  ASSUME ThreadInv, NEW q \in [List -> Seq(Task)], ContentInv(q), NEW h \in Thread, AddLast(h),
         pc[h] = <<"construct", "last">>, arg[h] < MULTIPLICITY
  PROVE  Stepped(q)
<1>1. PICK l \in List, t \in Task : l = ListOf(h) /\ t = arg[h]
  BY Working
<1>2. Heap /\ HeapInv(q, l, t) /\ BackLinked(q, l, t) /\ h = Acceptor
  BY <1>1, Working DEF Stage
<1>3. l = "free"
  BY <1>1, ListOfIs
<1>4. /\ pc' = [pc EXCEPT ![h] = <<"construct", "check">>] /\ arg' = [arg EXCEPT ![h] = t + 1]
      /\ mutex' = Nobody /\ last' = [last EXCEPT ![l] = t] /\ UNCHANGED <<first, next, prev, aborted>>
  BY <1>1 DEF AddLast, Goto
<1>5. t + 1 \in Task
  BY <1>1, ListAssumption DEF Task
<1>6. /\ Linked(q[l], t)
      /\ \A k \in List, u \in Task : HeapInv(q, k, u)' /\ Bwd(last[k], prev, q[k])'
  BY <1>2, <1>4, LinkEnd
<1>7. /\ pc'[Acceptor] = <<"construct", "check">> /\ arg'[Acceptor] = t + 1
      /\ \A u \in Task : pc'[u] = pc[u] /\ arg'[u] = u
      /\ DOMAIN pc' = Thread /\ arg' \in [Thread -> Task]
  BY <1>2, <1>4, <1>5, Threads DEF ThreadInv
<1>8. <<"construct", "check">> \in Constructing /\ <<"construct", "last">> \in Constructing
  BY Statements
<1>9. \A u \in Task : pc[u] = <<"none">>
  BY <1>2, <1>8 DEF ThreadInv
<1>10. /\ <<"construct", "check">> \notin Moving \cup {<<"getFirst">>}
       /\ <<"none">> \notin Constructing \cup Moving \cup {<<"getFirst">>, <<"run">>}
  BY Statements
<1>11. ThreadInv'
  <2>1. first' \in [List -> Task \cup {NULL}] /\ last' \in [List -> Task \cup {NULL}]
        /\ next' \in [Task -> Task \cup {NULL}] /\ prev' \in [Task -> Task \cup {NULL}]
    BY <1>2, <1>4 DEF Heap
  <2>2. \A g \in Thread : mutex' = g <=> pc'[g] \in Moving \cup {<<"getFirst">>}
    <3>1. \A g \in Thread : mutex' # g
      BY <1>4, Threads
    <3>2. \A g \in Thread : pc'[g] = IF g = Acceptor THEN <<"construct", "check">> ELSE <<"none">>
      BY <1>7, <1>9, Threads
    <3> QED
      BY <1>10, <3>1, <3>2
  <2> QED
    BY <1>4, <1>7, <1>8, <1>9, <2>1, <2>2 DEF ThreadInv
<1>12. \A u \in Task : In(q, u) <=> u < t + 1
  <2>1. \A u \in Task : In(q, u) <=> u < t \/ u = t
    <3>1. pc[Acceptor] \in Constructing /\ arg[Acceptor] = t /\ pc[Acceptor][2] = "last"
      <4>1. pc[Acceptor] = <<"construct", "last">>
        BY <1>2
      <4> QED
        BY <1>1, <1>2, <1>8, <4>1
    <3> QED
      BY <3>1 DEF ContentInv
  <2> QED
    BY <2>1, Threads
<1>13. ContentInv(q)'
  <2>1. ASSUME NEW g \in Thread, Busy(g)'
        PROVE  HeapInv(q, ListOf(g), arg[g])' /\ Stage(pc[g], q, ListOf(g), arg[g])'
    <3>1. g = Acceptor
      <4>1. \A u \in Task : pc'[u] = <<"none">>
        BY <1>7, <1>9
      <4>2. SUFFICES ASSUME g \in Task PROVE FALSE
        BY Threads
      <4> QED
        BY <1>10, <2>1, <4>1, <4>2 DEF Busy
    <3>2. pc'[g] = <<"construct", "check">> /\ arg'[g] = t + 1 /\ ListOf(g)' = l
      BY <1>3, <1>7, <3>1 DEF ListOf
    <3>3. HeapInv(q, l, t + 1)'
      BY <1>5, <1>6
    <3>4. HeapInv(q, ListOf(g), arg[g])'
      BY <3>2, <3>3 DEF HeapInv
    <3>5. ~In(q, t + 1) /\ t + 1 # t
      BY <1>5, <1>12, Threads
    <3>6. next'[t + 1] = NULL /\ prev'[t + 1] = NULL
      BY <1>2, <1>4, <1>5, <3>5 DEF HeapInv
    <3>7. Bwd(last'[l], prev', q[l])
      BY <1>6
    <3>8. Detached(q, ListOf(g), arg[g])'
      BY <3>2, <3>5, <3>7 DEF Detached
    <3>9. Stage(pc[g], q, ListOf(g), arg[g])'
      BY <3>2, <3>6, <3>8 DEF Stage
    <3> QED
      BY <3>4, <3>9
  <2>2. Busy(Acceptor)'
    BY <1>7, <1>8 DEF Busy
  <2>3. \A u \in Task : In(q, u) <=>
          u < arg'[Acceptor] \/ (u = arg'[Acceptor] /\ pc'[Acceptor][2] \in {"prev", "last"})
    BY <1>7, <1>12
  <2>4. \A u \in Task : pc'[u] # <<"run">>
    BY <1>7, <1>9, <1>10
  <2>5. pc'[Acceptor] \in Constructing
    BY <1>7, <1>8
  <2> QED
    BY <2>1, <2>2, <2>3, <2>4, <2>5, Threads DEF ContentInv
<1> QED
  BY <1>11, <1>13 DEF Stepped, QueueStep

(* ... or is done, or the thread gives the mutex back.                     *)
LEMMA StepAddDone ==
  ASSUME ThreadInv, NEW q \in [List -> Seq(Task)], ContentInv(q), NEW h \in Thread, AddLast(h),
         NEW op \in {"construct", "add"}, pc[h] = <<op, "last">>,
         ~(op = "construct" /\ arg[h] < MULTIPLICITY)
  PROVE  Stepped(q)
<1>1. PICK l \in List, t \in Task : l = ListOf(h) /\ t = arg[h]
  BY Working
<1>2. /\ Heap /\ HeapInv(q, l, t) /\ BackLinked(q, l, t) /\ Busy(h)
      /\ op = "construct" => h = Acceptor
  BY <1>1, Working DEF Stage
<1>3. /\ pc' = [u \in Thread |->
                  IF u = h THEN IF h = Acceptor THEN <<"accept">> ELSE <<"none">>
                  ELSE IF h = Acceptor /\ op = "add" /\ u = t THEN <<"run">> ELSE pc[u]]
      /\ mutex' = Nobody /\ last' = [last EXCEPT ![l] = t]
      /\ UNCHANGED <<first, next, prev, arg, aborted>>
  BY <1>1 DEF AddLast
<1>4. /\ Linked(q[l], t)
      /\ \A k \in List, u \in Task : HeapInv(q, k, u)' /\ Bwd(last[k], prev, q[k])'
  BY <1>2, <1>3, LinkEnd
<1>5. /\ DOMAIN pc' = Thread
      /\ pc'[h] = IF h = Acceptor THEN <<"accept">> ELSE <<"none">>
      /\ \A u \in Thread \ {h} :
           \/ pc'[u] = pc[u]
           \/ pc'[u] = <<"run">> /\ h = Acceptor /\ op = "add" /\ u = t
  BY <1>3
<1>6. /\ <<"accept">> \notin Constructing \cup Moving \cup {<<"getFirst">>, <<"run">>}
      /\ <<"none">> \notin Constructing \cup Moving \cup {<<"getFirst">>, <<"run">>}
      /\ <<"run">> \notin Constructing \cup Moving \cup {<<"getFirst">>}
  BY Statements
<1>7. \A g \in Thread \ {h} : pc[g] \notin Constructing \cup Moving \cup {<<"getFirst">>}
  <2>1. CASE op = "construct"
    <3>1. pc[h] \in Constructing /\ h = Acceptor
      BY <1>2, <2>1, Statements
    <3>2. \A u \in Task : pc[u] = <<"none">>
      BY <3>1 DEF ThreadInv
    <3> QED
      BY <1>6, <3>1, <3>2, Threads
  <2>2. CASE op = "add"
    <3>1. mutex = h
      <4>1. pc[h] \in Moving
        BY <2>2, Statements
      <4> QED
        BY <4>1 DEF ThreadInv
    <3>2. \A g \in Thread \ {h} : pc[g] \notin Moving \cup {<<"getFirst">>}
      BY <3>1 DEF ThreadInv
    <3>3. \A g \in Thread \ {h} : ~Busy(g)
      BY <1>2, Alone
    <3> QED
      BY <3>2, <3>3 DEF Busy
  <2> QED
    BY <2>1, <2>2
<1>8. \A g \in Thread : pc'[g] \notin Constructing \cup Moving \cup {<<"getFirst">>}
  BY <1>5, <1>6, <1>7
<1>9. ThreadInv'
  <2>1. first' \in [List -> Task \cup {NULL}] /\ last' \in [List -> Task \cup {NULL}]
        /\ next' \in [Task -> Task \cup {NULL}] /\ prev' \in [Task -> Task \cup {NULL}]
    BY <1>2, <1>3 DEF Heap
  <2>2. \A g \in Thread : mutex' = g <=> pc'[g] \in Moving \cup {<<"getFirst">>}
    BY <1>3, <1>8, Threads
  <2>3. pc'[Acceptor] = <<"accept">>
    <3>1. CASE h = Acceptor
      BY <1>5, <3>1
    <3>2. CASE h # Acceptor
      <4>1. pc'[Acceptor] = pc[Acceptor]
        BY <1>5, <3>2, Threads
      <4> QED
        BY <1>7, <3>2, <4>1, Threads DEF ThreadInv
    <3> QED
      BY <3>1, <3>2
  <2>4. \A u \in Task : pc'[u] \in {<<"none">>, <<"run">>}
    <3>1. ASSUME NEW u \in Task PROVE pc'[u] \in {<<"none">>, <<"run">>}
      <4>1. CASE u = h
        BY <1>5, <4>1, Threads
      <4>2. CASE u # h
        <5>1. u \in Thread \ {h} /\ pc[u] \in {<<"none">>, <<"run">>}
          BY <1>7, <4>2, Threads DEF ThreadInv
        <5> QED
          BY <1>5, <5>1
      <4> QED
        BY <4>1, <4>2
    <3> QED
      BY <3>1
  <2>5. /\ ~aborted' /\ arg' \in [Thread -> Task] /\ \A u \in Task : arg'[u] = u
        /\ mutex' \in Thread \cup {Nobody}
    BY <1>3 DEF ThreadInv
  <2> QED
    BY <1>5, <1>8, <2>1, <2>2, <2>3, <2>4, <2>5, Threads DEF ThreadInv
<1>10. \A u \in Task : In(q, u)
  <2>1. CASE op = "construct"
    <3>1. pc[Acceptor] \in Constructing /\ arg[Acceptor] = t /\ pc[Acceptor][2] = "last"
      <4>1. h = Acceptor /\ pc[Acceptor] = <<"construct", "last">>
        BY <1>2, <2>1
      <4>2. pc[Acceptor] \in Constructing
        BY <4>1, Statements
      <4> QED
        BY <1>1, <4>1, <4>2
    <3>2. \A u \in Task : In(q, u) <=> u < t \/ u = t
      BY <3>1 DEF ContentInv
    <3>3. \A u \in Task : u < t \/ u = t
      BY <1>1, <2>1, ListAssumption DEF Task
    <3> QED
      BY <3>2, <3>3
  <2>2. CASE op = "add"
    <3>1. pc[Acceptor] \notin Constructing
      <4>1. CASE h = Acceptor
        BY <2>2, <4>1, Statements
      <4>2. CASE h # Acceptor
        BY <1>7, <4>2, Threads
      <4> QED
        BY <4>1, <4>2
    <3>2. \A u \in Task : In(q, u) \/ \E g \in Thread : Busy(g) /\ u = arg[g]
      BY <3>1 DEF ContentInv
    <3>3. \A g \in Thread : Busy(g) => g = h
      BY <1>2, Alone
    <3> QED
      BY <1>1, <1>4, <3>2, <3>3 DEF In
  <2> QED
    BY <2>1, <2>2
<1>11. \A u \in Task : pc'[u] = <<"run">> => Linked(q["running"], u)
  <2>1. ASSUME NEW u \in Task, pc'[u] = <<"run">> PROVE Linked(q["running"], u)
    <3>1. CASE pc'[u] = pc[u]
      BY <2>1, <3>1 DEF ContentInv
    <3>2. CASE pc'[u] # pc[u]
      <4>1. u # h
        BY <1>5, <1>6, <2>1, Threads
      <4>2. h = Acceptor /\ op = "add" /\ u = t
        BY <1>5, <3>2, <4>1, Threads
      <4>3. l = "running"
        BY <1>1, <4>2, ListOfIs
      <4> QED
        BY <1>4, <4>2, <4>3
    <3> QED
      BY <3>1, <3>2
  <2> QED
    BY <2>1
<1>12. Lists(q) /\ \A k \in List : Fwd(first'[k], next', q[k]) /\ Bwd(last'[k], prev', q[k])
  BY <1>2, <1>3, <1>4 DEF HeapInv
<1>13. \A g \in Thread : ~Busy(g)'
  BY <1>8 DEF Busy
<1>14. ContentInv(q)'
  BY <1>10, <1>11, <1>12, <1>13, Rested
<1> QED
  BY <1>9, <1>14 DEF Stepped, QueueStep

(* So whichever it is, the last assignment of add keeps the invariant.     *)
LEMMA StepAddLast ==
  ASSUME ThreadInv, NEW q \in [List -> Seq(Task)], ContentInv(q), NEW h \in Thread, AddLast(h)
  PROVE  Stepped(q)
<1>1. PICK op \in {"construct", "add"} : pc[h] = <<op, "last">>
  BY DEF AddLast, Adding, At
<1> QED
  BY <1>1, StepConstructNext, StepAddDone

(* Outside of the operations the lists are complete.                       *)
LEMMA Resting ==
  ASSUME ThreadInv, NEW q \in [List -> Seq(Task)], ContentInv(q), \A g \in Thread : ~Busy(g)
  PROVE  /\ Lists(q) /\ \A k \in List : Fwd(first[k], next, q[k]) /\ Bwd(last[k], prev, q[k])
         /\ \A u \in Task : In(q, u)
         /\ \A l \in List, t \in Task : HeapInv(q, l, t)
<1>1. pc[Acceptor] \notin Constructing
  BY Threads DEF Busy
<1>2. Lists(q) /\ \A k \in List : Fwd(first[k], next, q[k]) /\ Bwd(last[k], prev, q[k])
  BY DEF ContentInv
<1>3. \A u \in Task : In(q, u)
  BY <1>1 DEF ContentInv
<1> QED
  BY <1>2, <1>3 DEF HeapInv

(* A connection comes in.                                                  *)
LEMMA StepAcceptorLock ==
  ASSUME ThreadInv, NEW q \in [List -> Seq(Task)], ContentInv(q), AcceptorLock
  PROVE  Stepped(q)
<1>1. /\ pc[Acceptor] = <<"accept">> /\ mutex = Nobody /\ mutex' = Acceptor
      /\ pc' = [pc EXCEPT ![Acceptor] = <<"getFirst">>]
      /\ UNCHANGED <<first, last, next, prev, arg, aborted>>
  BY DEF AcceptorLock
<1>2. /\ DOMAIN pc' = Thread /\ pc'[Acceptor] = <<"getFirst">>
      /\ \A u \in Task : pc'[u] = pc[u]
  BY <1>1, Threads DEF ThreadInv
<1>3. /\ <<"accept">> \notin Constructing \cup Moving
      /\ <<"getFirst">> \notin Constructing \cup Moving
      /\ <<"none">> \notin Constructing \cup Moving \cup {<<"getFirst">>}
      /\ <<"run">> \notin Constructing \cup Moving \cup {<<"getFirst">>}
  BY Statements
<1>4. \A u \in Task : pc[u] \in {<<"none">>, <<"run">>}
  BY <1>1, Threads DEF ThreadInv
<1>5. (\A g \in Thread : ~Busy(g)) /\ \A g \in Thread : ~Busy(g)'
  <2>1. \A u \in Task : pc[u] \notin Constructing \cup Moving
    BY <1>3, <1>4
  <2>2. \A g \in Thread : ~Busy(g)
    BY <1>1, <1>3, <2>1, Threads DEF Busy
  <2>3. \A g \in Thread : ~Busy(g)'
    BY <1>2, <1>3, <2>1, Threads DEF Busy
  <2> QED
    BY <2>2, <2>3
<1>6. ThreadInv'
  <2>1. \A g \in Thread : mutex' = g <=> pc'[g] \in Moving \cup {<<"getFirst">>}
    BY <1>1, <1>2, <1>3, <1>4, Threads
  <2> QED
    BY <1>1, <1>2, <1>3, <2>1, Threads DEF ThreadInv
<1>7. ContentInv(q)'
  <2>1. /\ Lists(q) /\ \A k \in List : Fwd(first[k], next, q[k]) /\ Bwd(last[k], prev, q[k])
        /\ \A u \in Task : In(q, u)
    BY <1>5, Resting
  <2>2. \A u \in Task : pc'[u] = <<"run">> => Linked(q["running"], u)
    BY <1>2 DEF ContentInv
  <2>3. \A k \in List : Fwd(first'[k], next', q[k]) /\ Bwd(last'[k], prev', q[k])
    BY <1>1, <2>1
  <2> QED
    BY <1>5, <2>1, <2>2, <2>3, Rested
<1> QED
  BY <1>6, <1>7 DEF Stepped, QueueStep

(* A thread begins to take task t out of the list it is in.                *)
LEMMA Begin ==
  ASSUME ThreadInv, NEW q \in [List -> Seq(Task)], ContentInv(q), NEW h \in Thread,
         NEW t \in Task, NEW l \in List, Linked(q[l], t), \A g \in Thread : ~Busy(g),
         DOMAIN pc' = Thread, pc'[h] = <<"remove", "forward">>,
         \A g \in Thread \ {h} : pc'[g] = pc[g],
         arg'[h] = t, ListOf(h)' = l, UNCHANGED <<first, last, next, prev>>
  PROVE  ContentInv(q)'
<1>1. /\ Lists(q) /\ HeapInv(q, l, t)
      /\ \A k \in List : Fwd(first[k], next, q[k]) /\ Bwd(last[k], prev, q[k])
      /\ \A u \in Task : In(q, u)
  BY Resting
<1>2. /\ <<"remove", "forward">> \in Moving /\ <<"remove", "forward">> \notin Constructing
      /\ <<"remove", "forward">> # <<"run">>
  BY Statements
<1>3. Busy(h)' /\ \A g \in Thread : Busy(g)' => g = h
  BY <1>2 DEF Busy
<1>4. pc'[Acceptor] \notin Constructing
  BY <1>2, Threads DEF Busy
<1>5. \A u \in Task : pc'[u] = <<"run">> => Linked(q["running"], u)
  BY <1>2, Threads DEF ContentInv
<1>6. ASSUME NEW g \in Thread, Busy(g)'
      PROVE  HeapInv(q, ListOf(g), arg[g])' /\ Stage(pc[g], q, ListOf(g), arg[g])'
  <2>1. pc'[g] = <<"remove", "forward">> /\ arg'[g] = t /\ ListOf(g)' = l
    BY <1>3, <1>6
  <2>2. HeapInv(q, ListOf(g), arg[g])'
    BY <1>1, <2>1 DEF HeapInv
  <2>3. Bwd(last'[l], prev', q[l])
    BY <1>1
  <2>4. Stage(pc[g], q, ListOf(g), arg[g])'
    BY <2>1, <2>3 DEF Stage
  <2> QED
    BY <2>2, <2>4
<1> QED
  BY <1>1, <1>3, <1>4, <1>5, <1>6 DEF ContentInv

(* The acceptor takes the first free task, or none is free.                *)
LEMMA StepGetFirst ==
  ASSUME ThreadInv, NEW q \in [List -> Seq(Task)], ContentInv(q), GetFirst
  PROVE  Stepped(q)
<1>1. pc[Acceptor] = <<"getFirst">> /\ UNCHANGED <<first, last, next, prev, aborted>>
  BY DEF GetFirst
<1>2. /\ <<"accept">> \notin Constructing \cup Moving \cup {<<"getFirst">>}
      /\ <<"getFirst">> \notin Constructing \cup Moving
      /\ <<"remove", "forward">> \in Moving
  BY Statements
<1>3. mutex = Acceptor /\ \A u \in Task : pc[u] \notin Moving \cup {<<"getFirst">>}
  BY <1>1, Threads DEF ThreadInv
<1>4. \A u \in Task : pc[u] \in {<<"none">>, <<"run">>}
  BY <1>3 DEF ThreadInv
<1>5. \A g \in Thread : ~Busy(g)
  <2>1. <<"none">> \notin Constructing \cup Moving /\ <<"run">> \notin Constructing \cup Moving
    BY Statements
  <2> QED
    BY <1>1, <1>2, <1>4, <2>1, Threads DEF Busy
<1>6. /\ Lists(q) /\ \A u \in Task : In(q, u)
      /\ \A k \in List : Fwd(first[k], next, q[k]) /\ Bwd(last[k], prev, q[k])
  BY <1>5, Resting
<1>7. CASE first["free"] # NULL
  <2> DEFINE t == first["free"]
  <2>1. /\ pc' = [pc EXCEPT ![Acceptor] = <<"remove", "forward">>]
        /\ arg' = [arg EXCEPT ![Acceptor] = t] /\ UNCHANGED mutex
    BY <1>7 DEF GetFirst, Goto
  <2>2. PICK u \in Task : u = first["free"] /\ Linked(q["free"], u)
    <3>1. "free" \in List /\ first["free"] = Nth(q["free"], 1)
      BY <1>6 DEF Fwd, List
    <3> QED
      BY <1>6, <1>7, <3>1, Elements DEF Nth, Linked
  <2>3. /\ DOMAIN pc' = Thread /\ pc'[Acceptor] = <<"remove", "forward">>
        /\ \A g \in Thread \ {Acceptor} : pc'[g] = pc[g]
    BY <2>1, Threads DEF ThreadInv
  <2>4. arg'[Acceptor] = u /\ arg' \in [Thread -> Task] /\ \A v \in Task : arg'[v] = v
    BY <2>1, <2>2, Threads DEF ThreadInv
  <2>5. ListOf(Acceptor)' = "free" /\ "free" \in List
    BY <2>3 DEF ListOf, List
  <2>6. ContentInv(q)'
    BY <1>1, <1>5, <2>2, <2>3, <2>4, <2>5, Threads, Begin
  <2>7. ThreadInv'
    <3>1. \A g \in Thread : mutex' = g <=> pc'[g] \in Moving \cup {<<"getFirst">>}
      BY <1>2, <1>3, <2>1, <2>3, Threads
    <3>2. pc'[Acceptor] \notin Constructing
      BY <2>3, Statements
    <3>3. \A v \in Task : pc'[v] \in Moving \cup {<<"none">>, <<"run">>}
      BY <1>4, <2>3, Threads
    <3> QED
      BY <1>1, <1>2, <2>1, <2>3, <2>4, <3>1, <3>2, <3>3 DEF ThreadInv
  <2> QED
    BY <2>6, <2>7 DEF Stepped, QueueStep
<1>8. CASE first["free"] = NULL
  <2>1. /\ pc' = [pc EXCEPT ![Acceptor] = <<"accept">>] /\ mutex' = Nobody /\ UNCHANGED arg
    BY <1>8 DEF GetFirst
  <2>2. /\ DOMAIN pc' = Thread /\ pc'[Acceptor] = <<"accept">>
        /\ \A u \in Task : pc'[u] = pc[u]
    BY <2>1, Threads DEF ThreadInv
  <2>3. \A g \in Thread : ~Busy(g)'
    BY <1>2, <1>5, <2>2, Threads DEF Busy
  <2>4. ThreadInv'
    <3>1. \A g \in Thread : mutex' = g <=> pc'[g] \in Moving \cup {<<"getFirst">>}
      BY <1>2, <1>3, <2>1, <2>2, Threads
    <3> QED
      BY <1>1, <1>2, <2>1, <2>2, <3>1 DEF ThreadInv
  <2>5. ContentInv(q)'
    <3>1. \A u \in Task : pc'[u] = <<"run">> => Linked(q["running"], u)
      BY <2>2 DEF ContentInv
    <3>2. \A k \in List : Fwd(first'[k], next', q[k]) /\ Bwd(last'[k], prev', q[k])
      BY <1>1, <1>6
    <3> QED
      BY <1>6, <2>3, <3>1, <3>2, Rested
  <2> QED
    BY <2>4, <2>5 DEF Stepped, QueueStep
<1> QED
  BY <1>7, <1>8

(* A task ends: it is in the running list when its thread takes it out.    *)
LEMMA StepEndCommTask ==
  ASSUME ThreadInv, NEW q \in [List -> Seq(Task)], ContentInv(q), NEW t \in Task, EndCommTask(t)
  PROVE  Stepped(q)
<1>1. /\ pc[t] = <<"run">> /\ mutex = Nobody /\ mutex' = t
      /\ pc' = [pc EXCEPT ![t] = <<"remove", "forward">>]
      /\ UNCHANGED <<first, last, next, prev, arg, aborted>>
  BY DEF EndCommTask, Goto
<1>2. t \in Thread /\ t # Acceptor
  BY Threads
<1>3. /\ DOMAIN pc' = Thread /\ pc'[t] = <<"remove", "forward">>
      /\ \A g \in Thread \ {t} : pc'[g] = pc[g]
  BY <1>1, <1>2 DEF ThreadInv
<1>4. \A g \in Thread : pc[g] \notin Moving \cup {<<"getFirst">>}
  BY <1>1, Threads DEF ThreadInv
<1>5. pc[Acceptor] \notin Constructing
  <2>1. <<"run">> # <<"none">>
    BY Statements
  <2> QED
    BY <1>1, <2>1 DEF ThreadInv
<1>6. \A g \in Thread : ~Busy(g)
  <2>1. \A u \in Task : pc[u] \in {<<"none">>, <<"run">>}
    BY <1>4, Threads DEF ThreadInv
  <2>2. \A u \in Task : pc[u] \notin Constructing
    BY <2>1, Statements
  <2> QED
    BY <1>4, <1>5, <2>2, Threads DEF Busy
<1>7. Linked(q["running"], t)
  BY <1>1 DEF ContentInv
<1>8. arg'[t] = t /\ "running" \in List /\ ListOf(t)' = "running"
  BY <1>1, <1>2, <1>3 DEF ThreadInv, ListOf, List
<1>9. ContentInv(q)'
  BY <1>1, <1>2, <1>3, <1>6, <1>7, <1>8, Begin
<1>10. ThreadInv'
  <2>1. <<"remove", "forward">> \in Moving
    BY Statements
  <2>2. \A g \in Thread : mutex' = g <=> pc'[g] \in Moving \cup {<<"getFirst">>}
    BY <1>1, <1>2, <1>3, <1>4, <2>1
  <2>3. /\ pc'[Acceptor] = pc[Acceptor]
        /\ \A u \in Task : pc'[u] \in Moving \cup {<<"none">>, <<"run">>}
    BY <1>2, <1>3, <2>1, Threads DEF ThreadInv
  <2> QED
    BY <1>1, <1>2, <1>3, <1>5, <2>2, <2>3 DEF ThreadInv
<1> QED
  BY <1>9, <1>10 DEF Stepped, QueueStep

-----------------------------------------------------------------------------
(* All the steps together.                                                 *)

(* Whatever step is taken.                                                 *)
LEMMA StepAny ==
  ASSUME ThreadInv, NEW q \in [List -> Seq(Task)], ContentInv(q), Next
  PROVE  Stepped(q)
<1>1. ASSUME NEW h \in Thread, ListStep(h) PROVE Stepped(q)
  <2>1. CASE AddCheck(h)
    BY <2>1, StepAddCheck
  <2>2. CASE AddLinkLast(h)
    BY <2>2, StepAddLinkLast
  <2>3. CASE AddLinkFirst(h)
    BY <2>3, StepAddLinkFirst
  <2>4. CASE AddPrev(h)
    BY <2>4, StepAddPrev
  <2>5. CASE AddLast(h)
    BY <2>5, StepAddLast
  <2>6. CASE RemoveForward(h)
    BY <2>6, StepRemoveForward
  <2>7. CASE RemoveBackward(h)
    BY <2>7, StepRemoveBackward
  <2>8. CASE RemoveNext(h)
    BY <2>8, StepRemoveNext
  <2>9. CASE RemovePrev(h)
    BY <2>9, StepRemovePrev
  <2> QED
    BY <1>1, <2>1, <2>2, <2>3, <2>4, <2>5, <2>6, <2>7, <2>8, <2>9 DEF ListStep
<1>2. CASE AcceptorLock
  BY <1>2, StepAcceptorLock
<1>3. CASE GetFirst
  BY <1>3, StepGetFirst
<1>4. ASSUME NEW t \in Task, EndCommTask(t) PROVE Stepped(q)
  BY <1>4, StepEndCommTask
<1> QED
  BY <1>1, <1>2, <1>3, <1>4 DEF Next

(* Before the first task is added.                                         *)
LEMMA InitInv ==
  ASSUME Init
  PROVE  ThreadInv /\ ContentInv([l \in List |-> <<>>])
<1> DEFINE q == [l \in List |-> <<>>]
<1>1. /\ pc[Acceptor] = <<"construct", "check">> /\ arg[Acceptor] = 1
      /\ \A u \in Task : pc[u] = <<"none">> /\ arg[u] = u
      /\ DOMAIN pc = Thread /\ arg \in [Thread -> Task]
  BY Threads DEF Init
<1>2. /\ <<"construct", "check">> \in Constructing
      /\ <<"construct", "check">> \notin Moving \cup {<<"getFirst">>}
      /\ <<"none">> \notin Constructing \cup Moving \cup {<<"getFirst">>, <<"run">>}
  BY Statements
<1>3. ThreadInv
  <2>1. \A g \in Thread : mutex = g <=> pc[g] \in Moving \cup {<<"getFirst">>}
    <3>1. \A g \in Thread : mutex # g
      BY Threads DEF Init
    <3>2. \A g \in Thread : pc[g] \in {<<"construct", "check">>, <<"none">>}
      BY <1>1, Threads
    <3> QED
      BY <1>2, <3>1, <3>2
  <2>2. ~aborted /\ mutex = Nobody
    BY DEF Init
  <2>3. /\ first \in [List -> Task \cup {NULL}] /\ last \in [List -> Task \cup {NULL}]
        /\ next \in [Task -> Task \cup {NULL}] /\ prev \in [Task -> Task \cup {NULL}]
    BY DEF Init
  <2> QED
    BY <1>1, <1>2, <2>1, <2>2, <2>3 DEF ThreadInv
<1>4. q \in [List -> Seq(Task)] /\ \A l \in List : q[l] = <<>>
  OBVIOUS
<1>5. \A l \in List : DOMAIN q[l] = {} /\ Len(q[l]) = 0
  BY <1>4
<1>6. (\A l \in List : \A u : ~Linked(q[l], u)) /\ (\A u : ~In(q, u))
  BY <1>5 DEF Linked, In
<1>7. "free" \in List /\ "running" \in List
  BY DEF List
<1> HIDE DEF q
<1>8. Lists(q)
  BY <1>4, <1>5, <1>6, <1>7 DEF Lists, Distinct
<1>9. \A l \in List : Fwd(first[l], next, q[l]) /\ Bwd(last[l], prev, q[l])
  BY <1>5 DEF Init, Fwd, Bwd, Nth
<1>10. \A u \in Task : next[u] = NULL /\ prev[u] = NULL
  BY DEF Init
<1>11. ContentInv(q)
  <2>1. ASSUME NEW h \in Thread, Busy(h)
        PROVE  HeapInv(q, ListOf(h), arg[h]) /\ Stage(pc[h], q, ListOf(h), arg[h])
    <3>1. h = Acceptor
      BY <1>1, <1>2, <2>1, Threads DEF Busy
    <3>2. ListOf(h) \in List /\ arg[h] \in Task /\ pc[h] = <<"construct", "check">>
      BY <1>1, <1>7, <3>1, ListOfIs, Threads
    <3>3. HeapInv(q, ListOf(h), arg[h])
      BY <1>8, <1>9, <1>10 DEF HeapInv
    <3>4. Stage(pc[h], q, ListOf(h), arg[h])
      BY <1>6, <1>9, <1>10, <3>2 DEF Stage, Detached
    <3> QED
      BY <3>3, <3>4
  <2>2. Busy(Acceptor) /\ pc[Acceptor] \in Constructing
    BY <1>1, <1>2 DEF Busy
  <2>3. \A u \in Task : pc[u] # <<"run">>
    BY <1>1, <1>2
  <2>4. \A u \in Task : ~(u < arg[Acceptor] \/
                            (u = arg[Acceptor] /\ pc[Acceptor][2] \in {"prev", "last"}))
    BY <1>1 DEF Task
  <2> QED
    BY <1>6, <2>1, <2>2, <2>3, <2>4, Threads DEF ContentInv
<1> QED
  BY <1>3, <1>11 DEF q

(* What the lists hold is what is read from them forward.                  *)
LEMMA ReadForward ==
  ASSUME ThreadInv, NEW q \in [List -> Seq(Task)], ContentInv(q)
  PROVE  /\ Lists(q)
         /\ q = [l \in List |-> Chain(first[l], next)]
<1>1. Lists(q) /\ \A l \in List : Fwd(first[l], next, q[l])
  <2>1. CASE \E h \in Thread : Busy(h)
    BY <2>1 DEF ContentInv, HeapInv
  <2>2. CASE \A h \in Thread : ~Busy(h)
    BY <2>2 DEF ContentInv
  <2> QED
    BY <2>1, <2>2
<1>2. ASSUME NEW l \in List PROVE Chain(first[l], next) = q[l]
  BY <1>1, ChainIs DEF Lists
<1> QED
  BY <1>1, <1>2

(* Nothing changes, the invariant stays.                                   *)
LEMMA StepStutter ==
  ASSUME ThreadInv, NEW q \in [List -> Seq(Task)], ContentInv(q), UNCHANGED vars
  PROVE  Stepped(q)
<1>1. ThreadInv'
  BY DEF ThreadInv, vars
<1>2. \A h \in Thread : (Busy(h)' <=> Busy(h)) /\ ListOf(h)' = ListOf(h)
  BY DEF Busy, ListOf, vars
<1>3. ASSUME NEW h \in Thread, Busy(h)'
      PROVE  HeapInv(q, ListOf(h), arg[h])' /\ Stage(pc[h], q, ListOf(h), arg[h])'
  <2>1. HeapInv(q, ListOf(h), arg[h]) /\ Stage(pc[h], q, ListOf(h), arg[h])
    BY <1>2, <1>3 DEF ContentInv
  <2>2. HeapInv(q, ListOf(h), arg[h])'
    BY <1>2, <2>1 DEF HeapInv, vars
  <2>3. Stage(pc[h], q, ListOf(h), arg[h])'
    BY <1>2, <2>1 DEF Stage, Detached, Appended, BackLinked, Bypassed, vars
  <2> QED
    BY <2>2, <2>3
<1>4. ContentInv(q)'
  BY <1>2, <1>3 DEF ContentInv, vars
<1> QED
  BY <1>1, <1>4 DEF Stepped, QueueStep

(* In every reachable state the two lists are two sequences of different   *)
(* tasks, none in both; each can be followed forward at every assignment   *)
(* of add and remove, and what is not yet or no longer linked is what the  *)
(* statement the working thread is at leaves to do.                        *)
THEOREM Invariance == Spec => []IInv
<1>1. Init => IInv
  <2>1. [l \in List |-> <<>>] \in [List -> Seq(Task)]
    OBVIOUS
  <2> QED
    BY <2>1, InitInv DEF IInv
<1>2. IInv /\ [Next]_vars => IInv'
  <2>1. SUFFICES ASSUME IInv, [Next]_vars PROVE IInv'
    OBVIOUS
  <2>2. PICK q \in [List -> Seq(Task)] : ContentInv(q)
    BY <2>1 DEF IInv
  <2>3. Stepped(q)
    BY <2>1, <2>2, StepAny, StepStutter DEF IInv
  <2> QED
    BY <2>3 DEF Stepped, IInv
<1> QED
  BY <1>1, <1>2, PTL DEF Spec

(* add never finds its task linked, nor a list with a first and no last:   *)
(* "task list corrupted" is never reported, for any number of tasks.       *)
THEOREM NeverAbortsAlways == Spec => []NeverAborts
<1>1. IInv => NeverAborts
  BY DEF IInv, ThreadInv, NeverAborts
<1> QED
  BY <1>1, Invariance, PTL

(* The place of the next one in the reverse is the one before.             *)
LEMMA MirrorPlace ==
  ASSUME NEW n \in Nat, NEW i \in 1 .. n, i # n
  PROVE  i + 1 \in 1 .. n /\ n - i + 1 - 1 = n - (i + 1) + 1 /\ n - (i + 1) + 1 \in 1 .. n
OBVIOUS

(* Read backward, a list is the reverse of what it is forward.             *)
LEMMA Backward ==
  ASSUME NEW s \in Seq(Task), Distinct(s), NEW b, NEW pv, Bwd(b, pv, s)
  PROVE  Chain(b, pv) = Reverse(s)
<1> DEFINE v == Reverse(s)
           n == Len(s)
<1>1. n \in Nat /\ DOMAIN s = 1 .. n /\ \A i \in 1 .. n : s[i] \in Task
  BY LenProperties
<1>2. v = [i \in 1 .. n |-> s[n - i + 1]]
  BY DEF Reverse
<1>3. \A i \in 1 .. n : n - i + 1 \in 1 .. n
  BY <1>1
<1>4. v \in Seq(Task) /\ Len(v) = n /\ DOMAIN v = 1 .. n
  BY <1>1, <1>2, <1>3
<1>5. \A i \in 1 .. n : v[i] = s[n - i + 1]
  BY <1>2
<1> HIDE DEF v
<1>6. Distinct(v)
  <2>1. ASSUME NEW i \in 1 .. n, NEW j \in 1 .. n, v[i] = v[j] PROVE i = j
    <3>1. n - i + 1 = n - j + 1
      BY <1>1, <1>3, <1>5, <2>1 DEF Distinct
    <3> QED
      BY <1>1, <3>1
  <2> QED
    BY <1>4, <2>1 DEF Distinct
<1>7. Fwd(b, pv, v)
  <2>1. b = Nth(v, 1)
    BY <1>1, <1>4, <1>5 DEF Bwd, Nth
  <2>2. ASSUME NEW i \in 1 .. n PROVE pv[v[i]] = Nth(v, i + 1)
    <3>1. pv[v[i]] = Nth(s, n - i + 1 - 1)
      BY <1>1, <1>3, <1>5 DEF Bwd
    <3>2. CASE i = n
      BY <1>1, <1>4, <3>1, <3>2 DEF Nth
    <3>3. CASE i # n
      <4>1. i + 1 \in 1 .. n /\ n - i + 1 - 1 = n - (i + 1) + 1 /\ n - (i + 1) + 1 \in 1 .. n
        <5>1. n \in Nat
          BY LenProperties
        <5> HIDE DEF n
        <5> QED
          BY <3>3, <5>1, MirrorPlace
      <4> QED
        BY <1>1, <1>4, <1>5, <3>1, <4>1 DEF Nth
    <3> QED
      BY <3>2, <3>3
  <2> QED
    BY <1>4, <2>1, <2>2 DEF Fwd
<1>8. Chain(b, pv) = v
  BY <1>4, <1>6, <1>7, ChainIs
<1> QED
  BY <1>8 DEF v

(* Whenever the mutex is free the two directions agree, the ends are       *)
(* closed and no task is lost, for any number of tasks.                    *)
THEOREM WellLinkedAlways == Spec => []WellLinked
<1>1. IInv => WellLinked
  <2>1. SUFFICES ASSUME IInv, mutex = Nobody, pc[Acceptor] = <<"accept">>
        PROVE  /\ \A l \in List :
                    /\ Chain(last[l], prev) = Reverse(Chain(first[l], next))
                    /\ first[l] # NULL => prev[first[l]] = NULL
                    /\ last[l] # NULL => next[last[l]] = NULL
               /\ \A t \in Task : \E l \in List : Linked(Chain(first[l], next), t)
    BY DEF WellLinked
  <2>2. PICK q \in [List -> Seq(Task)] : ContentInv(q)
    BY <2>1 DEF IInv
  <2>3. ThreadInv /\ \A g \in Thread : ~Busy(g)
    <3>1. ThreadInv
      BY <2>1 DEF IInv
    <3>2. \A g \in Thread : pc[g] \notin Moving
      BY <2>1, <3>1, Threads DEF ThreadInv
    <3>3. pc[Acceptor] \notin Constructing
      BY <2>1, Statements
    <3>4. \A u \in Task : pc[u] \notin Constructing
      <4>1. \A u \in Task : pc[u] \in {<<"none">>, <<"run">>}
        BY <3>1, <3>2, Threads DEF ThreadInv
      <4> QED
        BY <4>1, Statements
    <3> QED
      BY <3>1, <3>2, <3>3, <3>4, Threads DEF Busy
  <2>4. /\ Lists(q) /\ \A k \in List : Fwd(first[k], next, q[k]) /\ Bwd(last[k], prev, q[k])
        /\ \A u \in Task : In(q, u)
    BY <2>2, <2>3, Resting
  <2>5. \A l \in List : Chain(first[l], next) = q[l]
    BY <2>2, <2>3, ReadForward
  <2>6. ASSUME NEW l \in List
        PROVE  /\ Chain(last[l], prev) = Reverse(q[l])
               /\ first[l] # NULL => prev[first[l]] = NULL
               /\ last[l] # NULL => next[last[l]] = NULL
    <3>1. Chain(last[l], prev) = Reverse(q[l])
      BY <2>4, Backward DEF Lists
    <3>2. /\ Len(q[l]) \in Nat /\ DOMAIN q[l] = 1 .. Len(q[l])
      BY <2>4, Elements
    <3>3. /\ first[l] = Nth(q[l], 1) /\ last[l] = Nth(q[l], Len(q[l]))
          /\ \A i \in 1 .. Len(q[l]) : /\ next[q[l][i]] = Nth(q[l], i + 1)
                                       /\ prev[q[l][i]] = Nth(q[l], i - 1)
      BY <2>4, <3>2 DEF Fwd, Bwd
    <3> QED
      BY <3>1, <3>2, <3>3 DEF Nth
  <2> QED
    BY <2>4, <2>5, <2>6 DEF In
<1> QED
  BY <1>1, Invariance, PTL

(* Read forward, the lists are a TaskQueue: the assignment that links or   *)
(* unlinks the task forward is AddTask or RemoveTask, and the others, the  *)
(* mutex and the threads change nothing.                                   *)
THEOREM ListsAreQueues == Spec => ImplementsTaskQueue
<1> DEFINE read == [l \in List |-> Chain(first[l], next)]
<1>1. Init => Q!Init
  <2>1. SUFFICES ASSUME Init PROVE read = [l \in List |-> <<>>]
    BY DEF Q!Init
  <2>2. [l \in List |-> <<>>] \in [List -> Seq(Task)]
    OBVIOUS
  <2> QED
    BY <2>1, <2>2, InitInv, ReadForward
<1>2. \A q \in [List -> Seq(Task)] : ThreadInv /\ ContentInv(q) => q = read
  BY ReadForward
<1>3. (\A q \in [List -> Seq(Task)] : ThreadInv /\ ContentInv(q) => q = read)'
  BY <1>2, PTL
<1>4. IInv /\ [Next]_vars => [Q!Next]_read
  <2>1. SUFFICES ASSUME IInv, [Next]_vars PROVE [Q!Next]_read
    OBVIOUS
  <2>2. PICK q \in [List -> Seq(Task)] : ContentInv(q)
    BY <2>1 DEF IInv
  <2>3. Stepped(q)
    BY <2>1, <2>2, StepAny, StepStutter DEF IInv
  <2>4. PICK r \in [List -> Seq(Task)] : ContentInv(r)' /\ QueueStep(q, r)
    BY <2>3 DEF Stepped
  <2>5. read = q
    BY <2>1, <2>2, ReadForward DEF IInv
  <2>6. read' = r
    <3>1. ThreadInv'
      BY <2>3 DEF Stepped
    <3> QED
      BY <1>3, <2>4, <3>1
  <2>7. CASE r = q
    BY <2>5, <2>6, <2>7
  <2>8. ASSUME NEW l \in List, NEW t \in Task, ~In(q, t), r = Added(q, l, t) PROVE Q!Next
    <3>1. read' = [read EXCEPT ![l] = Append(read[l], t)]
      BY <2>5, <2>6, <2>8 DEF Added
    <3>2. \A k \in List : ~Linked(read[k], t)
      BY <2>5, <2>8 DEF In
    <3>3. Q!AddTask(l, t)
      BY <3>1, <3>2 DEF Q!AddTask, Q!Linked, Linked
    <3> QED
      BY <3>3 DEF Q!Next
  <2>9. ASSUME NEW l \in List, NEW t \in Task, Linked(q[l], t), r = Taken(q, l, t) PROVE Q!Next
    <3>1. read' = [read EXCEPT ![l] = Unlink(read[l], t)]
      BY <2>5, <2>6, <2>9 DEF Taken
    <3>2. Linked(read[l], t)
      BY <2>5, <2>9
    <3>3. Q!Unlink(read[l], t) = Unlink(read[l], t)
      BY DEF Q!Unlink, Unlink, Q!RemoveAt, RemoveAt
    <3>4. Q!RemoveTask(l, t)
      BY <3>1, <3>2, <3>3 DEF Q!RemoveTask, Q!Linked, Linked
    <3> QED
      BY <3>4 DEF Q!Next
  <2> QED
    BY <2>4, <2>7, <2>8, <2>9 DEF QueueStep
<1> QED
  BY <1>1, <1>4, Invariance, PTL DEF Spec, ImplementsTaskQueue, Q!Spec
=============================================================================
