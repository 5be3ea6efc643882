-------------------------- MODULE TaskLists_proof --------------------------
(***************************************************************************)
(* What appending and unlinking do to the content of a list.               *)
(***************************************************************************)
EXTENDS TaskLists, SequenceTheorems, TLAPS

(* add puts the task at the end and changes nothing else.                  *)
LEMMA LinkedAppend ==
  ASSUME NEW S, NEW q \in Seq(S), NEW t \in S
  PROVE  /\ Append(q, t) \in Seq(S)
         /\ Len(Append(q, t)) = Len(q) + 1
         /\ \A u : Linked(Append(q, t), u) <=> Linked(q, u) \/ u = t
         /\ Distinct(q) /\ ~Linked(q, t) => Distinct(Append(q, t))
<1> DEFINE a == Append(q, t)
<1>1. /\ a \in Seq(S)
      /\ Len(a) = Len(q) + 1
      /\ \A i \in 1 .. Len(q) : a[i] = q[i]
      /\ a[Len(q) + 1] = t
  BY AppendProperties
<1>2. Len(q) \in Nat /\ DOMAIN q = 1 .. Len(q) /\ DOMAIN a = 1 .. Len(q) + 1
  BY <1>1, LenProperties
<1> HIDE DEF a
<1>3. \A u : Linked(a, u) <=> Linked(q, u) \/ u = t
  BY <1>1, <1>2 DEF Linked
<1>4. Distinct(q) /\ ~Linked(q, t) => Distinct(a)
  BY <1>1, <1>2 DEF Linked, Distinct
<1> QED
  BY <1>1, <1>3, <1>4 DEF a

(* The sequence without its i-th element.                                  *)
LEMMA RemoveAtProperties ==
  ASSUME NEW S, NEW q \in Seq(S), NEW i \in 1 .. Len(q)
  PROVE  /\ RemoveAt(q, i) \in Seq(S)
         /\ Len(RemoveAt(q, i)) = Len(q) - 1
         /\ \A j \in 1 .. Len(q) - 1 :
              RemoveAt(q, i)[j] = IF j < i THEN q[j] ELSE q[j + 1]
<1>1. Len(q) \in Nat /\ \A j \in 1 .. Len(q) : q[j] \in S
  BY LenProperties, ElementOfSeq
<1> DEFINE u == SubSeq(q, 1, i - 1)
           v == SubSeq(q, i + 1, Len(q))
<1>2. /\ u \in Seq(S) /\ Len(u) = i - 1
      /\ \A j \in 1 .. i - 1 : u[j] = q[j]
  <2>1. \A j \in 1 .. i - 1 : q[j] \in S
    BY <1>1
  <2>2. 1 \in Int /\ i - 1 \in Int
    BY <1>1
  <2>3. /\ u \in Seq(S)
        /\ Len(u) = IF 1 <= i - 1 THEN (i - 1) - 1 + 1 ELSE 0
        /\ \A j \in 1 .. (i - 1) - 1 + 1 : u[j] = q[1 + j - 1]
    BY <2>1, <2>2, SubSeqProperties
  <2> QED
    BY <2>3, <1>1
<1>3. /\ v \in Seq(S) /\ Len(v) = Len(q) - i
      /\ \A j \in 1 .. Len(q) - i : v[j] = q[i + j]
  <2>1. \A j \in i + 1 .. Len(q) : q[j] \in S
    BY <1>1
  <2>2. i + 1 \in Int /\ Len(q) \in Int
    BY <1>1
  <2>3. /\ v \in Seq(S)
        /\ Len(v) = IF i + 1 <= Len(q) THEN Len(q) - (i + 1) + 1 ELSE 0
        /\ \A j \in 1 .. Len(q) - (i + 1) + 1 : v[j] = q[(i + 1) + j - 1]
    BY <2>1, <2>2, SubSeqProperties
  <2> QED
    BY <2>3, <1>1
<1> HIDE DEF u, v
<1>4. /\ u \o v \in Seq(S)
      /\ Len(u \o v) = Len(u) + Len(v)
      /\ \A j \in 1 .. Len(u) + Len(v) :
           (u \o v)[j] = IF j <= Len(u) THEN u[j] ELSE v[j - Len(u)]
  BY <1>2, <1>3, ConcatProperties
<1>5. RemoveAt(q, i) = u \o v
  BY DEF RemoveAt, u, v
<1>6. Len(u) + Len(v) = Len(q) - 1
  BY <1>1, <1>2, <1>3
<1>7. ASSUME NEW j \in 1 .. Len(q) - 1
      PROVE  (u \o v)[j] = IF j < i THEN q[j] ELSE q[j + 1]
  <2>1. CASE j < i
    BY <2>1, <1>1, <1>2, <1>4, <1>6
  <2>2. CASE ~(j < i)
    <3>1. j - Len(u) \in 1 .. Len(q) - i /\ i + (j - Len(u)) = j + 1
      BY <2>2, <1>1, <1>2
    <3>2. (u \o v)[j] = v[j - Len(u)]
      BY <2>2, <1>1, <1>2, <1>4, <1>6
    <3> QED
      BY <3>1, <3>2, <2>2, <1>3
  <2> QED
    BY <2>1, <2>2
<1> QED
  BY <1>4, <1>5, <1>6, <1>7

(* remove takes the task out and changes nothing else.                     *)
LEMMA LinkedUnlink ==
  ASSUME NEW S, NEW q \in Seq(S), NEW t, Linked(q, t), Distinct(q)
  PROVE  /\ Unlink(q, t) \in Seq(S)
         /\ Distinct(Unlink(q, t))
         /\ \A u : Linked(Unlink(q, t), u) <=> Linked(q, u) /\ u # t
<1> DEFINE k == CHOOSE i \in DOMAIN q : q[i] = t
           r == RemoveAt(q, k)
<1>1. Len(q) \in Nat /\ DOMAIN q = 1 .. Len(q)
  BY LenProperties
<1>2. k \in 1 .. Len(q) /\ q[k] = t
  BY <1>1 DEF Linked
<1> HIDE DEF k
<1>3. /\ r \in Seq(S)
      /\ Len(r) = Len(q) - 1
      /\ \A j \in 1 .. Len(q) - 1 : r[j] = IF j < k THEN q[j] ELSE q[j + 1]
  BY <1>2, RemoveAtProperties
<1> HIDE DEF r
<1>4. DOMAIN r = 1 .. Len(q) - 1
  BY <1>3, LenProperties
<1>5. \A j, l \in 1 .. Len(q) : q[j] = q[l] => j = l
  BY <1>1 DEF Distinct
<1>6. Distinct(r)
  BY <1>1, <1>2, <1>3, <1>4, <1>5 DEF Distinct
<1>7. ASSUME NEW u
      PROVE  Linked(r, u) <=> Linked(q, u) /\ u # t
  <2>1. ASSUME NEW j \in 1 .. Len(q), q[j] = u, u # t
        PROVE  Linked(r, u)
    <3>1. CASE j < k
      BY <3>1, <2>1, <1>1, <1>2, <1>3, <1>4 DEF Linked
    <3>2. CASE j > k
      <4>1. j - 1 \in 1 .. Len(q) - 1 /\ ~(j - 1 < k) /\ (j - 1) + 1 = j
        BY <3>2, <1>1, <1>2
      <4> QED
        BY <4>1, <2>1, <1>3, <1>4 DEF Linked
    <3> QED
      BY <3>1, <3>2, <2>1, <1>1, <1>2
  <2>2. ASSUME NEW j \in 1 .. Len(q) - 1, r[j] = u
        PROVE  Linked(q, u) /\ u # t
    <3>1. PICK l \in 1 .. Len(q) : l # k /\ q[l] = u
      <4>1. CASE j < k
        BY <4>1, <2>2, <1>1, <1>2, <1>3
      <4>2. CASE ~(j < k)
        BY <4>2, <2>2, <1>1, <1>2, <1>3
      <4> QED
        BY <4>1, <4>2
    <3>2. u # t
      BY <3>1, <1>2, <1>5
    <3> QED
      BY <3>1, <3>2, <1>1 DEF Linked
  <2> QED
    BY <2>1, <2>2, <1>1, <1>4 DEF Linked
<1> QED
  BY <1>3, <1>6, <1>7 DEF Unlink, r, k
=============================================================================
