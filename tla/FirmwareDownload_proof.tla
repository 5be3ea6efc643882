----------------------- MODULE FirmwareDownload_proof -----------------------
(***************************************************************************)
(* Firmware updates, for any number of connections and parts and any       *)
(* length of signature and image: the safety properties of                 *)
(* FirmwareDownload.                                                       *)
(***************************************************************************)
EXTENDS FirmwareDownload, SequenceTheorems, TLAPS

-----------------------------------------------------------------------------
(* The inductive invariant.                                                *)

Texts == {"hello", "rejected", "in parallel", "failed", "finished"}

Stages == {"idle", "begun", "body", "part", "end"}
Kinds  == {"none", "other", "refused", "failed", "upload"}

ConType ==
  [requests : Nat, http : Stages, parts : Nat, taken : 0 .. BODY, kind : Kinds,
   ctx : {"none", "failed", "open", "ended"},
   signature : Seq(Nat), digest : Seq(Nat), signedWell : BOOLEAN,
   replies : Seq(Texts), closing : BOOLEAN, alone : BOOLEAN]

(* The first n units of a body.                                            *)
Units(n) == [i \in 1 .. n |-> i]

(* What OTAimp has put where, of the t units received.                     *)
Split(s, d, t) ==
  /\ s \o d = Units(t)
  /\ Len(s) <= SIGLEN
  /\ d # <<>> => Len(s) = SIGLEN

(* What a request has been told, by its kind and how far it is.            *)
Answers(kind, http, ctx, told) ==
  /\ kind = "none"    => told = 0
  /\ kind = "upload"  => /\ ctx \in {"open", "ended"}
                         /\ told = IF ctx = "open" THEN 0 ELSE 1
  /\ kind = "other"   => told = IF http = "end" THEN 1 ELSE 0
  /\ kind = "failed"  => ctx = "failed" /\ told = IF http = "end" THEN 2 ELSE 1
  /\ kind = "refused" => told = 1 \/ (http = "end" /\ ctx = "failed" /\ told = 2)

(* A connection: an upload is open until the end of its first part, or of  *)
(* the part that never was, with no answer yet; OTAimp is there while it   *)
(* is open only; and only an upload that has ended is told of success.     *)
ConInv(r) ==
  /\ r \in ConType
  /\ r.ctx = "open" => /\ r.kind = "upload" /\ r.http \in {"begun", "part"}
                       /\ Split(r.signature, r.digest, r.taken)
  /\ r.ctx # "open" => r.signature = <<>> /\ r.digest = <<>>
  /\ r.http # "part" => r.taken = 0
  /\ r.http = "end" => r.closing
  /\ r.kind = "none" <=> r.http = "idle"
  /\ Answers(r.kind, r.http, r.ctx, Len(r.replies))
  /\ ~(r.kind = "upload" /\ r.ctx = "ended") =>
       \A i \in 1 .. Len(r.replies) : r.replies[i] # "finished"

(* Each handle is of an upload that is open.                               *)
HandlesInv == handles = {c \in Conns : con[c].ctx = "open"}

(* While no other upload has been open the update partition holds the part *)
(* of the image received.                                                  *)
AloneInv ==
  \A c \in Conns : con[c].ctx = "open" /\ con[c].alone =>
    /\ handles = {c}
    /\ \A i \in 1 .. Len(con[c].digest) : i <= IMAGELEN => flash[i] = <<c, SIGLEN + i>>

IInv ==
  /\ con = [c \in Conns |-> con[c]]
  /\ \A c \in Conns : ConInv(con[c])
  /\ HandlesInv
  /\ flash = [i \in 1 .. IMAGELEN |-> flash[i]]
  /\ AloneInv

-----------------------------------------------------------------------------
(* Splitting a body.                                                       *)

(* q is d behind s.                                                        *)
Joined(q, s, d) ==
  /\ Len(q) = Len(s) + Len(d)
  /\ \A i \in 1 .. Len(q) : i <= Len(s) => q[i] = s[i]
  /\ \A i \in 1 .. Len(q) : i > Len(s) => q[i] = d[i - Len(s)]

(* Joining keeps both parts in place.                                      *)
LEMMA Join ==
  ASSUME NEW s \in Seq(Nat), NEW d \in Seq(Nat)
  PROVE  s \o d \in Seq(Nat) /\ Joined(s \o d, s, d)
<1> DEFINE q == s \o d
<1>1. /\ q \in Seq(Nat) /\ Len(q) = Len(s) + Len(d)
      /\ \A i \in 1 .. Len(s) + Len(d) : q[i] = IF i <= Len(s) THEN s[i] ELSE d[i - Len(s)]
  BY ConcatProperties
<1>2. Len(s) \in Nat /\ Len(d) \in Nat
  BY LenProperties
<1> HIDE DEF q
<1>3. \A i \in 1 .. Len(q) : i <= Len(s) => q[i] = s[i]
  BY <1>1
<1>4. \A i \in 1 .. Len(q) : i > Len(s) => ~(i <= Len(s)) /\ q[i] = d[i - Len(s)]
  BY <1>1, <1>2
<1>5. Joined(q, s, d)
  BY <1>1, <1>3, <1>4 DEF Joined
<1> QED
  BY <1>1, <1>5 DEF q

(* Signature and digest are split right just when each unit is where it    *)
(* belongs.                                                                *)
unit == [i \in Nat |-> i]

ByUnit(s, d, t) ==
  /\ Len(s) + Len(d) = t
  /\ \A i \in 1 .. Len(s) : s[i] = unit[i]
  /\ \A i \in 1 .. Len(d) : d[i] = unit[Len(s) + i]

(* A joined sequence counts from 1 just when its parts go on counting.     *)
LEMMA JoinedByUnit ==
  ASSUME NEW s, Len(s) \in Nat, NEW d, Len(d) \in Nat, NEW q, Joined(q, s, d), NEW t
  PROVE  Len(q) = t /\ (\A i \in 1 .. Len(q) : q[i] = unit[i]) <=> ByUnit(s, d, t)
<1>1. Len(q) = Len(s) + Len(d)
  BY DEF Joined
<1>2. ASSUME NEW i \in 1 .. Len(s)
      PROVE  \E k \in 1 .. Len(q) : k = i /\ q[k] = s[i]
  BY <1>1, <1>2 DEF Joined
<1>3. ASSUME NEW i \in 1 .. Len(d)
      PROVE  \E k \in 1 .. Len(q) : k = Len(s) + i /\ q[k] = d[i]
  <2>1. /\ Len(s) + i \in 1 .. Len(q) /\ Len(s) + i > Len(s)
        /\ (Len(s) + i) - Len(s) = i
    BY <1>1, <1>3
  <2> QED
    BY <2>1 DEF Joined
<1>4. ASSUME NEW k \in 1 .. Len(q)
      PROVE  \/ k \in 1 .. Len(s) /\ q[k] = s[k]
             \/ \E i \in 1 .. Len(d) : k = Len(s) + i /\ q[k] = d[i]
  <2>1. CASE k <= Len(s)
    BY <1>1, <1>4, <2>1 DEF Joined
  <2>2. CASE k > Len(s)
    <3>1. k - Len(s) \in 1 .. Len(d) /\ k = Len(s) + (k - Len(s))
      BY <1>1, <1>4, <2>2
    <3> QED
      BY <1>4, <2>2, <3>1 DEF Joined
  <2> QED
    BY <1>1, <1>4, <2>1, <2>2
<1> QED
  BY <1>1, <1>2, <1>3, <1>4, Zenon DEF ByUnit

(* Split, unit by unit.                                                    *)
LEMMA SplitByUnit ==
  ASSUME NEW s \in Seq(Nat), NEW d \in Seq(Nat), NEW t \in Nat
  PROVE  Split(s, d, t) <=> ByUnit(s, d, t) /\ Len(s) <= SIGLEN /\ (d # <<>> => Len(s) = SIGLEN)
<1> DEFINE q == s \o d
<1>1. q \in Seq(Nat) /\ Joined(q, s, d)
  BY Join
<1>2. Units(t) \in Seq(Nat) /\ Len(Units(t)) = t /\ \A i \in 1 .. t : Units(t)[i] = unit[i]
  BY DEF Units, unit
<1>3. Len(s) \in Nat /\ Len(d) \in Nat
  BY LenProperties
<1> HIDE DEF q
<1>4. q = Units(t) <=> Len(q) = t /\ \A i \in 1 .. Len(q) : q[i] = unit[i]
  <2>1. ASSUME Len(q) = t, \A i \in 1 .. Len(q) : q[i] = unit[i] PROVE q = Units(t)
    <3>1. \A i \in 1 .. Len(q) : q[i] = Units(t)[i]
      BY <1>2, <2>1
    <3> QED
      BY <1>1, <1>2, <2>1, <3>1, SeqEqual
  <2>2. ASSUME q = Units(t) PROVE Len(q) = t /\ \A i \in 1 .. Len(q) : q[i] = unit[i]
    BY <1>2, <2>2
  <2> QED
    BY <2>1, <2>2
<1>5. q = Units(t) <=> ByUnit(s, d, t)
  BY <1>1, <1>3, <1>4, JoinedByUnit
<1> QED
  BY <1>5, Zenon DEF Split, q

(* A fragment of n units, the first o in a and the others in b, goes on    *)
(* where the t units before it end.                                        *)
From(a, t, n) == Len(a) = n /\ \A i \in 1 .. n : a[i] = unit[t + i]

Behind(u, t, o) == u = t + o

(* Appending the parts of the fragment keeps every unit in its place.      *)
LEMMA UnitsGoOn ==
  ASSUME NEW s, NEW d, NEW a, NEW b, NEW s1, NEW d1, NEW t \in Nat, NEW o \in Nat,
         NEW u \in Nat, NEW m \in Nat,
         Len(s) \in Nat, Len(d) \in Nat, ByUnit(s, d, t),
         From(a, t, o), Len(d) > 0 => o = 0, From(b, u, m), Behind(u, t, o),
         Joined(s1, s, a), Joined(d1, d, b)
  PROVE  ByUnit(s1, d1, u + m) /\ Len(s1) = Len(s) + o /\ Len(d1) = Len(d) + m
<1>1. /\ Len(s) + Len(d) = t /\ Len(s1) = Len(s) + o /\ Len(d1) = Len(d) + m
      /\ u = t + o
  BY DEF ByUnit, Joined, From, Behind
<1>2. ASSUME NEW i \in 1 .. Len(s1) PROVE s1[i] = unit[i]
  <2>1. CASE i <= Len(s)
    <3>1. i \in 1 .. Len(s)
      BY <1>1, <1>2, <2>1
    <3> QED
      BY <1>2, <2>1, <3>1 DEF ByUnit, Joined
  <2>2. CASE i > Len(s)
    <3>1. i - Len(s) \in 1 .. o
      BY <1>1, <1>2, <2>2
    <3>2. s1[i] = a[i - Len(s)] /\ a[i - Len(s)] = unit[t + (i - Len(s))]
      BY <1>2, <2>2, <3>1 DEF Joined, From
    <3>3. t + (i - Len(s)) = i
      <4>1. Len(d) = 0
        BY <1>1, <3>1
      <4> QED
        BY <1>1, <1>2, <4>1
    <3> QED
      BY <3>2, <3>3
  <2> QED
    BY <1>1, <1>2, <2>1, <2>2
<1>3. ASSUME NEW i \in 1 .. Len(d1) PROVE d1[i] = unit[Len(s1) + i]
  <2>1. CASE i <= Len(d)
    <3>1. i \in 1 .. Len(d) /\ Len(s1) = Len(s)
      BY <1>1, <1>3, <2>1
    <3>2. d1[i] = d[i] /\ d[i] = unit[Len(s) + i]
      BY <1>3, <2>1, <3>1 DEF ByUnit, Joined
    <3> QED
      BY <3>1, <3>2
  <2>2. CASE i > Len(d)
    <3>1. i - Len(d) \in 1 .. m /\ u + (i - Len(d)) = Len(s1) + i
      BY <1>1, <1>3, <2>2
    <3>2. d1[i] = b[i - Len(d)] /\ b[i - Len(d)] = unit[u + (i - Len(d))]
      BY <1>3, <2>2, <3>1 DEF Joined, From
    <3> QED
      BY <3>1, <3>2
  <2> QED
    BY <1>1, <1>3, <2>1, <2>2
<1>4. Len(s1) + Len(d1) = u + m
  BY <1>1
<1> QED
  BY <1>1, <1>2, <1>3, <1>4 DEF ByUnit

(* Cutting a fragment gives two that count on.                             *)
LEMMA Cut ==
  ASSUME NEW f \in Seq(Nat), NEW n \in Nat, NEW t \in Nat, From(f, t, n), NEW o \in 0 .. n
  PROVE  /\ SubSeq(f, 1, o) \in Seq(Nat) /\ From(SubSeq(f, 1, o), t, o)
         /\ SubSeq(f, o + 1, n) \in Seq(Nat) /\ From(SubSeq(f, o + 1, n), t + o, n - o)
<1>1. o \in Nat /\ o <= n /\ o + 1 \in Int
      /\ \A i \in 1 .. n : f[i] \in Nat /\ f[i] = unit[t + i]
  BY ElementOfSeq DEF From
<1> DEFINE a == SubSeq(f, 1, o)
           b == SubSeq(f, o + 1, n)
<1>2. /\ a \in Seq(Nat) /\ Len(a) = IF 1 <= o THEN o - 1 + 1 ELSE 0
      /\ \A i \in 1 .. o - 1 + 1 : a[i] = f[1 + i - 1]
  <2>1. \A i \in 1 .. o : f[i] \in Nat
    BY <1>1
  <2> QED
    BY <1>1, <2>1, SubSeqProperties
<1>3. /\ b \in Seq(Nat) /\ Len(b) = IF o + 1 <= n THEN n - (o + 1) + 1 ELSE 0
      /\ \A i \in 1 .. n - (o + 1) + 1 : b[i] = f[o + 1 + i - 1]
  <2>1. \A i \in o + 1 .. n : f[i] \in Nat
    BY <1>1
  <2> QED
    BY <1>1, <2>1, SubSeqProperties
<1> HIDE DEF a, b
<1>4. ASSUME NEW i \in 1 .. o PROVE a[i] = unit[t + i]
  <2>1. i \in 1 .. o - 1 + 1 /\ 1 + i - 1 = i /\ i \in 1 .. n
    BY <1>1, <1>4
  <2> QED
    BY <1>1, <1>2, <2>1
<1>5. ASSUME NEW i \in 1 .. n - o PROVE b[i] = unit[t + o + i]
  <2>1. /\ i \in 1 .. n - (o + 1) + 1 /\ o + i \in 1 .. n
        /\ o + 1 + i - 1 = o + i /\ t + (o + i) = t + o + i
    BY <1>1, <1>5
  <2>2. b[i] = f[o + i] /\ f[o + i] = unit[t + (o + i)]
    BY <1>1, <1>3, <2>1
  <2> QED
    BY <2>1, <2>2
<1>6. Len(a) = o /\ Len(b) = n - o
  BY <1>1, <1>2, <1>3
<1>7. a \in Seq(Nat) /\ b \in Seq(Nat)
  BY <1>2, <1>3
<1>8. From(a, t, o) /\ From(b, t + o, n - o)
  BY <1>4, <1>5, <1>6 DEF From
<1> QED
  BY <1>7, <1>8 DEF a, b

Cuts(f, o, a, b) == a = SubSeq(f, 1, o) /\ b = SubSeq(f, o + 1, Len(f))

(* The same of Split: the step of addDataFlagment on sequences.            *)
LEMMA SplitGoesOn ==
  ASSUME NEW s \in Seq(Nat), NEW d \in Seq(Nat), NEW f \in Seq(Nat), NEW a, NEW b,
         NEW t \in Nat, NEW n \in Nat, NEW o \in 0 .. n,
         Split(s, d, t), From(f, t, n), Cuts(f, o, a, b),
         Len(s) + o <= SIGLEN, o < n => Len(s) + o = SIGLEN
  PROVE  s \o a \in Seq(Nat) /\ d \o b \in Seq(Nat) /\ Split(s \o a, d \o b, t + n)
<1>1. SIGLEN \in Nat /\ Len(s) \in Nat /\ Len(d) \in Nat
  BY DownloadAssumption, LenProperties
<1>2. /\ ByUnit(s, d, t) /\ Len(s) <= SIGLEN
      /\ Len(d) > 0 => Len(s) = SIGLEN
  <2>1. Len(d) > 0 => d # <<>>
    OBVIOUS
  <2> QED
    BY <2>1, SplitByUnit
<1>3. Len(d) > 0 => o = 0
  BY <1>1, <1>2
<1> DEFINE s1 == s \o a
           d1 == d \o b
<1>4. a \in Seq(Nat) /\ From(a, t, o) /\ b \in Seq(Nat) /\ From(b, t + o, n - o)
  <2>1. a = SubSeq(f, 1, o) /\ b = SubSeq(f, o + 1, n)
    BY DEF Cuts, From
  <2> QED
    BY <2>1, Cut
<1>5. s1 \in Seq(Nat) /\ Joined(s1, s, a)
  BY <1>4, Join
<1>6. d1 \in Seq(Nat) /\ Joined(d1, d, b)
  BY <1>4, Join
<1> HIDE DEF s1, d1
<1>7. ByUnit(s1, d1, t + n) /\ Len(s1) = Len(s) + o /\ Len(d1) = Len(d) + (n - o)
  <2> DEFINE u == t + o
             m == n - o
  <2>1. u \in Nat /\ m \in Nat /\ o \in Nat /\ u + m = t + n /\ Behind(u, t, o)
    BY DEF Behind
  <2> HIDE DEF u, m
  <2>2. ByUnit(s1, d1, u + m) /\ Len(s1) = Len(s) + o /\ Len(d1) = Len(d) + m
    <3>1. From(b, u, m)
      BY <1>4 DEF u, m
    <3> QED
      BY <1>1, <1>2, <1>3, <1>4, <1>5, <1>6, <2>1, <3>1, UnitsGoOn
  <2> QED
    BY <2>1, <2>2 DEF m
<1>8. Len(s1) <= SIGLEN /\ (d1 # <<>> => Len(s1) = SIGLEN)
  <2>1. d1 # <<>> => Len(d1) > 0
    BY <1>6
  <2> QED
    BY <1>1, <1>2, <1>3, <1>7, <2>1
<1>9. Split(s1, d1, t + n)
  <2>1. t + n \in Nat
    OBVIOUS
  <2> QED
    BY <1>5, <1>6, <1>7, <1>8, <2>1, SplitByUnit
<1> QED
  BY <1>5, <1>6, <1>9 DEF s1, d1

(* addDataFlagment puts each unit where it belongs.                        *)
LEMMA FragmentSplit ==
  ASSUME NEW c \in Conns, con[c] \in ConType,
         Split(con[c].signature, con[c].digest, con[c].taken),
         NEW n \in 1 .. BODY - con[c].taken
  PROVE  /\ ToSignature(c, Fragment(c, n)) \in Seq(Nat)
         /\ ToDigest(c, Fragment(c, n)) \in Seq(Nat)
         /\ Split(ToSignature(c, Fragment(c, n)), ToDigest(c, Fragment(c, n)), con[c].taken + n)
<1>1. /\ con[c].signature \in Seq(Nat) /\ con[c].digest \in Seq(Nat)
      /\ con[c].taken \in Nat /\ n \in Nat
  BY DownloadAssumption DEF ConType, BODY
<1>2. /\ Fragment(c, n) \in Seq(Nat) /\ Len(Fragment(c, n)) = n
  BY <1>1 DEF Fragment
<1>3. From(Fragment(c, n), con[c].taken, n)
  BY <1>1, <1>2 DEF Fragment, unit, From
<1> DEFINE o == Offset(c, Fragment(c, n))
           a == SubSeq(Fragment(c, n), 1, o)
           b == SubSeq(Fragment(c, n), o + 1, n)
<1>4. /\ ToSignature(c, Fragment(c, n)) = con[c].signature \o a
      /\ ToDigest(c, Fragment(c, n)) = con[c].digest \o b
  BY <1>2, Zenon DEF ToSignature, ToDigest
<1>5. /\ o \in 0 .. n /\ Len(con[c].signature) + o <= SIGLEN
      /\ o < n => Len(con[c].signature) + o = SIGLEN
  <2>1. PICK l \in Nat : l = Len(con[c].signature) /\ l <= SIGLEN
    BY <1>1, LenProperties DEF Split
  <2>2. o = IF SIGLEN - l > n THEN n ELSE SIGLEN - l
    BY <1>2, <2>1, Zenon DEF Offset
  <2> HIDE DEF o
  <2>3. n \in Nat /\ SIGLEN \in Nat
    BY <1>1, DownloadAssumption
  <2>4. o \in 0 .. n /\ l + o <= SIGLEN /\ (o < n => l + o = SIGLEN)
    <3>1. CASE SIGLEN - l > n
      <4>1. o = n
        BY <2>2, <3>1
      <4> QED
        BY <2>1, <2>3, <3>1, <4>1
    <3>2. CASE ~(SIGLEN - l > n)
      <4>1. o = SIGLEN - l
        BY <2>2, <3>2
      <4> QED
        BY <2>1, <2>3, <3>2, <4>1
    <3> QED
      BY <3>1, <3>2
  <2> QED
    BY <2>1, <2>4
<1> HIDE DEF o
<1>6. Cuts(Fragment(c, n), o, a, b)
  BY <1>2 DEF Cuts
<1> HIDE DEF a, b
<1>7. /\ con[c].signature \o a \in Seq(Nat) /\ con[c].digest \o b \in Seq(Nat)
      /\ Split(con[c].signature \o a, con[c].digest \o b, con[c].taken + n)
  BY <1>1, <1>2, <1>3, <1>5, <1>6, SplitGoesOn
<1> QED
  BY <1>4, <1>7

-----------------------------------------------------------------------------
(* Connections.                                                            *)

(* A step of c that opens or ends no upload, and puts no data into one.    *)
LEMMA Kept ==
  ASSUME IInv, NEW c \in Conns, NEW r, con' = [con EXCEPT ![c] = r], ConInv(r),
         r.ctx = "open" <=> con[c].ctx = "open",
         r.digest = con[c].digest, r.alone = con[c].alone,
         UNCHANGED <<handles, flash>>
  PROVE  IInv'
<1>1. con' = [d \in Conns |-> con'[d]] /\ con'[c] = r
      /\ \A d \in Conns : d # c => con'[d] = con[d]
  BY DEF IInv
<1>2. \A d \in Conns : ConInv(con'[d])
  BY <1>1 DEF IInv
<1>3. \A d \in Conns : /\ con'[d].ctx = "open" <=> con[d].ctx = "open"
                       /\ con'[d].digest = con[d].digest /\ con'[d].alone = con[d].alone
  BY <1>1
<1>4. HandlesInv'
  BY <1>3 DEF IInv, HandlesInv
<1>5. AloneInv'
  BY <1>3 DEF IInv, AloneInv
<1> QED
  BY <1>1, <1>2, <1>4, <1>5 DEF IInv

(* A step of c that ends its upload.                                       *)
LEMMA Ended ==
  ASSUME IInv, NEW c \in Conns, NEW r, con' = [con EXCEPT ![c] = r], ConInv(r),
         con[c].ctx = "open", r.ctx # "open", EndOTA(c), UNCHANGED flash
  PROVE  IInv'
<1>1. con' = [d \in Conns |-> con'[d]] /\ con'[c] = r
      /\ \A d \in Conns : d # c => con'[d] = con[d]
  BY DEF IInv
<1>2. \A d \in Conns : ConInv(con'[d])
  BY <1>1 DEF IInv
<1>3. HandlesInv'
  BY <1>1 DEF IInv, HandlesInv, EndOTA
<1>4. AloneInv'
  <2>1. SUFFICES ASSUME NEW d \in Conns, con'[d].ctx = "open", con'[d].alone PROVE FALSE
    BY DEF AloneInv
  <2>2. d # c /\ con'[d] = con[d]
    BY <1>1, <2>1
  <2>3. handles = {d}
    BY <2>1, <2>2 DEF IInv, AloneInv
  <2>4. c \in handles
    BY DEF IInv, HandlesInv
  <2> QED
    BY <2>2, <2>3, <2>4
<1> QED
  BY <1>1, <1>2, <1>3, <1>4 DEF IInv

(* What a request has been told, with one text more.                       *)
LEMMA OneTextMore ==
  ASSUME NEW s \in Seq(Texts), NEW text \in Texts
  PROVE  /\ Append(s, text) \in Seq(Texts)
         /\ Len(Append(s, text)) = Len(s) + 1 /\ Len(s) \in Nat
         /\ (\A i \in 1 .. Len(s) : s[i] # "finished") /\ text # "finished" =>
              \A i \in 1 .. Len(Append(s, text)) : Append(s, text)[i] # "finished"
<1> DEFINE a == Append(s, text)
<1>1. /\ a \in Seq(Texts) /\ Len(a) = Len(s) + 1 /\ Len(s) \in Nat
      /\ \A i \in 1 .. Len(s) : a[i] = s[i]
      /\ a[Len(s) + 1] = text
  BY AppendProperties, LenProperties
<1> HIDE DEF a
<1>2. \A i \in 1 .. Len(a) : i \in 1 .. Len(s) \/ i = Len(s) + 1
  BY <1>1
<1>3. (\A i \in 1 .. Len(s) : s[i] # "finished") /\ text # "finished" =>
        \A i \in 1 .. Len(a) : a[i] # "finished"
  BY <1>1, <1>2
<1> QED
  BY <1>1, <1>3 DEF a

(* A connection before any request.                                        *)
LEMMA FreshConnection == ConInv(Fresh)
<1>1. 0 \in 0 .. BODY /\ <<>> \in Seq(Nat) /\ <<>> \in Seq(Texts)
  BY DownloadAssumption DEF BODY
<1>2. Len(<<>>) = 0
  OBVIOUS
<1>3. Fresh \in ConType
  BY <1>1 DEF Fresh, ConType, Stages, Kinds
<1> QED
  BY <1>2, <1>3 DEF ConInv, Fresh, Answers

(* q has the upload of r as it is.                                         *)
SameUpload(q, r) ==
  /\ q.ctx = r.ctx /\ q.signature = r.signature /\ q.digest = r.digest
  /\ q.alone = r.alone

(* The changes of a connection, field by field.                            *)
LEMMA AskedFields ==
  ASSUME NEW c \in Conns, con[c] \in ConType, NEW kind \in Kinds, NEW http \in Stages
  PROVE  /\ Asked(c, kind, http) \in ConType /\ SameUpload(Asked(c, kind, http), con[c])
         /\ Asked(c, kind, http).http = http /\ Asked(c, kind, http).kind = kind
         /\ Asked(c, kind, http).replies = <<>>
         /\ Asked(c, kind, http).taken = con[c].taken
<1>1. con[c].requests + 1 \in Nat /\ <<>> \in Seq(Texts)
  BY DEF ConType
<1> QED
  BY <1>1, Zenon DEF Asked, ConType, SameUpload

(* The same of a text more.                                                *)
LEMMA ToldFields ==
  ASSUME NEW r \in ConType, NEW text \in Texts
  PROVE  /\ Told(r, text) \in ConType /\ SameUpload(Told(r, text), r)
         /\ Told(r, text).http = r.http /\ Told(r, text).kind = r.kind
         /\ Told(r, text).taken = r.taken /\ Told(r, text).closing
         /\ Told(r, text).replies = Append(r.replies, text)
         /\ Len(Told(r, text).replies) = Len(r.replies) + 1 /\ Len(r.replies) \in Nat
         /\ (\A i \in 1 .. Len(r.replies) : r.replies[i] # "finished") /\ text # "finished" =>
              \A i \in 1 .. Len(Told(r, text).replies) : Told(r, text).replies[i] # "finished"
<1>1. r.replies \in Seq(Texts)
  BY DEF ConType
<1> DEFINE a == Append(r.replies, text)
<1>2. /\ a \in Seq(Texts) /\ Len(a) = Len(r.replies) + 1 /\ Len(r.replies) \in Nat
      /\ (\A i \in 1 .. Len(r.replies) : r.replies[i] # "finished") /\ text # "finished" =>
           \A i \in 1 .. Len(a) : a[i] # "finished"
  BY <1>1, OneTextMore
<1>3. Told(r, text) = [r EXCEPT !.replies = a, !.closing = TRUE]
  BY DEF Told
<1> HIDE DEF a
<1>4. /\ Told(r, text) \in ConType /\ SameUpload(Told(r, text), r)
      /\ Told(r, text).http = r.http /\ Told(r, text).kind = r.kind
      /\ Told(r, text).taken = r.taken /\ Told(r, text).closing
      /\ Told(r, text).replies = a
  BY <1>2, <1>3, Zenon DEF ConType, SameUpload
<1> QED
  BY <1>2, <1>4 DEF a

(* The first text on a request.                                            *)
LEMMA FirstTold ==
  ASSUME NEW r \in ConType, Len(r.replies) = 0, NEW text \in Texts
  PROVE  /\ Told(r, text) \in ConType /\ SameUpload(Told(r, text), r)
         /\ Told(r, text).http = r.http /\ Told(r, text).kind = r.kind
         /\ Told(r, text).taken = r.taken /\ Told(r, text).closing
         /\ Len(Told(r, text).replies) = 1
         /\ text # "finished" =>
              \A i \in 1 .. Len(Told(r, text).replies) : Told(r, text).replies[i] # "finished"
<1> DEFINE t == Told(r, text)
<1>1. /\ t \in ConType /\ SameUpload(t, r)
      /\ t.http = r.http /\ t.kind = r.kind /\ t.taken = r.taken /\ t.closing
      /\ Len(t.replies) = Len(r.replies) + 1
      /\ (\A i \in 1 .. Len(r.replies) : r.replies[i] # "finished") /\ text # "finished" =>
              \A i \in 1 .. Len(t.replies) : t.replies[i] # "finished"
  BY ToldFields
<1> HIDE DEF t
<1>2. Len(t.replies) = 1
  BY <1>1
<1>3. \A i \in 1 .. Len(r.replies) : r.replies[i] # "finished"
  OBVIOUS
<1> QED
  BY <1>1, <1>2, <1>3, Zenon DEF t

(* The same of the end of a part ...                                       *)
LEMMA PartOverFields ==
  ASSUME NEW r \in ConType
  PROVE  /\ PartOver(r) \in ConType /\ SameUpload(PartOver(r), r)
         /\ PartOver(r).http = "body" /\ PartOver(r).kind = r.kind
         /\ PartOver(r).taken = 0 /\ PartOver(r).replies = r.replies
<1>1. 0 \in 0 .. BODY /\ "body" \in Stages
  BY DownloadAssumption DEF BODY, Stages
<1> QED
  BY <1>1, Zenon DEF PartOver, ConType, SameUpload

(* ... and of a request.                                                   *)
LEMMA RequestOverFields ==
  ASSUME NEW r \in ConType
  PROVE  /\ RequestOver(r) \in ConType /\ SameUpload(RequestOver(r), r)
         /\ RequestOver(r).http = "end" /\ RequestOver(r).kind = r.kind
         /\ RequestOver(r).taken = r.taken /\ RequestOver(r).replies = r.replies
         /\ RequestOver(r).closing
<1>1. 0 \in Nat /\ "end" \in Stages
  BY DEF Stages
<1> QED
  BY <1>1, Zenon DEF RequestOver, ConType, SameUpload

-----------------------------------------------------------------------------
(* The steps of a connection.                                              *)

(* A request that may begin finds no upload open.                          *)
LEMMA Asking ==
  ASSUME IInv, NEW c \in Conns, MayAsk(c), NEW kind \in Kinds, NEW http \in Stages
  PROVE  /\ con[c] \in ConType /\ con[c].ctx # "open"
         /\ con[c].signature = <<>> /\ con[c].digest = <<>>
         /\ Asked(c, kind, http) \in ConType /\ SameUpload(Asked(c, kind, http), con[c])
         /\ Asked(c, kind, http).http = http /\ Asked(c, kind, http).kind = kind
         /\ Asked(c, kind, http).replies = <<>> /\ Asked(c, kind, http).taken = 0
<1>1. con[c] \in ConType /\ con[c].ctx # "open" /\ con[c].taken = 0
      /\ con[c].signature = <<>> /\ con[c].digest = <<>>
  BY DEF MayAsk, IInv, ConInv
<1> QED
  BY <1>1, AskedFields

(* A request that begins with an answer and without a new DLContext.       *)
LEMMA AnsweredAtOnce ==
  ASSUME IInv, NEW c \in Conns, MayAsk(c), NEW kind \in {"other", "refused"},
         NEW http \in {"begun", "end"}, kind = "other" => http = "end",
         NEW text \in Texts \ {"finished"},
         con' = [con EXCEPT ![c] = Told(Asked(c, kind, http), text)],
         UNCHANGED <<handles, flash>>
  PROVE  IInv'
<1> DEFINE a == Asked(c, kind, http)
           r == Told(a, text)
<1>1. kind \in Kinds /\ http \in Stages /\ text \in Texts
  BY DEF Kinds, Stages
<1>2. /\ con[c].ctx # "open" /\ con[c].signature = <<>> /\ con[c].digest = <<>>
      /\ a \in ConType /\ SameUpload(a, con[c])
      /\ a.http = http /\ a.kind = kind /\ a.replies = <<>> /\ a.taken = 0
  BY <1>1, Asking
<1> HIDE DEF a
<1>3. /\ r \in ConType /\ SameUpload(r, a) /\ r.http = http /\ r.kind = kind
      /\ r.taken = 0 /\ r.closing /\ Len(r.replies) = 1
      /\ \A i \in 1 .. Len(r.replies) : r.replies[i] # "finished"
  <2>1. Len(a.replies) = 0 /\ text # "finished"
    BY <1>2
  <2> QED
    BY <1>1, <1>2, <2>1, FirstTold
<1> HIDE DEF r
<1>4. ConInv(r)
  <2>1. Answers(r.kind, r.http, r.ctx, Len(r.replies))
    BY <1>3 DEF Answers
  <2> QED
    BY <1>2, <1>3, <2>1 DEF ConInv, SameUpload
<1> QED
  BY <1>2, <1>3, <1>4, Kept DEF SameUpload, r, a

(* The end of a request that was told something before, or now.            *)
LEMMA EndOfRequest ==
  ASSUME IInv, NEW c \in Conns, con[c].http = "body", NEW r \in ConType,
         SameUpload(r, con[c]), r.kind = con[c].kind, r.taken = con[c].taken,
         Answers(r.kind, "end", r.ctx, Len(r.replies)),
         ~(r.kind = "upload" /\ r.ctx = "ended") =>
           \A i \in 1 .. Len(r.replies) : r.replies[i] # "finished",
         con' = [con EXCEPT ![c] = RequestOver(r)], UNCHANGED <<handles, flash>>
  PROVE  IInv'
<1>1. con[c] \in ConType /\ con[c].ctx # "open" /\ con[c].taken = 0
      /\ con[c].signature = <<>> /\ con[c].digest = <<>> /\ con[c].kind # "none"
  BY DEF IInv, ConInv
<1> DEFINE q == RequestOver(r)
<1>2. /\ q \in ConType /\ SameUpload(q, r) /\ q.http = "end" /\ q.kind = r.kind
      /\ q.taken = r.taken /\ q.replies = r.replies /\ q.closing
  BY RequestOverFields
<1> HIDE DEF q
<1>3. ConInv(q)
  BY <1>1, <1>2 DEF ConInv, SameUpload
<1> QED
  BY <1>1, <1>2, <1>3, Kept DEF SameUpload, q

(* Those that tell something without an upload that is open.               *)
LEMMA TellingStep ==
  ASSUME IInv, NEW c \in Conns,
         \/ OtherRequest(c) \/ OtherMultipart(c) \/ OtherMultipartEnd(c)
         \/ InvalidRequest(c) \/ Reject(c) \/ StartFails(c) \/ NoImagePart(c)
  PROVE  IInv'
<1>1. CASE OtherRequest(c) \/ InvalidRequest(c) \/ Reject(c)
  BY <1>1, AnsweredAtOnce DEF OtherRequest, InvalidRequest, Reject, Texts
<1>2. CASE OtherMultipart(c)
  <2> DEFINE r == Asked(c, "other", "begun")
  <2>1. con' = [con EXCEPT ![c] = r] /\ UNCHANGED <<handles, flash>> /\ MayAsk(c)
    BY <1>2 DEF OtherMultipart
  <2>2. /\ con[c].ctx # "open" /\ con[c].signature = <<>> /\ con[c].digest = <<>>
        /\ r \in ConType /\ SameUpload(r, con[c])
        /\ r.http = "begun" /\ r.kind = "other" /\ r.replies = <<>> /\ r.taken = 0
    BY <2>1, Asking DEF Kinds, Stages
  <2> HIDE DEF r
  <2>3. ConInv(r)
    BY <2>2 DEF ConInv, SameUpload, Answers
  <2> QED
    BY <2>1, <2>2, <2>3, Kept DEF SameUpload
<1>3. CASE StartFails(c)
  <2> DEFINE a == Asked(c, "failed", "begun")
             t == Told(a, "in parallel")
             r == [t EXCEPT !.ctx = "failed"]
  <2>1. con' = [con EXCEPT ![c] = r] /\ UNCHANGED <<handles, flash>> /\ MayAsk(c)
    BY <1>3 DEF StartFails
  <2>2. /\ con[c].ctx # "open" /\ con[c].signature = <<>> /\ con[c].digest = <<>>
        /\ a \in ConType /\ SameUpload(a, con[c])
        /\ a.http = "begun" /\ a.kind = "failed" /\ a.replies = <<>> /\ a.taken = 0
    <3>1. "failed" \in Kinds /\ "begun" \in Stages /\ MayAsk(c)
      BY <2>1 DEF Kinds, Stages
    <3> QED
      BY <3>1, Asking
  <2> HIDE DEF a
  <2>3. /\ t \in ConType /\ SameUpload(t, a) /\ t.http = "begun" /\ t.kind = "failed"
        /\ t.taken = 0 /\ Len(t.replies) = 1
        /\ \A i \in 1 .. Len(t.replies) : t.replies[i] # "finished"
    <3>1. Len(a.replies) = 0 /\ "in parallel" \in Texts
      BY <2>2 DEF Texts
    <3> QED
      BY <2>2, <3>1, FirstTold
  <2> HIDE DEF t
  <2>4. /\ r \in ConType /\ r.ctx = "failed" /\ r.http = t.http /\ r.kind = t.kind
        /\ r.taken = t.taken /\ r.replies = t.replies /\ r.signature = t.signature
        /\ r.digest = t.digest /\ r.alone = t.alone
    BY <2>3, Zenon DEF ConType
  <2> HIDE DEF r
  <2>5. ConInv(r)
    BY <2>2, <2>3, <2>4 DEF ConInv, SameUpload, Answers
  <2> QED
    BY <2>1, <2>2, <2>3, <2>4, <2>5, Kept DEF SameUpload
<1>4. ASSUME con[c].http = "body", con[c].ctx # "open", NEW text \in {"hello", "rejected"},
             con[c].kind = "other" \/ (con[c].kind # "other" /\ con[c].ctx = "failed"),
             con' = [con EXCEPT ![c] = RequestOver(Told(con[c], text))],
             UNCHANGED <<handles, flash>>
      PROVE  IInv'
  <2> DEFINE t == Told(con[c], text)
  <2>1. con[c] \in ConType /\ text \in Texts /\ text # "finished"
    BY DEF IInv, ConInv, Texts
  <2>2. ConInv(con[c])
    BY DEF IInv
  <2>3. /\ t \in ConType /\ SameUpload(t, con[c]) /\ t.kind = con[c].kind
        /\ t.taken = con[c].taken
        /\ Len(t.replies) = Len(con[c].replies) + 1 /\ Len(con[c].replies) \in Nat
        /\ (\A i \in 1 .. Len(con[c].replies) : con[c].replies[i] # "finished") =>
             \A i \in 1 .. Len(t.replies) : t.replies[i] # "finished"
    BY <2>1, ToldFields
  <2> HIDE DEF t
  <2>4. Answers(t.kind, "end", t.ctx, Len(t.replies))
    <3>1. Answers(con[c].kind, "body", con[c].ctx, Len(con[c].replies))
      BY <1>4, <2>2 DEF ConInv
    <3>2. con[c].kind # "none"
      BY <1>4, <2>2 DEF ConInv
    <3>3. t.kind = con[c].kind /\ t.ctx = con[c].ctx
      BY <2>3 DEF SameUpload
    <3>4. PICK n \in Nat : n = Len(con[c].replies)
      BY <2>3
    <3>5. Len(t.replies) = n + 1
      BY <2>3, <3>4
    <3>6. Answers(con[c].kind, "body", con[c].ctx, n)
      BY <3>1, <3>4
    <3>7. Answers(con[c].kind, "end", con[c].ctx, n + 1)
      <4>1. CASE con[c].kind = "other"
        <5>1. n = 0
          BY <3>6, <4>1 DEF Answers
        <5> QED
          BY <4>1, <5>1 DEF Answers
      <4>2. CASE con[c].kind # "other" /\ con[c].ctx = "failed"
        <5>1. n = 1 /\ con[c].kind \in {"failed", "refused"}
          BY <2>1, <3>2, <3>6, <4>2 DEF Answers, ConType, Kinds
        <5> QED
          BY <4>2, <5>1 DEF Answers
      <4> QED
        BY <1>4, <4>1, <4>2
    <3> QED
      BY <3>3, <3>5, <3>7
  <2>5. ~(t.kind = "upload" /\ t.ctx = "ended") =>
          \A i \in 1 .. Len(t.replies) : t.replies[i] # "finished"
    BY <2>2, <2>3 DEF ConInv, SameUpload
  <2> QED
    BY <1>4, <2>3, <2>4, <2>5, EndOfRequest DEF t
<1>5. con[c].http = "body" => con[c].ctx # "open"
  BY DEF IInv, ConInv
<1>6. CASE OtherMultipartEnd(c)
  BY <1>4, <1>5, <1>6 DEF OtherMultipartEnd
<1>7. CASE NoImagePart(c)
  BY <1>4, <1>5, <1>7 DEF NoImagePart
<1> QED
  BY <1>1, <1>2, <1>3, <1>6, <1>7

(* Those that tell nothing, with or without an upload.                     *)
LEMMA QuietStep ==
  ASSUME IInv, NEW c \in Conns,
         PartBegin(c) \/ PartEndIgnored(c) \/ RequestEnd(c) \/ IgnoreData(c)
  PROVE  IInv'
<1>1. con[c] \in ConType /\ ConInv(con[c]) /\ con[c].parts \in Nat
      /\ 0 \in 0 .. BODY /\ BODY \in 0 .. BODY
  BY DownloadAssumption DEF IInv, ConInv, ConType, BODY
<1>2. CASE PartBegin(c)
  <2> DEFINE r == [con[c] EXCEPT !.http = "part", !.parts = @ + 1]
  <2>1. con' = [con EXCEPT ![c] = r] /\ UNCHANGED <<handles, flash>>
        /\ con[c].http \in {"begun", "body"}
    BY <1>2 DEF PartBegin
  <2>2. con[c].parts + 1 \in Nat /\ "part" \in Stages
    BY <1>1 DEF Stages
  <2>3. /\ r \in ConType /\ SameUpload(r, con[c]) /\ r.http = "part" /\ r.kind = con[c].kind
        /\ r.taken = con[c].taken /\ r.replies = con[c].replies
    BY <1>1, <2>2, Zenon DEF ConType, SameUpload
  <2> HIDE DEF r
  <2>4. ConInv(r)
    BY <1>1, <2>1, <2>3 DEF ConInv, SameUpload, Answers
  <2> QED
    BY <2>1, <2>3, <2>4, Kept DEF SameUpload
<1>3. CASE PartEndIgnored(c)
  <2> DEFINE r == PartOver(con[c])
  <2>1. con' = [con EXCEPT ![c] = r] /\ UNCHANGED <<handles, flash>> /\ con[c].ctx # "open"
        /\ con[c].http \in {"begun", "part"}
    BY <1>3 DEF PartEndIgnored, PartEnds
  <2>2. /\ r \in ConType /\ SameUpload(r, con[c]) /\ r.http = "body" /\ r.kind = con[c].kind
        /\ r.taken = 0 /\ r.replies = con[c].replies
    BY <1>1, PartOverFields
  <2> HIDE DEF r
  <2>3. ConInv(r)
    BY <1>1, <2>1, <2>2 DEF ConInv, SameUpload, Answers
  <2> QED
    BY <2>1, <2>2, <2>3, Kept DEF SameUpload
<1>4. CASE RequestEnd(c)
  <2>1. /\ con' = [con EXCEPT ![c] = RequestOver(con[c])] /\ UNCHANGED <<handles, flash>>
        /\ con[c].http = "body" /\ con[c].kind # "other" /\ con[c].ctx # "failed"
    BY <1>4 DEF RequestEnd
  <2>2. Answers(con[c].kind, "end", con[c].ctx, Len(con[c].replies))
    BY <1>1, <2>1 DEF ConInv, Answers
  <2> QED
    BY <1>1, <2>1, <2>2, EndOfRequest DEF ConInv, SameUpload
<1>5. CASE IgnoreData(c)
  <2> DEFINE r == [con[c] EXCEPT !.taken = BODY]
  <2>1. con' = [con EXCEPT ![c] = r] /\ UNCHANGED <<handles, flash>>
        /\ con[c].http = "part" /\ con[c].ctx # "open"
    BY <1>5 DEF IgnoreData
  <2>2. /\ r \in ConType /\ SameUpload(r, con[c]) /\ r.http = con[c].http
        /\ r.kind = con[c].kind /\ r.replies = con[c].replies
    BY <1>1, Zenon DEF ConType, SameUpload
  <2> HIDE DEF r
  <2>3. ConInv(r)
    BY <1>1, <2>1, <2>2 DEF ConInv, SameUpload
  <2> QED
    BY <2>1, <2>2, <2>3, Kept DEF SameUpload
<1> QED
  BY <1>2, <1>3, <1>4, <1>5

(* An update that is over: nothing is left of the upload.                  *)
LEMMA DeletedFields ==
  ASSUME IInv, NEW c \in Conns, con[c].ctx = "open"
  PROVE  /\ Deleted(c) \in ConType /\ con[c] \in ConType
         /\ con[c].kind = "upload" /\ Len(con[c].replies) = 0
         /\ Deleted(c).ctx = "ended" /\ Deleted(c).kind = "upload"
         /\ Deleted(c).http = con[c].http /\ Deleted(c).taken = con[c].taken
         /\ Deleted(c).replies = con[c].replies
         /\ Deleted(c).signature = <<>> /\ Deleted(c).digest = <<>>
<1>1. con[c] \in ConType /\ con[c].kind = "upload" /\ Len(con[c].replies) = 0
  BY DEF IInv, ConInv, Answers
<1>2. <<>> \in Seq(Nat)
  OBVIOUS
<1> QED
  BY <1>1, <1>2, Zenon DEF ConType, Deleted

(* A part that ends an upload, told text.                                  *)
LEMMA PartEndsUpload ==
  ASSUME IInv, NEW c \in Conns, con[c].ctx = "open", NEW text \in {"finished", "failed"},
         con' = [con EXCEPT ![c] = PartOver(Told(Deleted(c), text))],
         EndOTA(c), UNCHANGED flash
  PROVE  IInv'
<1> DEFINE o == Deleted(c)
           t == Told(o, text)
           r == PartOver(t)
<1>1. /\ o \in ConType /\ Len(o.replies) = 0 /\ o.ctx = "ended" /\ o.kind = "upload"
      /\ o.signature = <<>> /\ o.digest = <<>>
  BY DeletedFields
<1> HIDE DEF o
<1>2. /\ t \in ConType /\ SameUpload(t, o) /\ t.kind = "upload" /\ Len(t.replies) = 1
  <2>1. text \in Texts
    BY DEF Texts
  <2> QED
    BY <1>1, <2>1, FirstTold
<1> HIDE DEF t
<1>3. /\ r \in ConType /\ SameUpload(r, t) /\ r.http = "body" /\ r.kind = "upload"
      /\ r.taken = 0 /\ Len(r.replies) = 1
  BY <1>2, PartOverFields
<1> HIDE DEF r
<1>4. ConInv(r) /\ r.ctx = "ended"
  BY <1>1, <1>2, <1>3 DEF ConInv, SameUpload, Answers
<1> QED
  BY <1>4, Ended DEF r, t, o

(* The end of an update: committed, refused, or a write failed.            *)
LEMMA EndingStep ==
  ASSUME IInv, NEW c \in Conns,
         \/ Commit(c) \/ CommitFails(c)
         \/ \E n \in 1 .. BODY : WriteFails(c, n)
  PROVE  IInv'
<1>1. CASE Commit(c) \/ CommitFails(c)
  BY <1>1, PartEndsUpload DEF Commit, CommitFails
<1>2. ASSUME NEW n \in 1 .. BODY, WriteFails(c, n) PROVE IInv'
  <2> DEFINE o == Deleted(c)
             a == Append(o.replies, "failed")
             t == o.taken + n
             r == [o EXCEPT !.taken = t, !.replies = a]
  <2>1. /\ con' = [con EXCEPT ![c] = r] /\ con[c].ctx = "open" /\ EndOTA(c) /\ UNCHANGED flash
        /\ con[c].http = "part" /\ n \in 1 .. BODY - con[c].taken
    BY <1>2 DEF WriteFails, Arrives
  <2>2. /\ o \in ConType /\ Len(o.replies) = 0 /\ o.ctx = "ended" /\ o.kind = "upload"
        /\ o.http = "part" /\ o.taken = con[c].taken
        /\ o.signature = <<>> /\ o.digest = <<>>
    BY <2>1, DeletedFields
  <2> HIDE DEF o
  <2>3. t \in 0 .. BODY
    <3>1. o.taken \in 0 .. BODY /\ BODY \in Nat
      BY <2>2, DownloadAssumption DEF ConType, BODY
    <3> QED
      BY <2>1, <2>2, <3>1
  <2>4. a \in Seq(Texts) /\ Len(a) = 1
    <3>1. o.replies \in Seq(Texts) /\ "failed" \in Texts
      BY <2>2 DEF ConType, Texts
    <3>2. a \in Seq(Texts) /\ Len(a) = Len(o.replies) + 1
      BY <3>1, OneTextMore
    <3> HIDE DEF a
    <3> QED
      BY <2>2, <3>2
  <2> HIDE DEF t, a
  <2>5. /\ r \in ConType /\ r.ctx = o.ctx /\ r.kind = o.kind /\ r.http = o.http
        /\ r.replies = a /\ r.signature = o.signature /\ r.digest = o.digest
    BY <2>2, <2>3, <2>4, Zenon DEF ConType
  <2> HIDE DEF r
  <2>6. ConInv(r) /\ r.ctx = "ended"
    BY <2>2, <2>4, <2>5 DEF ConInv, Answers
  <2> QED
    BY <2>1, <2>6, Ended
<1> QED
  BY <1>1, <1>2

(* MG_EV_CLOSE.                                                            *)
LEMMA CloseStep ==
  ASSUME IInv, NEW c \in Conns, CloseEvent(c)
  PROVE  IInv'
<1>1. con' = [con EXCEPT ![c] = Fresh] /\ UNCHANGED flash
  BY DEF CloseEvent
<1>2. CASE con[c].ctx = "open"
  BY <1>1, <1>2, FreshConnection, Ended DEF CloseEvent, Fresh
<1>3. CASE con[c].ctx # "open"
  <2>1. con' = [d \in Conns |-> con'[d]] /\ con'[c] = Fresh
        /\ \A d \in Conns : d # c => con'[d] = con[d]
    BY <1>1 DEF IInv
  <2>2. \A d \in Conns : ConInv(con'[d])
    BY <2>1, FreshConnection DEF IInv
  <2>3. \A d \in Conns : con'[d].ctx = "open" => d # c
    BY <2>1 DEF Fresh
  <2>4. HandlesInv'
    BY <1>3, <2>1, <2>3 DEF IInv, HandlesInv, CloseEvent
  <2>5. AloneInv'
    BY <1>1, <1>3, <2>1, <2>3 DEF IInv, AloneInv, CloseEvent
  <2> QED
    BY <1>1, <2>1, <2>2, <2>4, <2>5 DEF IInv
<1> QED
  BY <1>2, <1>3

(* A start of the device.                                                  *)
LEMMA StartStep ==
  ASSUME IInv, Start
  PROVE  IInv'
<1>1. /\ con' = [c \in Conns |-> Fresh] /\ \A c \in Conns : con'[c] = Fresh
      /\ con' = [c \in Conns |-> con'[c]]
  BY DEF Start
<1>2. \A c \in Conns : con'[c].ctx = "none"
  BY <1>1 DEF Fresh
<1>3. flash' = [i \in 1 .. IMAGELEN |-> flash'[i]]
  BY DEF Start, IInv, Erased
<1>4. HandlesInv' /\ AloneInv'
  BY <1>2 DEF HandlesInv, AloneInv, Start
<1> QED
  BY <1>1, <1>3, <1>4, FreshConnection DEF IInv

(* What is in the digest is what follows the signature in the body.        *)
LEMMA DigestUnits ==
  ASSUME NEW s \in Seq(Nat), NEW d \in Seq(Nat), NEW t \in Nat, Split(s, d, t)
  PROVE  \A i \in 1 .. Len(d) : d[i] = SIGLEN + i
<1>1. ByUnit(s, d, t) /\ (d # <<>> => Len(s) = SIGLEN)
  BY SplitByUnit
<1>2. ASSUME NEW i \in 1 .. Len(d) PROVE d[i] = SIGLEN + i
  <2>1. d # <<>>
    BY <1>2
  <2>2. d[i] = unit[SIGLEN + i]
    BY <1>1, <1>2, <2>1 DEF ByUnit
  <2>3. SIGLEN + i \in Nat
    BY <1>2, DownloadAssumption, LenProperties
  <2> QED
    BY <2>2, <2>3 DEF unit
<1> QED
  BY <1>2

(* addDataFlagment.                                                        *)
LEMMA DataStep ==
  ASSUME IInv, NEW c \in Conns, NEW n \in 1 .. BODY, AddDataFlagment(c, n)
  PROVE  IInv'
<1> DEFINE s == ToSignature(c, Fragment(c, n))
           d == ToDigest(c, Fragment(c, n))
           t == con[c].taken + n
           r == [con[c] EXCEPT !.taken = t, !.signature = s, !.digest = d]
<1>1. con[c] \in ConType /\ con[c].ctx = "open" /\ con[c].http = "part"
      /\ n \in 1 .. BODY - con[c].taken /\ Split(con[c].signature, con[c].digest, con[c].taken)
  BY DEF IInv, ConInv, AddDataFlagment, Arrives
<1>2. s \in Seq(Nat) /\ d \in Seq(Nat) /\ Split(s, d, t)
  BY <1>1, FragmentSplit
<1>3. con' = [con EXCEPT ![c] = r] /\ UNCHANGED handles
  BY DEF AddDataFlagment
<1>4. t \in 0 .. BODY /\ t \in Nat
  <2>1. con[c].taken \in 0 .. BODY /\ BODY \in Nat
    BY <1>1, DownloadAssumption DEF ConType, BODY
  <2> QED
    BY <1>1, <2>1
<1>5. /\ con' = [e \in Conns |-> con'[e]] /\ con'[c] = r
      /\ \A e \in Conns : e # c => con'[e] = con[e]
  BY <1>3 DEF IInv
<1> HIDE DEF s, d, t
<1>6. ConInv(r)
  BY <1>1, <1>2, <1>4 DEF IInv, ConInv, ConType
<1>7. r.ctx = "open" /\ r.digest = d /\ r.alone = con[c].alone
  BY <1>1 DEF ConType
<1> HIDE DEF r
<1>8. \A e \in Conns : ConInv(con'[e])
  BY <1>5, <1>6 DEF IInv
<1>9. HandlesInv'
  BY <1>1, <1>3, <1>5, <1>7 DEF IInv, HandlesInv
<1>10. flash' = Written(c, d)
  BY <1>5, <1>7 DEF AddDataFlagment
<1>11. flash' = [i \in 1 .. IMAGELEN |-> flash'[i]]
  BY <1>10 DEF Written
<1>12. AloneInv'
  <2>1. SUFFICES ASSUME NEW e \in Conns, con'[e].ctx = "open", con'[e].alone
                 PROVE  /\ handles' = {e}
                        /\ \A i \in 1 .. Len(con'[e].digest) :
                             i <= IMAGELEN => flash'[i] = <<e, SIGLEN + i>>
    BY DEF AloneInv
  <2>2. con[e].ctx = "open" /\ con[e].alone
    BY <1>1, <1>5, <1>7, <2>1
  <2>3. /\ handles = {e}
        /\ \A i \in 1 .. Len(con[e].digest) : i <= IMAGELEN => flash[i] = <<e, SIGLEN + i>>
    BY <2>2 DEF IInv, AloneInv
  <2>4. e = c
    BY <1>1, <2>3 DEF IInv, HandlesInv
  <2>5. con'[e].digest = d
    BY <1>5, <1>7, <2>4
  <2>6. ASSUME NEW i \in 1 .. Len(d), i <= IMAGELEN PROVE flash'[i] = <<c, SIGLEN + i>>
    <3>1. Len(d) \in Nat /\ Len(con[c].digest) \in Nat /\ IMAGELEN \in Nat
      BY <1>1, <1>2, DownloadAssumption, LenProperties DEF ConType
    <3>2. flash'[i] = IF i \in Len(con[c].digest) + 1 .. Len(d) THEN <<c, d[i]>> ELSE flash[i]
      <4>1. i \in 1 .. IMAGELEN
        BY <2>6, <3>1
      <4> QED
        BY <1>10, <4>1 DEF Written
    <3>3. d[i] = SIGLEN + i
      BY <1>2, <1>4, <2>6, DigestUnits
    <3>4. i \in Len(con[c].digest) + 1 .. Len(d) \/ i \in 1 .. Len(con[c].digest)
      BY <2>6, <3>1
    <3>5. CASE i \in Len(con[c].digest) + 1 .. Len(d)
      BY <3>2, <3>3, <3>5
    <3>6. CASE i \notin Len(con[c].digest) + 1 .. Len(d)
      BY <2>3, <2>4, <2>6, <3>2, <3>4, <3>6
    <3> QED
      BY <3>5, <3>6
  <2> QED
    BY <1>3, <2>3, <2>4, <2>5, <2>6
<1> QED
  BY <1>5, <1>8, <1>9, <1>11, <1>12 DEF IInv

(* startOTA.                                                               *)
LEMMA BeginStep ==
  ASSUME IInv, NEW c \in Conns, StartOTA(c)
  PROVE  IInv'
<1> DEFINE a == Asked(c, "upload", "begun")
<1>1. /\ con[c].ctx # "open" /\ con[c].signature = <<>> /\ con[c].digest = <<>>
      /\ a \in ConType /\ SameUpload(a, con[c])
      /\ a.http = "begun" /\ a.kind = "upload" /\ a.replies = <<>> /\ a.taken = 0
  <2>1. "upload" \in Kinds /\ "begun" \in Stages /\ MayAsk(c)
    BY DEF StartOTA, Kinds, Stages
  <2> QED
    BY <2>1, Asking
<1>2. PICK well \in BOOLEAN :
        con' = [d \in Conns |->
                 IF d # c THEN [con[d] EXCEPT !.alone = (con[d].ctx # "open")]
                 ELSE [a EXCEPT !.ctx = "open",
                         !.signedWell = well, !.alone = (handles = {})]]
  BY DEF StartOTA
<1> HIDE DEF a
<1> DEFINE r == [a EXCEPT !.ctx = "open", !.signedWell = well, !.alone = (handles = {})]
<1>3. /\ con' = [d \in Conns |-> con'[d]] /\ con'[c] = r
      /\ \A d \in Conns : d # c => con'[d] = [con[d] EXCEPT !.alone = (con[d].ctx # "open")]
  BY <1>2
<1>4. Split(<<>>, <<>>, 0)
  <2>1. ByUnit(<<>>, <<>>, 0) /\ Len(<<>>) <= SIGLEN
    BY DownloadAssumption DEF ByUnit
  <2>2. <<>> \in Seq(Nat)
    OBVIOUS
  <2> QED
    BY <2>1, <2>2, SplitByUnit
<1>5. /\ r \in ConType /\ r.ctx = "open" /\ r.alone = (handles = {})
      /\ r.http = a.http /\ r.kind = a.kind /\ r.taken = a.taken /\ r.replies = a.replies
      /\ r.signature = a.signature /\ r.digest = a.digest
  <2>1. (handles = {}) \in BOOLEAN /\ well \in BOOLEAN
    OBVIOUS
  <2> QED
    BY <1>1, <2>1, Zenon DEF ConType
<1>6. /\ r.http = "begun" /\ r.kind = "upload" /\ r.taken = 0 /\ Len(r.replies) = 0
      /\ r.signature = <<>> /\ r.digest = <<>>
  BY <1>1, <1>5 DEF SameUpload
<1> HIDE DEF r
<1>7. ConInv(r)
  BY <1>4, <1>5, <1>6 DEF ConInv, Answers
<1>8. ASSUME NEW d \in Conns, d # c
      PROVE  /\ ConInv(con'[d]) /\ con'[d].ctx = con[d].ctx
             /\ con'[d].alone = (con[d].ctx # "open")
  <2> DEFINE b == con[d].ctx # "open"
             q == [con[d] EXCEPT !.alone = b]
  <2>1. con[d] \in ConType /\ ConInv(con[d]) /\ b \in BOOLEAN
    BY <1>8 DEF IInv, ConInv
  <2>2. con'[d] = q
    BY <1>3, <1>8
  <2> HIDE DEF b
  <2>3. q \in ConType
    BY <2>1, Zenon DEF ConType
  <2>4. /\ q.http = con[d].http /\ q.parts = con[d].parts /\ q.taken = con[d].taken
        /\ q.ctx = con[d].ctx /\ q.signature = con[d].signature /\ q.digest = con[d].digest
        /\ q.replies = con[d].replies /\ q.kind = con[d].kind /\ q.alone = b
        /\ q.signedWell = con[d].signedWell /\ q.closing = con[d].closing
    BY <2>1, Zenon DEF ConType
  <2> HIDE DEF q
  <2>5. ConInv(q)
    BY <2>1, <2>3, <2>4 DEF ConInv
  <2> QED
    BY <2>2, <2>4, <2>5 DEF b
<1>9. \A d \in Conns : ConInv(con'[d])
  BY <1>3, <1>7, <1>8
<1>10. HandlesInv'
  BY <1>3, <1>5, <1>8 DEF IInv, HandlesInv, StartOTA
<1>11. AloneInv'
  <2>1. SUFFICES ASSUME NEW d \in Conns, con'[d].ctx = "open", con'[d].alone
                 PROVE  /\ handles' = {d}
                        /\ \A i \in 1 .. Len(con'[d].digest) :
                             i <= IMAGELEN => flash'[i] = <<d, SIGLEN + i>>
    BY DEF AloneInv
  <2>2. d = c
    BY <1>8, <2>1
  <2>3. handles' = {c}
    BY <1>3, <1>5, <2>1, <2>2 DEF StartOTA
  <2>4. Len(con'[d].digest) = 0
    BY <1>3, <1>6, <2>2
  <2> QED
    BY <2>2, <2>3, <2>4
<1>12. flash' = [i \in 1 .. IMAGELEN |-> flash'[i]]
  BY DEF StartOTA, Erased
<1> QED
  BY <1>3, <1>9, <1>10, <1>11, <1>12 DEF IInv

(* The invariant is inductive.                                             *)
LEMMA InitInv == Init => IInv
<1> SUFFICES ASSUME Init PROVE IInv
  OBVIOUS
<1>1. \A c \in Conns : con[c] = Fresh /\ con[c].ctx = "none"
  BY DEF Init, Fresh
<1>2. flash = [i \in 1 .. IMAGELEN |-> flash[i]]
  BY DEF Init, Erased
<1>3. HandlesInv /\ AloneInv
  BY <1>1 DEF Init, HandlesInv, AloneInv
<1> QED
  BY <1>1, <1>2, <1>3, FreshConnection DEF Init, IInv

(* One step per kind of event, a restart and a power loss among them.      *)
LEMMA NextInv == IInv /\ [Next]_vars => IInv'
<1> SUFFICES ASSUME IInv, [Next]_vars PROVE IInv'
  OBVIOUS
<1>1. ASSUME NEW c \in Conns, Handle(c) PROVE IInv'
  BY <1>1, TellingStep, QuietStep, BeginStep, DataStep, EndingStep, CloseStep, Zenon DEF Handle
<1>2. CASE Restart \/ PowerLoss
  BY <1>2, StartStep DEF Restart, PowerLoss
<1>3. CASE UNCHANGED vars
  BY <1>3 DEF vars, IInv, HandlesInv, AloneInv
<1> QED
  BY <1>1, <1>2, <1>3 DEF Next

(* Whatever the order of fragments, failures and restarts, of the events   *)
(* of downloadHandler on all connections, the invariant holds.             *)
THEOREM Invariance == Spec => []IInv
<1> QED
  BY InitInv, NextInv, PTL DEF Spec

-----------------------------------------------------------------------------
(* The properties.                                                         *)

(* downloadHandler: a handle of esp_ota is ended when its upload is over,  *)
(* committed, failed or abandoned, and not before.                         *)
THEOREM HandlesOwned == Spec => []HandlesAreOwned
<1>1. IInv => HandlesAreOwned
  BY DEF IInv, HandlesInv, ConInv, HandlesAreOwned
<1> QED
  BY <1>1, Invariance, PTL

(* DLContext and defHandler: a request that starts an upload, with parts   *)
(* or without, is told the outcome once and before it ends; one for        *)
(* another uri is answered once, at its end, a rejected one at once; and   *)
(* behind a start that failed the end of a request tells one text more.    *)
THEOREM ToldOnce == Spec => []OutcomeToldOnce
<1>1. ASSUME NEW r, ConInv(r)
      PROVE  /\ Answers(r.kind, r.http, r.ctx, Len(r.replies))
             /\ r.http = "end" => r.ctx # "open" /\ r.closing
  BY <1>1 DEF ConInv
<1>2. IInv => OutcomeToldOnce
  BY <1>1 DEF IInv, Answers, OutcomeToldOnce
<1> QED
  BY <1>2, Invariance, PTL

(* OTAimp::addDataFlagment: however the body was cut, the first SIGLEN     *)
(* units are the signature and the rest, in order, is what is hashed.      *)
THEOREM BodySplitExactly == Spec => []SplitExact
<1>1. IInv => SplitExact
  BY DEF IInv, ConInv, Split, Units, SplitExact
<1> QED
  BY <1>1, Invariance, PTL

(* What OTAimp::end accepts is a body received whole.                      *)
LEMMA VerifiedWhole ==
  ASSUME IInv, NEW c \in Conns, con[c].ctx = "open", Verifies(c)
  PROVE  /\ con[c].taken = BODY /\ Len(con[c].digest) = IMAGELEN
         /\ \A i \in 1 .. IMAGELEN : con[c].alone => flash[i] = <<c, SIGLEN + i>>
<1>1. /\ con[c].signature \in Seq(Nat) /\ con[c].digest \in Seq(Nat)
      /\ con[c].taken \in Nat /\ BODY \in Nat /\ IMAGELEN \in Nat /\ SIGLEN \in Nat
  BY DownloadAssumption DEF IInv, ConInv, ConType, BODY
<1>2. /\ con[c].signature \o con[c].digest = Units(con[c].taken)
      /\ con[c].signature \o con[c].digest = Units(BODY)
      /\ Len(con[c].signature) = SIGLEN
  BY DEF IInv, ConInv, Split, Units, Verifies
<1>3. Len(Units(con[c].taken)) = con[c].taken /\ Len(Units(BODY)) = BODY
  BY <1>1 DEF Units
<1>4. Len(con[c].signature \o con[c].digest) = Len(con[c].signature) + Len(con[c].digest)
  BY <1>1, Join DEF Joined
<1>5. Len(con[c].digest) = IMAGELEN
  BY <1>1, <1>2, <1>3, <1>4, LenProperties DEF BODY
<1>6. \A i \in 1 .. IMAGELEN : con[c].alone => flash[i] = <<c, SIGLEN + i>>
  BY <1>1, <1>5 DEF IInv, AloneInv
<1> QED
  BY <1>2, <1>3, <1>5, <1>6

(* What an update that failed is told is not success.                      *)
LEMMA FailureTold ==
  ASSUME IInv, NEW c \in Conns, con[c].ctx = "open"
  PROVE  /\ CommitFails(c) => con'[c].replies = <<"failed">>
         /\ \A n \in 1 .. BODY : WriteFails(c, n) => con'[c].replies = <<"failed">>
<1>1. con = [e \in Conns |-> con[e]]
  BY DEF IInv
<1> DEFINE o == Deleted(c)
           t == Told(o, "failed")
<1>2. o \in ConType /\ o.replies = <<>>
  BY DeletedFields DEF ConType
<1>3. Append(o.replies, "failed") = <<"failed">>
  BY <1>2
<1>4. CommitFails(c) => con'[c] = PartOver(t)
  BY <1>1 DEF CommitFails
<1>5. ASSUME NEW n \in 1 .. BODY, WriteFails(c, n)
      PROVE  con'[c] = [o EXCEPT !.taken = @ + n, !.replies = Append(@, "failed")]
  BY <1>1, <1>5 DEF WriteFails
<1> HIDE DEF o
<1>6. t \in ConType /\ t.replies = <<"failed">>
  BY <1>2, <1>3, ToldFields DEF Texts
<1> HIDE DEF t
<1>7. PartOver(t).replies = <<"failed">>
  BY <1>6, PartOverFields
<1>8. ASSUME NEW n \in 1 .. BODY, WriteFails(c, n) PROVE con'[c].replies = <<"failed">>
  <2> DEFINE a == Append(o.replies, "failed")
             k == o.taken + n
  <2>1. con'[c] = [o EXCEPT !.taken = k, !.replies = a]
    BY <1>5, <1>8
  <2> HIDE DEF a, k
  <2>2. con'[c].replies = a
    BY <1>2, <2>1, Zenon DEF ConType
  <2> QED
    BY <1>3, <2>2 DEF a
<1> QED
  BY <1>4, <1>7, <1>8

(* The steps of c that tell nothing.                                       *)
LEMMA NothingTold ==
  ASSUME IInv, NEW c \in Conns,
         \/ PartBegin(c) \/ PartEndIgnored(c) \/ RequestEnd(c) \/ IgnoreData(c)
         \/ \E n \in 1 .. BODY : AddDataFlagment(c, n)
  PROVE  con'[c].replies = con[c].replies
<1>1. con = [e \in Conns |-> con[e]] /\ con[c] \in ConType
  BY DEF IInv, ConInv
<1>2. CASE PartEndIgnored(c) \/ RequestEnd(c)
  <2>1. con'[c] \in {PartOver(con[c]), RequestOver(con[c])}
    BY <1>1, <1>2 DEF PartEndIgnored, RequestEnd
  <2>2. PartOver(con[c]).replies = con[c].replies
    BY <1>1, PartOverFields
  <2>3. RequestOver(con[c]).replies = con[c].replies
    BY <1>1, RequestOverFields
  <2> QED
    BY <2>1, <2>2, <2>3
<1>3. CASE PartBegin(c) \/ IgnoreData(c)
  BY <1>1, <1>3 DEF PartBegin, IgnoreData, ConType
<1>4. ASSUME NEW n \in 1 .. BODY, AddDataFlagment(c, n) PROVE con'[c].replies = con[c].replies
  <2> DEFINE s == ToSignature(c, Fragment(c, n))
             d == ToDigest(c, Fragment(c, n))
             t == con[c].taken + n
  <2>1. con'[c] = [con[c] EXCEPT !.taken = t, !.signature = s, !.digest = d]
    BY <1>1, <1>4 DEF AddDataFlagment
  <2> HIDE DEF s, d, t
  <2> QED
    BY <1>1, <2>1, Zenon DEF ConType
<1> QED
  BY <1>2, <1>3, <1>4

(* What the requests that begin, or end with a text, are: no upload that   *)
(* has ended.                                                              *)
LEMMA NoUploadTold ==
  ASSUME IInv, NEW c \in Conns,
         \/ OtherRequest(c) \/ OtherMultipart(c) \/ OtherMultipartEnd(c)
         \/ InvalidRequest(c) \/ Reject(c) \/ StartFails(c) \/ NoImagePart(c)
         \/ StartOTA(c)
  PROVE  ~(con'[c].kind = "upload" /\ con'[c].ctx = "ended")
<1>1. con = [e \in Conns |-> con[e]] /\ con[c] \in ConType
  BY DEF IInv, ConInv
<1>2. ASSUME NEW kind \in Kinds, NEW http \in Stages
      PROVE  /\ Asked(c, kind, http) \in ConType
             /\ Asked(c, kind, http).kind = kind
  BY <1>1, AskedFields
<1>3. ASSUME NEW r \in ConType, NEW text \in Texts
      PROVE  Told(r, text) \in ConType /\ Told(r, text).kind = r.kind /\ Told(r, text).ctx = r.ctx
  BY ToldFields DEF SameUpload
<1>4. ASSUME NEW kind \in {"other", "refused"}, NEW http \in {"begun", "end"},
             NEW text \in {"hello", "rejected"},
             con'[c] \in {Asked(c, kind, http), Told(Asked(c, kind, http), text)}
      PROVE  con'[c].kind # "upload"
  <2>1. /\ kind \in Kinds /\ http \in Stages /\ text \in Texts
    BY <1>4 DEF Kinds, Stages, Texts
  <2> QED
    BY <1>2, <1>3, <1>4, <2>1
<1>5. CASE OtherRequest(c) \/ OtherMultipart(c) \/ InvalidRequest(c) \/ Reject(c)
  BY <1>1, <1>4, <1>5 DEF OtherRequest, OtherMultipart, InvalidRequest, Reject
<1>6. CASE StartFails(c)
  <2> DEFINE t == Told(Asked(c, "failed", "begun"), "in parallel")
  <2>1. t \in ConType
    BY <1>2, <1>3 DEF Kinds, Stages, Texts
  <2>2. con'[c] = [t EXCEPT !.ctx = "failed"]
    BY <1>1, <1>6 DEF StartFails
  <2> HIDE DEF t
  <2> QED
    BY <2>1, <2>2 DEF ConType
<1>7. CASE StartOTA(c)
  <2>1. "upload" \in Kinds /\ "begun" \in Stages
    BY DEF Kinds, Stages
  <2> DEFINE a == Asked(c, "upload", "begun")
  <2>2. a \in ConType
    BY <1>1, <2>1, AskedFields, Zenon
  <2>3. PICK well \in BOOLEAN :
          con' = [d \in Conns |->
                   IF d # c THEN [con[d] EXCEPT !.alone = (con[d].ctx # "open")]
                   ELSE [a EXCEPT !.ctx = "open",
                           !.signedWell = well, !.alone = (handles = {})]]
    BY <1>7 DEF StartOTA
  <2> HIDE DEF a
  <2>4. con'[c].ctx = "open"
    BY <2>2, <2>3 DEF ConType
  <2> QED
    BY <2>4
<1>8. CASE OtherMultipartEnd(c) \/ NoImagePart(c)
  <2>1. PICK text \in Texts : con'[c] = RequestOver(Told(con[c], text))
    BY <1>1, <1>8 DEF OtherMultipartEnd, NoImagePart, Texts
  <2>2. con'[c].kind = con[c].kind /\ con'[c].ctx = con[c].ctx
    BY <1>1, <1>3, <2>1, RequestOverFields DEF SameUpload
  <2>3. con[c].kind = "other" \/ con[c].ctx = "failed"
    BY <1>8 DEF OtherMultipartEnd, NoImagePart
  <2> QED
    BY <2>2, <2>3
<1> QED
  BY <1>5, <1>6, <1>7, <1>8

(* A step of another connection tells c nothing.                           *)
LEMMA OthersTold ==
  ASSUME IInv, NEW c \in Conns, NEW d \in Conns, d # c, Handle(d)
  PROVE  con'[c].replies = con[c].replies
<1>1. con = [e \in Conns |-> con[e]] /\ con[c] \in ConType
  BY DEF IInv, ConInv
<1>2. CASE StartOTA(d)
  <2> DEFINE b == con[c].ctx # "open"
  <2>1. con'[c] = [con[c] EXCEPT !.alone = b]
    BY <1>2 DEF StartOTA
  <2> HIDE DEF b
  <2> QED
    BY <1>1, <2>1, Zenon DEF ConType
<1>3. CASE OtherRequest(d) \/ OtherMultipart(d) \/ OtherMultipartEnd(d) \/ InvalidRequest(d)
             \/ Reject(d) \/ StartFails(d) \/ NoImagePart(d) \/ RequestEnd(d)
  BY <1>1, <1>3, Zenon
  DEF OtherRequest, OtherMultipart, OtherMultipartEnd, InvalidRequest, Reject, StartFails,
      NoImagePart, RequestEnd
<1>4. CASE PartBegin(d) \/ IgnoreData(d) \/ PartEndIgnored(d) \/ Commit(d) \/ CommitFails(d)
             \/ CloseEvent(d)
  BY <1>1, <1>4, Zenon
  DEF PartBegin, IgnoreData, PartEndIgnored, Commit, CommitFails, CloseEvent
<1>5. ASSUME NEW n \in 1 .. BODY, AddDataFlagment(d, n) \/ WriteFails(d, n)
      PROVE  con'[c].replies = con[c].replies
  BY <1>1, <1>5, Zenon DEF AddDataFlagment, WriteFails
<1> QED
  BY <1>2, <1>3, <1>4, <1>5, Zenon DEF Handle

(* Only Commit tells of success.                                           *)
LEMMA OnlyCommitTells ==
  ASSUME IInv, IInv', [Next]_vars, NEW c \in Conns,
         "finished" \in ToSet(con'[c].replies), con'[c].replies # con[c].replies
  PROVE  Commit(c)
<1>1. \E i \in 1 .. Len(con'[c].replies) : con'[c].replies[i] = "finished"
  <2>1. con'[c].replies \in Seq(Texts)
    BY DEF IInv, ConInv, ConType
  <2> QED
    BY <2>1 DEF ToSet
<1>2. con'[c].kind = "upload" /\ con'[c].ctx = "ended"
  BY <1>1 DEF IInv, ConInv
<1>3. ~Start /\ ~UNCHANGED vars
  BY <1>2 DEF Start, Fresh, vars
<1>4. Handle(c)
  BY <1>3, OthersTold DEF Next, Restart, PowerLoss
<1>5. ~CloseEvent(c)
  <2>1. con = [e \in Conns |-> con[e]]
    BY DEF IInv
  <2> QED
    BY <1>2, <2>1 DEF CloseEvent, Fresh
<1>6. ~CommitFails(c) /\ \A n \in 1 .. BODY : ~WriteFails(c, n)
  <2>1. con'[c].replies # <<"failed">>
    BY <1>1
  <2> QED
    BY <2>1, FailureTold DEF CommitFails, WriteFails
<1> QED
  BY <1>2, <1>4, <1>5, <1>6, NothingTold, NoUploadTold, Zenon DEF Handle

(* OTAimp::end before "firmware updating finished": the upload was whole,  *)
(* with the signature of its image; and when no other one was open         *)
(* meanwhile the partition that will be booted holds this image.           *)
THEOREM FinishedVerified == Spec => FinishedIsVerified
<1>1. ASSUME IInv, IInv', [Next]_vars, NEW c \in Conns,
             "finished" \in ToSet(con'[c].replies), con'[c].replies # con[c].replies
      PROVE  /\ con[c].signedWell /\ con[c].taken = BODY
             /\ boot' = "update"
             /\ con[c].alone => flash' = Image(c)
  <2>1. Commit(c)
    BY <1>1, OnlyCommitTells
  <2>2. con[c].ctx = "open" /\ Verifies(c) /\ boot' = "update" /\ flash' = flash
    BY <2>1 DEF Commit
  <2>3. con[c].signedWell
    BY <2>2 DEF Verifies
  <2>4. /\ con[c].taken = BODY
        /\ \A i \in 1 .. IMAGELEN : con[c].alone => flash[i] = <<c, SIGLEN + i>>
    BY <1>1, <2>2, VerifiedWhole
  <2>5. con[c].alone => flash' = Image(c)
    BY <1>1, <2>2, <2>4 DEF IInv, Image
  <2> QED
    BY <2>2, <2>3, <2>4, <2>5
<1>2. IInv /\ IInv' /\ [Next]_vars =>
        [\A c \in Conns :
           "finished" \in ToSet(con'[c].replies) /\ con'[c].replies # con[c].replies =>
             /\ con[c].signedWell /\ con[c].taken = BODY
             /\ boot' = "update"
             /\ con[c].alone => flash' = Image(c)]_vars
  BY <1>1
<1> QED
  BY <1>2, Invariance, PTL DEF Spec, FinishedIsVerified
=============================================================================
