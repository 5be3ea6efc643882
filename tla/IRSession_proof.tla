--------------------------- MODULE IRSession_proof ---------------------------
(***************************************************************************)
(* A communication task and its clients, for all sizes of headers,         *)
(* requests and the input buffer: the safety properties of IRSession, from *)
(* what taking and appending bytes does to a buffer with part of a message.*)
(***************************************************************************)
EXTENDS IRSession, SequenceTheorems, FiniteSetTheorems, TLAPS

-----------------------------------------------------------------------------
(* Buffers.                                                                *)

(* The first n bytes of a buffer and the rest of it.                       *)
LEMMA TakeDrop ==
  ASSUME NEW S, NEW q \in Seq(S), NEW n \in 0 .. Len(q)
  PROVE  /\ Take(q, n) \in Seq(S) /\ Len(Take(q, n)) = n
         /\ \A k \in 1 .. n : Take(q, n)[k] = q[k]
         /\ Drop(q, n) \in Seq(S) /\ Len(Drop(q, n)) = Len(q) - n
         /\ \A k \in 1 .. Len(q) - n : Drop(q, n)[k] = q[n + k]
<1>1. Len(q) \in Nat /\ n \in Nat /\ n <= Len(q) /\ \A k \in 1 .. Len(q) : q[k] \in S
  BY LenProperties, ElementOfSeq
<1>2. /\ SubSeq(q, 1, n) \in Seq(S)
      /\ Len(SubSeq(q, 1, n)) = IF 1 <= n THEN n - 1 + 1 ELSE 0
      /\ \A k \in 1 .. n - 1 + 1 : SubSeq(q, 1, n)[k] = q[1 + k - 1]
  <2>1. \A k \in 1 .. n : q[k] \in S
    BY <1>1
  <2> QED
    BY <1>1, <2>1, SubSeqProperties
<1>3. /\ SubSeq(q, n + 1, Len(q)) \in Seq(S)
      /\ Len(SubSeq(q, n + 1, Len(q))) = IF n + 1 <= Len(q) THEN Len(q) - (n + 1) + 1 ELSE 0
      /\ \A k \in 1 .. Len(q) - (n + 1) + 1 : SubSeq(q, n + 1, Len(q))[k] = q[n + 1 + k - 1]
  <2>1. \A k \in n + 1 .. Len(q) : q[k] \in S
    BY <1>1
  <2>2. n + 1 \in Int /\ Len(q) \in Int
    BY <1>1
  <2> QED
    BY <2>1, <2>2, SubSeqProperties
<1>4. Len(Take(q, n)) = n /\ \A k \in 1 .. n : Take(q, n)[k] = q[k]
  BY <1>1, <1>2 DEF Take
<1>5. Len(Drop(q, n)) = Len(q) - n /\ \A k \in 1 .. Len(q) - n : Drop(q, n)[k] = q[n + k]
  BY <1>1, <1>3 DEF Drop
<1> QED
  BY <1>2, <1>3, <1>4, <1>5 DEF Take, Drop

(* Taken from one buffer and appended to the other, the bytes of both      *)
(* together are what they were.                                            *)
LEMMA MovedBytes ==
  ASSUME NEW S, NEW p \in Seq(S), NEW q \in Seq(S), NEW n \in 0 .. Len(q)
  PROVE  (p \o Take(q, n)) \o Drop(q, n) = p \o q
<1> DEFINE t == Take(q, n)
           d == Drop(q, n)
<1>1. /\ t \in Seq(S) /\ Len(t) = n /\ \A k \in 1 .. n : t[k] = q[k]
      /\ d \in Seq(S) /\ Len(d) = Len(q) - n /\ \A k \in 1 .. Len(q) - n : d[k] = q[n + k]
  BY TakeDrop
<1>2. Len(q) \in Nat /\ n \in Nat /\ n <= Len(q)
  BY LenProperties
<1> HIDE DEF t, d
<1>3. t \o d = q
  <2>1. /\ t \o d \in Seq(S) /\ Len(t \o d) = Len(t) + Len(d)
        /\ \A k \in 1 .. Len(t) + Len(d) :
             (t \o d)[k] = IF k <= Len(t) THEN t[k] ELSE d[k - Len(t)]
    BY <1>1, ConcatProperties
  <2>2. Len(t \o d) = Len(q)
    BY <1>1, <1>2, <2>1
  <2>3. \A k \in 1 .. Len(q) : (t \o d)[k] = q[k]
    BY <1>1, <1>2, <2>1
  <2>4. \A k \in 1 .. Len(t \o d) : (t \o d)[k] = q[k]
    BY <2>2, <2>3
  <2> QED
    BY <2>1, <2>2, <2>4, SeqEqual
<1>4. (p \o t) \o d = p \o (t \o d)
  BY <1>1, ConcatAssociative
<1> QED
  BY <1>3, <1>4 DEF t, d

-----------------------------------------------------------------------------
(* Parts of a message.                                                     *)

(* The buffer holds the bytes of a message that follow the first o.        *)
Part(buf, kind, r, o) == \A k \in 1 .. Len(buf) : buf[k] = <<kind, r, o + k>>

(* What is taken and what is left of a part are parts.                     *)
LEMMA PartOfPart ==
  ASSUME NEW S, NEW q \in Seq(S), NEW n \in 0 .. Len(q), NEW kind, NEW r, NEW o \in Nat,
         Part(q, kind, r, o)
  PROVE  Part(Take(q, n), kind, r, o) /\ Part(Drop(q, n), kind, r, o + n)
<1>1. Len(q) \in Nat /\ n \in Nat /\ n <= Len(q)
  BY LenProperties
<1>2. /\ Len(Take(q, n)) = n /\ \A k \in 1 .. n : Take(q, n)[k] = q[k]
      /\ Len(Drop(q, n)) = Len(q) - n /\ \A k \in 1 .. Len(q) - n : Drop(q, n)[k] = q[n + k]
  BY TakeDrop
<1>3. \A k \in 1 .. Len(q) : q[k] = <<kind, r, o + k>>
  BY DEF Part
<1>4. Part(Take(q, n), kind, r, o)
  BY <1>1, <1>2, <1>3 DEF Part
<1>5. ASSUME NEW k \in 1 .. Len(q) - n PROVE Drop(q, n)[k] = <<kind, r, (o + n) + k>>
  <2>1. n + k \in 1 .. Len(q) /\ o + (n + k) = (o + n) + k
    BY <1>1
  <2> QED
    BY <1>2, <1>3, <2>1
<1> QED
  BY <1>2, <1>4, <1>5 DEF Part

(* A part that goes on where another ends.                                 *)
LEMMA PartsJoined ==
  ASSUME NEW S, NEW p \in Seq(S), NEW q \in Seq(S), NEW kind, NEW r, NEW o \in Nat,
         Part(p, kind, r, o), Part(q, kind, r, o + Len(p))
  PROVE  Part(p \o q, kind, r, o)
<1>1. Len(p) \in Nat /\ Len(q) \in Nat
  BY LenProperties
<1>2. /\ Len(p \o q) = Len(p) + Len(q)
      /\ \A k \in 1 .. Len(p) + Len(q) : (p \o q)[k] = IF k <= Len(p) THEN p[k] ELSE q[k - Len(p)]
  BY ConcatProperties
<1>3. ASSUME NEW k \in 1 .. Len(p) + Len(q) PROVE (p \o q)[k] = <<kind, r, o + k>>
  <2>1. CASE k <= Len(p)
    BY <1>1, <1>2, <2>1 DEF Part
  <2>2. CASE ~(k <= Len(p))
    <3>1. k - Len(p) \in 1 .. Len(q) /\ (o + Len(p)) + (k - Len(p)) = o + k
      BY <1>1, <2>2
    <3> QED
      BY <1>2, <2>2, <3>1 DEF Part
  <2> QED
    BY <2>1, <2>2
<1> QED
  BY <1>2, <1>3 DEF Part

-----------------------------------------------------------------------------
(* Streams of messages.                                                    *)

(* No byte is there twice.                                                 *)
Once(s) == \A j, k \in 1 .. Len(s) : s[j] = s[k] => j = k

(* A part of a stream: what follows its first d bytes, or some of it.      *)
Within(t, s, d) == \A k \in 1 .. Len(t) : d + k \in 1 .. Len(s) /\ t[k] = s[d + k]

(* A part of a stream repeats no byte if the stream does not.              *)
LEMMA OnceWithin ==
  ASSUME NEW S, NEW s \in Seq(S), NEW t \in Seq(S), NEW d \in Nat, Within(t, s, d), Once(s)
  PROVE  Once(t)
<1>1. Len(t) \in Nat /\ Len(s) \in Nat
  BY LenProperties
<1> SUFFICES ASSUME NEW j \in 1 .. Len(t), NEW k \in 1 .. Len(t), t[j] = t[k]
             PROVE  j = k
  BY DEF Once
<1>2. s[d + j] = s[d + k] /\ d + j \in 1 .. Len(s) /\ d + k \in 1 .. Len(s)
  BY DEF Within
<1>3. d + j = d + k
  BY <1>2 DEF Once
<1> QED
  BY <1>1, <1>3

(* A stream without its first n bytes, and its beginning.                  *)
LEMMA Shortened ==
  ASSUME NEW S, NEW p \in Seq(S), NEW q \in Seq(S), NEW n \in 0 .. Len(p)
  PROVE  Within(Drop(p, n) \o q, p \o q, n) /\ Within(p, p \o q, 0)
<1> DEFINE d == Drop(p, n)
<1>1. Len(p) \in Nat /\ Len(q) \in Nat /\ n \in Nat /\ n <= Len(p)
  BY LenProperties
<1>2. /\ d \in Seq(S) /\ Len(d) = Len(p) - n
      /\ \A k \in 1 .. Len(p) - n : d[k] = p[n + k]
  BY TakeDrop
<1> HIDE DEF d
<1>3. /\ Len(p \o q) = Len(p) + Len(q)
      /\ \A k \in 1 .. Len(p) + Len(q) : (p \o q)[k] = IF k <= Len(p) THEN p[k] ELSE q[k - Len(p)]
  BY ConcatProperties
<1>4. /\ Len(d \o q) = Len(d) + Len(q)
      /\ \A k \in 1 .. Len(d) + Len(q) : (d \o q)[k] = IF k <= Len(d) THEN d[k] ELSE q[k - Len(d)]
  BY <1>2, ConcatProperties
<1>5. Within(p, p \o q, 0)
  BY <1>1, <1>3 DEF Within
<1>6. ASSUME NEW k \in 1 .. Len(d \o q)
      PROVE  n + k \in 1 .. Len(p \o q) /\ (d \o q)[k] = (p \o q)[n + k]
  <2>1. k \in 1 .. Len(d) + Len(q) /\ n + k \in 1 .. Len(p) + Len(q)
    BY <1>1, <1>2, <1>4
  <2>2. CASE k <= Len(d)
    BY <1>1, <1>2, <1>3, <1>4, <2>1, <2>2
  <2>3. CASE ~(k <= Len(d))
    <3>1. (n + k) - Len(p) = k - Len(d) /\ ~(n + k <= Len(p))
      BY <1>1, <1>2, <2>1, <2>3
    <3> QED
      BY <1>3, <1>4, <2>1, <2>3, <3>1
  <2> QED
    BY <2>2, <2>3
<1> QED
  BY <1>5, <1>6 DEF Within, d

(* A number no byte has is there for a new connection: the buffers of a    *)
(* task do not hold as many bytes as there are numbers.                    *)
LEMMA FreshNumber ==
  ASSUME NEW s \in Seq(Bytes), Len(s) <= REQMAX + HDR
  PROVE  \E n \in Conn : \A k \in DOMAIN s : s[k][2][1] # n
<1>1. Len(s) \in Nat /\ DOMAIN s = 1 .. Len(s) /\ REQMAX + HDR \in Nat
  BY LenProperties, ProtocolAssumption
<1> SUFFICES ASSUME \A n \in Conn : \E k \in 1 .. Len(s) : s[k][2][1] = n
             PROVE  FALSE
  BY <1>1
<1> DEFINE f == [k \in 1 .. Len(s) |-> IF s[k][2][1] \in Conn THEN s[k][2][1] ELSE 0]
<1>2. f \in [1 .. Len(s) -> Conn]
  BY <1>1 DEF Conn
<1>3. f \in Surjection(1 .. Len(s), Conn)
  BY <1>2 DEF Surjection
<1>4. IsFiniteSet(1 .. Len(s)) /\ Cardinality(1 .. Len(s)) = Len(s)
  <2>1. 1 \in Int /\ Len(s) \in Int
    BY <1>1
  <2>2. /\ IsFiniteSet(1 .. Len(s))
        /\ Cardinality(1 .. Len(s)) = IF 1 > Len(s) THEN 0 ELSE Len(s) - 1 + 1
    BY <2>1, FS_Interval
  <2> QED
    BY <1>1, <2>2
<1>5. Cardinality(Conn) = REQMAX + HDR + 1
  BY <1>1, FS_Interval DEF Conn
<1>6. Cardinality(Conn) <= Cardinality(1 .. Len(s))
  BY <1>3, <1>4, FS_Surjection
<1> QED
  BY <1>1, <1>4, <1>5, <1>6

-----------------------------------------------------------------------------
(* The inductive invariant.                                                *)

(* The two ends agree on who is there, and the client on what it has sent. *)
EndsInv ==
  /\ serverEnd = "closed" <=> spc = "free"
  /\ spc = "free" => c2s = <<>>
  /\ clientEnd = "open" <=> cpc # "off"
  /\ cpc \in {"sending", "waiting"} => req \in DOMAIN Size
  /\ cpc = "sending" => sent < Size[req]
  /\ cpc = "waiting" => sent = Size[req]
  /\ cpc = "spinning" => spc = "free"

(* A command is taken for received only with its header checked and all of *)
(* it there, and what select found ready still is.                         *)
CommandInv ==
  /\ received => /\ spc \in {"select", "write", "read", "command"}
                 /\ Len(ibuf) >= HDR /\ HasHeader(ibuf) /\ Complete(ibuf)
  /\ spc = "command" => received /\ out = <<>>
  /\ spc = "write" /\ "write" \in ready => out # <<>>
  /\ spc \in {"write", "read"} /\ "read" \in ready => c2s # <<>> \/ clientEnd = "closed"

(* All bytes still to be dealt with: the server's and those under way.     *)
Stream == ibuf \o c2s

(* What the client has numbered and written so far.                        *)
Written(r, k) == r[1] = conn => r[2] <= req /\ (r[2] = req => k <= sent)

(* A byte is sent once, and the first byte of a request that was dealt     *)
(* with is gone from the stream.                                           *)
StreamInv ==
  /\ Once(Stream)
  /\ \A k \in 1 .. Len(Stream) : Stream[k][1] = "req"
  /\ cpc # "off" => \A k \in 1 .. Len(Stream) : Written(Stream[k][2], Stream[k][3])
  /\ \A r \in handled : \A k \in 1 .. Len(Stream) : Stream[k] # RequestByte(r, 1)
  /\ cpc # "off" => \A r \in handled : Written(r, 1)

(* From a byte of the present connection on, its request follows as far as *)
(* the stream goes, until it is whole.                                     *)
RunsOn(s) ==
  \A j \in 1 .. Len(s) : s[j][2][1] = conn =>
    \A k \in j .. Len(s) : s[j][3] + (k - j) <= Size[s[j][2][2]] =>
      s[k] = RequestByte(s[j][2], s[j][3] + (k - j))

Unfinished(s) ==
  s # <<>> /\ s[Len(s)][2][1] = conn /\ s[Len(s)][3] < Size[s[Len(s)][2][2]]

(* What the stream lacks at its end is what the client is about to write.  *)
UnmixedInv ==
  /\ RunsOn(Stream)
  /\ cpc # "off" /\ serverEnd = "open" /\ Unfinished(Stream) =>
       cpc = "sending" /\ Stream[Len(Stream)] = RequestByte(Mine(req), sent)

(* With an undisturbed client, the bytes of one request or one answer are  *)
(* under way, and nothing else is.                                         *)
AtRest == ibuf = <<>> /\ c2s = <<>> /\ out = <<>> /\ s2c = <<>>

Unanswered ==
  /\ Mine(req) \notin handled
  /\ out = <<>> /\ s2c = <<>>
  /\ cpc = "waiting" => resp = <<>>
  /\ spc \in {"ending", "free"} => ibuf = <<>>
  /\ spc \notin {"ending", "free"} =>
       /\ Len(ibuf) + Len(c2s) = sent
       /\ Part(ibuf, "req", Mine(req), 0)
       /\ Part(c2s, "req", Mine(req), Len(ibuf))

(* The request has been dealt with, in one way or the other.               *)
Told ==
  /\ Mine(req) \in handled
  /\ Mine(req) \in executed <=> req \in Sendable

Answering ==
  /\ Told
  /\ cpc = "waiting" /\ spc \notin {"ending", "free"}
  /\ ibuf = <<>> /\ c2s = <<>>
  /\ Len(resp) + Len(s2c) + Len(out) = HDR /\ Len(resp) < HDR
  /\ Part(resp, "ack", Mine(req), 0)
  /\ Part(s2c, "ack", Mine(req), Len(resp))
  /\ Part(out, "ack", Mine(req), Len(resp) + Len(s2c))

AnswerTaken ==
  /\ Told
  /\ Len(resp) = HDR /\ Part(resp, "ack", Mine(req), 0)

InOrder ==
  /\ cpc \in {"off", "ready"} => AtRest
  /\ cpc = "ready" /\ req # 0 => AnswerTaken
  /\ cpc \in {"sending", "waiting"} => req \in TxFormat /\ (Unanswered \/ Answering)
  /\ spc = "free" => ibuf = <<>> /\ out = <<>>
  /\ spc = "enter" => ibuf = <<>>
  /\ quiet => cpc \in {"off", "ready"} \/ (cpc = "sending" /\ sent = 0)

UndisturbedInv == ~disturbed => InOrder

IInv == TypeOK /\ EndsInv /\ CommandInv /\ StreamInv /\ UnmixedInv /\ UndisturbedInv

-----------------------------------------------------------------------------
(* Sizes and messages.                                                     *)

(* A request is no shorter than a header and fits the buffer.              *)
LEMMA Sizes ==
  /\ HDR \in Nat /\ HDR >= 2 /\ REQMAX \in Nat
  /\ Len(Size) \in Nat /\ DOMAIN Size = 1 .. Len(Size)
  /\ \A i \in DOMAIN Size : Size[i] \in Nat /\ HDR <= Size[i] /\ Size[i] <= REQMAX
<1>1. /\ Len(Size) \in Nat /\ DOMAIN Size = 1 .. Len(Size)
      /\ \A i \in 1 .. Len(Size) : Size[i] \in HDR .. REQMAX
  BY ProtocolAssumption, LenProperties, ElementOfSeq
<1> QED
  BY <1>1, ProtocolAssumption

(* The bytes of a request and of its acknowledgement.                      *)
LEMMA Messages ==
  ASSUME NEW r \in Reqs
  PROVE  /\ r[2] \in DOMAIN Size
         /\ Request(r) \in Seq(Bytes) /\ Len(Request(r)) = Size[r[2]]
         /\ Part(Request(r), "req", r, 0)
         /\ Ack(r) \in Seq(Bytes) /\ Len(Ack(r)) = HDR
         /\ Part(Ack(r), "ack", r, 0)
<1>1. r[2] \in DOMAIN Size /\ Size[r[2]] \in Nat /\ Size[r[2]] <= REQMAX /\ HDR \in Nat
  BY Sizes DEF Reqs
<1>2. \A k \in 1 .. Size[r[2]] : RequestByte(r, k) \in Bytes
  BY <1>1, Sizes DEF Bytes, RequestByte
<1>3. \A k \in 1 .. HDR : AckByte(r, k) \in Bytes
  BY <1>1 DEF Bytes, AckByte
<1>4. Request(r) \in Seq(Bytes) /\ Len(Request(r)) = Size[r[2]]
  BY <1>1, <1>2 DEF Request
<1>5. Ack(r) \in Seq(Bytes) /\ Len(Ack(r)) = HDR
  BY <1>1, <1>3 DEF Ack
<1>6. \A k \in 1 .. Size[r[2]] : Request(r)[k] = <<"req", r, 0 + k>>
  BY <1>1 DEF Request, RequestByte
<1>7. \A k \in 1 .. HDR : Ack(r)[k] = <<"ack", r, 0 + k>>
  BY <1>1 DEF Ack, AckByte
<1> QED
  BY <1>1, <1>4, <1>5, <1>6, <1>7 DEF Part

(* Every byte of a buffer is of a request or of a response.                *)
LEMMA BytesOf ==
  ASSUME NEW b \in Seq(Bytes), NEW k \in 1 .. Len(b)
  PROVE  /\ b[k] \in Bytes /\ b[k][2] \in Reqs /\ b[k][3] \in Nat
         /\ b[k] = <<b[k][1], b[k][2], b[k][3]>>
<1>1. b[k] \in Bytes
  BY ElementOfSeq
<1> QED
  BY <1>1, Sizes DEF Bytes

(* What passes for a header is the beginning of a request or a response,   *)
(* and the size in it is one the buffer can hold.                          *)
LEMMA HeaderRead ==
  ASSUME NEW b \in Seq(Bytes), Len(b) >= HDR, HasHeader(b)
  PROVE  /\ b[1] = <<b[1][1], Announced(b), 1>> /\ Announced(b) \in Reqs
         /\ AnnouncedSize(b) \in HDR .. REQMAX
<1>1. HDR \in Nat /\ HDR >= 2 /\ Len(b) \in Nat /\ 1 \in 1 .. Len(b) /\ 1 \in 1 .. HDR - 1
  BY Sizes, LenProperties
<1>2. b[1][2] \in Reqs /\ b[1] = <<b[1][1], b[1][2], b[1][3]>>
  BY <1>1, BytesOf
<1>3. b[1][3] = 1
  BY <1>1 DEF HasHeader, MixedHeader, Begins
<1>4. Announced(b)[2] \in DOMAIN Size
  BY <1>2 DEF Announced, Reqs
<1> QED
  BY <1>1, <1>2, <1>3, <1>4, Sizes, ProtocolAssumption DEF Announced, AnnouncedSize

(* Bytes that follow a header do not change what it says.                  *)
LEMMA HeaderStays ==
  ASSUME NEW b, NEW d, \A k \in 1 .. HDR : d[k] = b[k]
  PROVE  AnnouncedSize(d) = AnnouncedSize(b)
<1>1. HDR \in Nat /\ HDR >= 2 /\ 1 \in 1 .. HDR /\ HDR \in 1 .. HDR
      /\ \A k \in 1 .. HDR - 1 : k \in 1 .. HDR
  BY Sizes
<1>2. d[1] = b[1] /\ d[HDR] = b[HDR] /\ \A k \in 1 .. HDR - 1 : d[k] = b[k]
  BY <1>1
<1>3. MixedHeader(d) <=> MixedHeader(b)
  BY <1>2 DEF MixedHeader, Begins
<1> QED
  BY <1>2, <1>3 DEF AnnouncedSize, Announced

(* The beginning of a message is its own header.                           *)
LEMMA WholeHeader ==
  ASSUME NEW b \in Seq(Bytes), NEW kind, NEW r, Part(b, kind, r, 0), Len(b) >= HDR
  PROVE  HasHeader(b) /\ Announced(b) = r /\ AnnouncedSize(b) = Size[r[2]]
<1>1. HDR \in Nat /\ HDR >= 2 /\ Len(b) \in Nat /\ \A k \in 1 .. HDR : k \in 1 .. Len(b)
  BY Sizes, LenProperties
<1>2. \A k \in 1 .. HDR : b[k] = <<kind, r, k>>
  <2>1. \A k \in 1 .. HDR : b[k] = <<kind, r, 0 + k>> /\ 0 + k = k
    BY <1>1 DEF Part
  <2> QED
    BY <2>1
<1>3. b[1] = <<kind, r, 1>> /\ b[HDR] = <<kind, r, HDR>>
  BY <1>1, <1>2
<1>4. Begins(b, HDR)
  BY <1>2, <1>3 DEF Begins
<1>5. ~MixedHeader(b)
  BY <1>3 DEF MixedHeader
<1> QED
  BY <1>3, <1>4, <1>5 DEF HasHeader, Announced, AnnouncedSize

-----------------------------------------------------------------------------
(* What the invariant says of an undisturbed client.                       *)

(* Input that is left is of the request in progress.                       *)
LEMMA InputIsMine ==
  ASSUME IInv, ~disturbed, ibuf # <<>>
  PROVE  /\ cpc \in {"sending", "waiting"} /\ Unanswered /\ spc \notin {"ending", "free"}
         /\ req \in DOMAIN Size /\ req \in TxFormat
         /\ Announced(ibuf) = Mine(req) /\ Mine(req)[2] = req
         /\ Len(ibuf) >= 1 /\ Len(ibuf) + Len(c2s) = sent /\ sent <= Size[req]
         /\ Len(ibuf) >= HDR => AnnouncedSize(ibuf) = Size[req]
<1>1. cpc \in {"sending", "waiting"} /\ Unanswered /\ req \in TxFormat
  BY DEF IInv, TypeOK, ClientTypeOK, EndsInv, UndisturbedInv, InOrder, AtRest, Answering
<1>2. spc \notin {"ending", "free"} /\ req \in DOMAIN Size
  BY <1>1 DEF IInv, EndsInv, Unanswered
<1>3. Len(ibuf) \in Nat /\ Len(ibuf) >= 1
  BY LenProperties, EmptySeq DEF IInv, TypeOK, TaskTypeOK
<1>4. ibuf[1] = <<"req", Mine(req), 0 + 1>>
  BY <1>2, <1>1, <1>3 DEF Unanswered, Part
<1>5. Announced(ibuf) = Mine(req) /\ Mine(req)[2] = req
  BY <1>4 DEF Announced, Mine
<1>6. sent <= Size[req]
  BY <1>1, <1>2, Sizes DEF IInv, EndsInv, TypeOK, ClientTypeOK
<1>7. ASSUME Len(ibuf) >= HDR PROVE AnnouncedSize(ibuf) = Size[req]
  <2>1. ibuf \in Seq(Bytes) /\ Part(ibuf, "req", Mine(req), 0)
    BY <1>1, <1>2 DEF Unanswered, IInv, TypeOK, TaskTypeOK
  <2> QED
    BY <1>5, <1>7, <2>1, WholeHeader
<1> QED
  BY <1>1, <1>2, <1>3, <1>5, <1>6, <1>7 DEF Unanswered

(* Output that is left is of the response to it.                           *)
LEMMA OutputIsMine ==
  ASSUME IInv, ~disturbed, out # <<>> \/ (s2c # <<>> /\ cpc = "waiting")
  PROVE  Answering
BY DEF IInv, TypeOK, ClientTypeOK, EndsInv, UndisturbedInv, InOrder, AtRest, Unanswered

-----------------------------------------------------------------------------
(* Steps that leave the stream unmixed.                                    *)

(* A part of a stream runs on as the stream does.                          *)
LEMMA RunsWithin ==
  ASSUME NEW s \in Seq(Bytes), NEW t \in Seq(Bytes), NEW d \in Nat, Within(t, s, d), RunsOn(s)
  PROVE  RunsOn(t)
<1>1. Len(t) \in Nat /\ Len(s) \in Nat
  BY LenProperties
<1> SUFFICES ASSUME NEW j \in 1 .. Len(t), t[j][2][1] = conn, NEW k \in j .. Len(t),
                    t[j][3] + (k - j) <= Size[t[j][2][2]]
             PROVE  t[k] = RequestByte(t[j][2], t[j][3] + (k - j))
  BY DEF RunsOn
<1>2. k \in 1 .. Len(t) /\ (d + k) - (d + j) = k - j /\ d + k >= d + j
  BY <1>1
<1>3. t[j] = s[d + j] /\ t[k] = s[d + k] /\ d + j \in 1 .. Len(s) /\ d + k \in 1 .. Len(s)
  BY <1>2 DEF Within
<1>4. d + k \in (d + j) .. Len(s)
  BY <1>1, <1>2, <1>3
<1>5. s[d + k] = RequestByte(s[d + j][2], s[d + j][3] + ((d + k) - (d + j)))
  BY <1>2, <1>3, <1>4 DEF RunsOn
<1> QED
  BY <1>2, <1>3, <1>5

(* No byte moves, and the client goes on with what it had begun.           *)
LEMMA SameStream ==
  ASSUME UnmixedInv, Stream' = Stream, conn' = conn,
         cpc' # "off" /\ serverEnd' = "open" =>
           /\ cpc # "off" /\ serverEnd = "open"
           /\ cpc = "sending" => cpc' = "sending" /\ req' = req /\ sent' = sent
  PROVE  UnmixedInv'
BY DEF UnmixedInv, RunsOn, Unfinished, RequestByte, Mine

-----------------------------------------------------------------------------
(* Steps of the server that move no byte.                                  *)

ServerIdles ==
  \/ EnterFull \/ Enter \/ SelectReady \/ SelectTimeout
  \/ WriteNothing \/ ReadNothing \/ ReadEnd \/ CmdUnknown

(* They end the task only when an undisturbed client has nothing pending.  *)
LEMMA IdleStep ==
  ASSUME IInv, ServerIdles, UNCHANGED <<clientVars, disturbed>>
  PROVE  IInv'
<1> USE DEF ServerIdles
<1>1. UNCHANGED <<connVars, clientVars, disturbed, ibuf, out, handled, executed>>
  BY DEF EnterFull, Enter, SelectReady, SelectTimeout, WriteNothing, ReadNothing,
         ReadEnd, CmdUnknown
<1>2. TypeOK'
  BY <1>1 DEF IInv, TypeOK, TaskTypeOK, ConnTypeOK, ClientTypeOK, connVars, clientVars,
         EnterFull, Enter, SelectReady, SelectTimeout, WriteNothing, ReadNothing,
         ReadEnd, CmdUnknown, Fail, AfterRead
<1>3. EndsInv'
  <2>1. spc # "free" /\ spc' # "free"
    BY DEF EnterFull, Enter, SelectReady, SelectTimeout, WriteNothing,
           ReadNothing, ReadEnd, CmdUnknown, Fail, AfterRead
  <2> QED
    BY <1>1, <2>1 DEF IInv, EndsInv, connVars, clientVars
<1>4. CommandInv'
  BY <1>1 DEF IInv, CommandInv, HasHeader, Begins, MixedHeader, Complete,
         AnnouncedSize, Announced, connVars,
         EnterFull, Enter, SelectReady, SelectTimeout, WriteNothing, ReadNothing,
         ReadEnd, CmdUnknown, Fail, AfterRead, Readable, Writable
<1>5. StreamInv'
  BY <1>1 DEF IInv, StreamInv, Stream, Once, Written, RequestByte, connVars, clientVars
<1>6. UndisturbedInv'
  <2> SUFFICES ASSUME ~disturbed PROVE InOrder'
    BY <1>1 DEF UndisturbedInv
  <2>1. InOrder
    BY DEF IInv, UndisturbedInv
  <2>2. CASE spc' \notin {"ending", "free", "enter"} /\ spc \notin {"ending", "free"}
    BY <1>1, <2>1, <2>2 DEF InOrder, AtRest, Unanswered, Answering, AnswerTaken, Part, Told, Mine,
           connVars, clientVars
  <2>3. CASE spc' = "ending" /\ ibuf = <<>> /\ out = <<>> /\ ~Answering
    BY <1>1, <2>1, <2>3 DEF InOrder, AtRest, Unanswered, AnswerTaken, Part, Told, Mine,
           connVars, clientVars
  <2>4. CASE EnterFull
    <3>1. ~Answering
      <4> SUFFICES ASSUME Answering PROVE FALSE
        OBVIOUS
      <4>1. Len(ibuf) = 0 /\ Len(ibuf) = REQMAX
        BY <2>4 DEF EnterFull, Answering
      <4> QED
        BY <4>1, Sizes DEF Answering, IInv, EndsInv
    <3>2. ibuf = <<>> /\ out = <<>>
      BY <2>1, <2>4, <3>1 DEF EnterFull, InOrder, AtRest, Unanswered,
             IInv, TypeOK, ClientTypeOK, EndsInv
    <3> QED
      BY <2>3, <2>4, <3>1, <3>2 DEF EnterFull, Fail
  <2>5. CASE SelectTimeout
    <3>1. cpc \in {"off", "ready"} \/ (cpc = "sending" /\ sent = 0)
      BY <2>1, <2>5 DEF SelectTimeout, InOrder
    <3>2. out = <<>> /\ ~Answering
      BY <2>5, <3>1 DEF SelectTimeout, Writable, Answering
    <3>3. ibuf = <<>>
      <4>1. CASE cpc \in {"off", "ready"}
        BY <2>1, <4>1 DEF InOrder, AtRest
      <4>2. CASE cpc = "sending" /\ sent = 0
        <5>1. Len(ibuf) + Len(c2s) = 0
          BY <2>1, <2>5, <3>2, <4>2 DEF InOrder, Unanswered, SelectTimeout
        <5>2. ibuf \in Seq(Bytes) /\ Len(ibuf) \in Nat /\ Len(c2s) \in Nat
          BY LenProperties DEF IInv, TypeOK, TaskTypeOK, ConnTypeOK
        <5> QED
          BY <5>1, <5>2, EmptySeq
      <4> QED
        BY <3>1, <4>1, <4>2
    <3> QED
      BY <2>3, <2>5, <3>2, <3>3 DEF SelectTimeout, Fail
  <2>6. CASE ReadEnd
    <3>1. cpc = "off"
      BY <2>6 DEF ReadEnd, IInv, CommandInv, EndsInv
    <3> QED
      BY <2>1, <2>3, <2>6, <3>1 DEF ReadEnd, Fail, InOrder, AtRest, Answering
  <2>7. CASE CmdUnknown
    <3>1. ibuf # <<>>
      BY <2>7, Sizes DEF CmdUnknown, IInv, CommandInv
    <3> QED
      BY <2>7, <3>1, InputIsMine DEF CmdUnknown
  <2>8. CASE Enter \/ SelectReady \/ WriteNothing \/ ReadNothing
    BY <2>2, <2>8 DEF Enter, SelectReady, WriteNothing, ReadNothing, AfterRead
  <2> QED
    BY <2>4, <2>5, <2>6, <2>7, <2>8
<1>7. UnmixedInv'
  BY <1>1, SameStream DEF IInv, Stream, connVars, clientVars
<1> QED
  BY <1>2, <1>3, <1>4, <1>5, <1>6, <1>7 DEF IInv

(* A call fails: within a request the connection is disturbed by that, and *)
(* between two of them nothing is pending.                                 *)
LEMMA ErrorStep ==
  ASSUME IInv, TaskFails, disturbed' = (disturbed \/ InRequest), UNCHANGED clientVars
  PROVE  IInv'
<1>1. /\ UNCHANGED <<connVars, clientVars, ibuf, out, handled, executed>>
      /\ spc \in {"select", "write", "read"} /\ spc' = "ending" /\ received' = FALSE
      /\ ready' \in {ready, {}}
  BY DEF TaskFails, SelectFails, WriteFails, ReadFails, Fail
<1>2. TypeOK'
  <2>1. disturbed' \in BOOLEAN
    BY Zenon
  <2> QED
    BY <1>1, <2>1 DEF IInv, TypeOK, TaskTypeOK, ConnTypeOK, ClientTypeOK, connVars, clientVars
<1>3. EndsInv'
  BY <1>1 DEF IInv, EndsInv, connVars, clientVars
<1>4. CommandInv'
  BY <1>1 DEF CommandInv
<1>5. StreamInv'
  BY <1>1 DEF IInv, StreamInv, Stream, Once, Written, RequestByte, connVars, clientVars
<1>6. UnmixedInv'
  BY <1>1, SameStream DEF IInv, Stream, connVars, clientVars
<1>7. UndisturbedInv'
  <2> SUFFICES ASSUME ~disturbed' PROVE InOrder'
    BY DEF UndisturbedInv
  <2>1. InOrder /\ cpc \in {"off", "ready"}
    BY <1>1 DEF IInv, UndisturbedInv, InRequest, TypeOK, ClientTypeOK, EndsInv
  <2> QED
    BY <1>1, <2>1 DEF InOrder, AtRest, AnswerTaken, Part, Told, Mine, connVars, clientVars
<1> QED
  BY <1>2, <1>3, <1>4, <1>5, <1>6, <1>7 DEF IInv

-----------------------------------------------------------------------------
(* Steps of the server that move bytes.                                    *)

(* Some of the response goes to the client.                                *)
LEMMA WriteStep ==
  ASSUME IInv, WriteSome, UNCHANGED <<clientVars, disturbed>>
  PROVE  IInv'
<1>1. PICK n \in 1 .. Len(out) :
        out' = Drop(out, n) /\ s2c' = IF clientEnd = "open" THEN s2c \o Take(out, n) ELSE s2c
  BY DEF WriteSome
<1>2. /\ spc = "write" /\ spc' = "read"
      /\ UNCHANGED <<conn, c2s, clientEnd, serverEnd, quiet, ibuf, received, ready, handled, executed>>
      /\ UNCHANGED <<clientVars, disturbed>>
  BY DEF WriteSome
<1>3. out \in Seq(Bytes) /\ s2c \in Seq(Bytes) /\ Len(out) <= HDR
  BY DEF IInv, TypeOK, TaskTypeOK, ConnTypeOK
<1>4. Len(out) \in Nat /\ Len(s2c) \in Nat /\ n \in 0 .. Len(out) /\ HDR \in Nat
  BY <1>3, LenProperties, Sizes
<1>5. /\ Take(out, n) \in Seq(Bytes) /\ Len(Take(out, n)) = n
      /\ Drop(out, n) \in Seq(Bytes) /\ Len(Drop(out, n)) = Len(out) - n
  BY <1>3, <1>4, TakeDrop
<1>6. /\ s2c \o Take(out, n) \in Seq(Bytes)
      /\ Len(s2c \o Take(out, n)) = Len(s2c) + n
  BY <1>3, <1>5, ConcatProperties
<1>7. TypeOK'
  <2>1. out' \in Seq(Bytes) /\ Len(out') <= HDR /\ s2c' \in Seq(Bytes)
    BY <1>1, <1>3, <1>4, <1>5, <1>6
  <2> QED
    BY <1>2, <2>1 DEF IInv, TypeOK, TaskTypeOK, ConnTypeOK, ClientTypeOK, clientVars
<1>8. EndsInv'
  BY <1>2 DEF IInv, EndsInv, clientVars
<1>9. CommandInv'
  BY <1>2 DEF IInv, CommandInv, HasHeader, Begins, MixedHeader, Complete, AnnouncedSize,
         Announced
<1>10. StreamInv'
  BY <1>2 DEF IInv, StreamInv, Stream, Once, Written, RequestByte, clientVars
<1>11. UndisturbedInv'
  <2> SUFFICES ASSUME ~disturbed PROVE InOrder'
    BY <1>2 DEF UndisturbedInv
  <2>1. Answering /\ InOrder
    BY <1>2, OutputIsMine DEF WriteSome, IInv, CommandInv, UndisturbedInv
  <2>2. clientEnd = "open" /\ s2c' = s2c \o Take(out, n) /\ out' = Drop(out, n)
    BY <1>1, <2>1 DEF Answering, IInv, EndsInv
  <2>3. Len(resp) \in Nat /\ Len(s2c') = Len(s2c) + n /\ Len(out') = Len(out) - n
    <3>1. Len(resp) \in Nat
      BY LenProperties DEF IInv, TypeOK, ClientTypeOK
    <3>2. Len(s2c') = Len(s2c) + n /\ Len(out') = Len(out) - n
      BY <1>5, <1>6, <2>2, Zenon
    <3> QED
      BY <3>1, <3>2
  <2>4. Part(s2c', "ack", Mine(req), Len(resp))
    <3>1. Part(Take(out, n), "ack", Mine(req), Len(resp) + Len(s2c))
      BY <1>3, <1>4, <2>1, <2>3, PartOfPart DEF Answering
    <3> QED
      BY <1>3, <1>5, <2>1, <2>2, <2>3, <3>1, PartsJoined DEF Answering
  <2>5. Part(out', "ack", Mine(req), Len(resp) + Len(s2c'))
    <3>1. Part(Drop(out, n), "ack", Mine(req), (Len(resp) + Len(s2c)) + n)
      BY <1>3, <1>4, <2>1, <2>3, PartOfPart DEF Answering
    <3>2. (Len(resp) + Len(s2c)) + n = Len(resp) + Len(s2c')
      BY <1>4, <2>3
    <3> QED
      BY <2>2, <3>1, <3>2
  <2>6. Len(resp) + Len(s2c') + Len(out') = HDR
    BY <1>4, <2>1, <2>3 DEF Answering
  <2>7. Answering'
    BY <1>2, <2>1, <2>4, <2>5, <2>6 DEF Answering, Part, Told, Mine, clientVars
  <2> QED
    BY <1>2, <2>1, <2>7 DEF InOrder, Answering, clientVars
<1>12. UnmixedInv'
  BY <1>2, SameStream DEF IInv, Stream, clientVars
<1> QED
  BY <1>7, <1>8, <1>9, <1>10, <1>11, <1>12 DEF IInv

(* Some of what is under way arrives.                                      *)
LEMMA ReadStep ==
  ASSUME IInv, ReadSome, UNCHANGED <<clientVars, disturbed>>
  PROVE  IInv'
<1> DEFINE buf(n) == ibuf \o Take(c2s, n)
<1>1. PICK n \in 1 .. Len(c2s) :
        /\ n <= REQMAX - Len(ibuf) /\ c2s' = Drop(c2s, n) /\ ibuf' = buf(n)
        /\ IF Len(buf(n)) < HDR THEN AfterRead(received)
           ELSE IF ~HasHeader(buf(n)) THEN Fail ELSE AfterRead(received \/ Complete(buf(n)))
  BY DEF ReadSome
<1>2. /\ spc = "read" /\ "read" \in ready /\ ready' = {}
      /\ UNCHANGED <<conn, s2c, clientEnd, serverEnd, quiet, out, handled, executed>>
      /\ UNCHANGED <<clientVars, disturbed>>
  BY DEF ReadSome
<1>3. ibuf \in Seq(Bytes) /\ c2s \in Seq(Bytes) /\ received \in BOOLEAN
  BY DEF IInv, TypeOK, TaskTypeOK, ConnTypeOK
<1>4. /\ Len(ibuf) \in Nat /\ Len(c2s) \in Nat /\ n \in 0 .. Len(c2s)
      /\ HDR \in Nat /\ HDR >= 2 /\ REQMAX \in Nat
  BY <1>3, LenProperties, Sizes
<1>5. /\ Take(c2s, n) \in Seq(Bytes) /\ Len(Take(c2s, n)) = n
      /\ Drop(c2s, n) \in Seq(Bytes) /\ Len(Drop(c2s, n)) = Len(c2s) - n
  BY <1>3, <1>4, TakeDrop
<1>6. /\ buf(n) \in Seq(Bytes) /\ Len(buf(n)) = Len(ibuf) + n
      /\ \A k \in 1 .. Len(ibuf) + n :
           buf(n)[k] = IF k <= Len(ibuf) THEN ibuf[k] ELSE Take(c2s, n)[k - Len(ibuf)]
  BY <1>3, <1>5, ConcatProperties
<1>7. Stream' = Stream
  BY <1>1, <1>3, <1>4, MovedBytes DEF Stream
<1> HIDE DEF buf
<1>8. /\ ibuf' \in Seq(Bytes) /\ Len(ibuf') = Len(ibuf) + n /\ Len(ibuf') <= REQMAX
      /\ \A k \in 1 .. Len(ibuf) : ibuf'[k] = ibuf[k]
      /\ c2s' \in Seq(Bytes) /\ Len(c2s') = Len(c2s) - n
  BY <1>1, <1>4, <1>5, <1>6
<1>9. \/ Len(ibuf') < HDR /\ AfterRead(received)
      \/ Len(ibuf') >= HDR /\ ~HasHeader(ibuf') /\ Fail
      \/ Len(ibuf') >= HDR /\ HasHeader(ibuf') /\ AfterRead(received \/ Complete(ibuf'))
  BY <1>1, <1>4, <1>8
<1>10. received => Len(ibuf) >= HDR /\ HasHeader(ibuf) /\ Complete(ibuf)
  BY DEF IInv, CommandInv
<1>11. /\ spc' \in {"ending", "select", "command"} /\ received' \in BOOLEAN
       /\ spc' = "command" => received' /\ out' = <<>>
       /\ spc' = "ending" => ~received' /\ Len(ibuf') >= HDR /\ ~HasHeader(ibuf')
       /\ received' => Len(ibuf') >= HDR /\ HasHeader(ibuf') /\ (received \/ Complete(ibuf'))
  <2>1. CASE Len(ibuf') < HDR /\ AfterRead(received)
    BY <1>2, <1>3, <1>4, <1>8, <1>10, <2>1 DEF AfterRead
  <2>2. CASE Len(ibuf') >= HDR /\ ~HasHeader(ibuf') /\ Fail
    BY <2>2 DEF Fail
  <2>3. CASE Len(ibuf') >= HDR /\ HasHeader(ibuf') /\ AfterRead(received \/ Complete(ibuf'))
    BY <1>2, <2>3, Zenon DEF AfterRead
  <2> QED
    BY <1>9, <2>1, <2>2, <2>3
<1>12. received => Complete(ibuf')
  <2> SUFFICES ASSUME received PROVE Complete(ibuf')
    OBVIOUS
  <2>1. Len(ibuf) >= AnnouncedSize(ibuf) /\ AnnouncedSize(ibuf) \in HDR .. REQMAX
    BY <1>3, <1>10, HeaderRead DEF Complete
  <2>2. \A k \in 1 .. HDR : ibuf'[k] = ibuf[k]
    BY <1>4, <1>8, <1>10
  <2>3. AnnouncedSize(ibuf') = AnnouncedSize(ibuf)
    BY <2>2, HeaderStays
  <2> QED
    BY <1>4, <1>8, <2>1, <2>3 DEF Complete
<1>13. TypeOK'
  BY <1>2, <1>8, <1>11 DEF IInv, TypeOK, TaskTypeOK, ConnTypeOK, ClientTypeOK, clientVars
<1>14. EndsInv'
  BY <1>2, <1>11 DEF IInv, EndsInv, clientVars
<1>15. CommandInv'
  BY <1>2, <1>11, <1>12 DEF CommandInv
<1>16. StreamInv'
  BY <1>2, <1>7 DEF IInv, StreamInv, Once, Written, RequestByte, clientVars
<1>17. UndisturbedInv'
  <2> SUFFICES ASSUME ~disturbed PROVE InOrder'
    BY <1>2 DEF UndisturbedInv
  <2>1. InOrder /\ c2s # <<>>
    BY <1>3, <1>4, EmptySeq DEF IInv, UndisturbedInv
  <2>2. cpc \in {"sending", "waiting"} /\ Unanswered
    BY <1>2, <2>1 DEF InOrder, AtRest, Answering, IInv, TypeOK, ClientTypeOK, EndsInv
  <2>3. /\ Len(ibuf) + Len(c2s) = sent
        /\ Part(ibuf, "req", Mine(req), 0) /\ Part(c2s, "req", Mine(req), Len(ibuf))
    BY <1>2, <2>2 DEF Unanswered
  <2>4. Part(ibuf', "req", Mine(req), 0)
    <3>1. Part(Take(c2s, n), "req", Mine(req), 0 + Len(ibuf))
      BY <1>3, <1>4, <2>3, PartOfPart
    <3> QED
      BY <1>1, <1>3, <1>5, <2>3, <3>1, PartsJoined DEF buf
  <2>5. Part(c2s', "req", Mine(req), Len(ibuf'))
    <3>1. Part(Drop(c2s, n), "req", Mine(req), Len(ibuf) + n)
      BY <1>3, <1>4, <2>3, PartOfPart
    <3> QED
      BY <1>1, <1>8, <3>1
  <2>6. Len(ibuf') + Len(c2s') = sent
    BY <1>4, <1>8, <2>3
  <2>7. Len(ibuf') >= HDR => HasHeader(ibuf')
    BY <1>8, <2>4, WholeHeader
  <2>8. spc' \in {"select", "command"}
    BY <1>11, <2>7
  <2>9. Unanswered'
    BY <1>2, <2>2, <2>4, <2>5, <2>6, <2>8 DEF Unanswered, Part, Told, Mine, clientVars
  <2> QED
    BY <1>2, <2>1, <2>2, <2>8, <2>9 DEF InOrder, clientVars
<1>18. UnmixedInv'
  BY <1>2, <1>7, SameStream DEF IInv, clientVars
<1> QED
  BY <1>13, <1>14, <1>15, <1>16, <1>17, <1>18 DEF IInv

(* The request is dealt with and its acknowledgement made up.              *)
LEMMA CommandStep ==
  ASSUME IInv, CmdTxFormat, UNCHANGED <<connVars, clientVars, disturbed>>
  PROVE  IInv'
<1> DEFINE r == Announced(ibuf)
           n == AnnouncedSize(ibuf)
<1>1. /\ spc = "command" /\ r[2] \in TxFormat /\ handled' = handled \cup {r}
      /\ ibuf' = Drop(ibuf, n) /\ out' = Ack(r)
      /\ spc' = "enter" /\ received' = FALSE /\ UNCHANGED ready
      /\ executed' \in {executed, executed \cup {r}}
      /\ Intact(r) /\ r \notin executed => (r \in executed' <=> r[2] \in Sendable)
  <2>1. PICK sends \in Transmits(r) : executed' = IF sends THEN executed \cup {r} ELSE executed
    BY DEF CmdTxFormat
  <2>2. sends \in BOOLEAN /\ (Intact(r) => (sends <=> r[2] \in Sendable))
    BY DEF Transmits
  <2>3. executed' \in {executed, executed \cup {r}}
    BY <2>1, <2>2
  <2>4. r \notin executed => (r \in executed' <=> sends)
    BY <2>1, <2>2
  <2> QED
    BY <2>2, <2>3, <2>4 DEF CmdTxFormat, Rest, Response
<1>2. UNCHANGED <<connVars, clientVars, disturbed>>
  OBVIOUS
<1>3. ibuf \in Seq(Bytes) /\ c2s \in Seq(Bytes) /\ Len(ibuf) <= REQMAX
  BY DEF IInv, TypeOK, TaskTypeOK, ConnTypeOK
<1>4. /\ Len(ibuf) \in Nat /\ Len(c2s) \in Nat /\ HDR \in Nat /\ HDR >= 2
      /\ Len(ibuf) >= HDR /\ HasHeader(ibuf) /\ Len(ibuf) >= n
  BY <1>1, <1>3, LenProperties, Sizes DEF IInv, CommandInv, Complete
<1>5. ibuf[1] \in Bytes /\ r \in Reqs /\ ibuf[1] = <<ibuf[1][1], r, 1>>
  <2>1. 1 \in 1 .. Len(ibuf)
    BY <1>4
  <2> QED
    BY <1>3, <1>4, <2>1, BytesOf, HeaderRead
<1>6. n \in Nat /\ n >= 1 /\ n \in 0 .. Len(ibuf)
  <2>1. n \in HDR .. REQMAX
    BY <1>3, <1>4, HeaderRead
  <2> QED
    BY <1>3, <1>4, <2>1, Sizes
<1>7. /\ Drop(ibuf, n) \in Seq(Bytes) /\ Len(Drop(ibuf, n)) = Len(ibuf) - n
      /\ Ack(r) \in Seq(Bytes) /\ Len(Ack(r)) = HDR /\ Part(Ack(r), "ack", r, 0)
  BY <1>3, <1>5, <1>6, TakeDrop, Messages
<1> HIDE DEF r, n
<1>8. /\ ibuf' \in Seq(Bytes) /\ Len(ibuf') = Len(ibuf) - n
      /\ out' \in Seq(Bytes) /\ Len(out') = HDR /\ Part(out', "ack", r, 0)
  BY <1>1, <1>7
<1>9. TypeOK'
  <2>1. Len(ibuf') <= REQMAX
    BY <1>3, <1>4, <1>6, <1>8, Sizes
  <2>2. handled' \subseteq Reqs /\ executed' \subseteq handled'
    BY <1>1, <1>5 DEF IInv, TypeOK, TaskTypeOK
  <2>3. Len(out') <= HDR
    BY <1>4, <1>8
  <2>4. TaskTypeOK'
    BY <1>1, <1>8, <2>1, <2>2, <2>3 DEF IInv, TypeOK, TaskTypeOK
  <2> QED
    BY <1>2, <2>4 DEF IInv, TypeOK, ConnTypeOK, ClientTypeOK, connVars, clientVars
<1>10. EndsInv'
  BY <1>1, <1>2 DEF IInv, EndsInv, connVars, clientVars
<1>11. CommandInv'
  BY <1>1 DEF CommandInv
<1>12. StreamInv'
  <2> DEFINE s == Stream
             t == Stream'
  <2>1. s \in Seq(Bytes) /\ t \in Seq(Bytes) /\ Within(t, s, n) /\ Len(s) = Len(ibuf) + Len(c2s)
        /\ s[1] = ibuf[1]
    <3>1. c2s' = c2s
      BY <1>2 DEF connVars
    <3>2. Within(t, s, n)
      BY <1>1, <1>3, <1>6, <3>1, Shortened DEF Stream
    <3>3. t \in Seq(Bytes)
      BY <1>3, <1>8, <3>1, ConcatProperties DEF Stream
    <3>4. s \in Seq(Bytes) /\ Len(s) = Len(ibuf) + Len(c2s)
          /\ \A k \in 1 .. Len(ibuf) + Len(c2s) : s[k] = IF k <= Len(ibuf) THEN ibuf[k] ELSE c2s[k - Len(ibuf)]
      BY <1>3, ConcatProperties DEF Stream
    <3>5. s[1] = ibuf[1]
      BY <1>4, <3>4
    <3> QED
      BY <3>2, <3>3, <3>4, <3>5
  <2>2. /\ Once(s)
        /\ \A k \in 1 .. Len(s) : s[k][1] = "req"
        /\ cpc # "off" => \A k \in 1 .. Len(s) : Written(s[k][2], s[k][3])
        /\ \A x \in handled : \A k \in 1 .. Len(s) : s[k] # RequestByte(x, 1)
        /\ cpc # "off" => \A x \in handled : Written(x, 1)
    BY DEF IInv, StreamInv
  <2> HIDE DEF s, t
  <2>3. 1 \in 1 .. Len(s) /\ s[1] = RequestByte(r, 1)
    BY <1>4, <1>5, <2>1, <2>2 DEF RequestByte
  <2>4. \A k \in 1 .. Len(t) : n + k \in 1 .. Len(s) /\ t[k] = s[n + k]
    BY <2>1 DEF Within
  <2>5. Once(t)
    BY <1>6, <2>1, <2>2, OnceWithin
  <2>6. \A k \in 1 .. Len(t) : t[k][1] = "req"
    BY <2>2, <2>4
  <2>7. cpc # "off" => \A k \in 1 .. Len(t) : Written(t[k][2], t[k][3])
    BY <2>2, <2>4
  <2>8. \A x \in handled' : \A k \in 1 .. Len(t) : t[k] # RequestByte(x, 1)
    <3> SUFFICES ASSUME NEW k \in 1 .. Len(t), t[k] = RequestByte(r, 1) PROVE FALSE
      BY <1>1, <2>2, <2>4
    <3>1. n + k = 1
      BY <2>2, <2>3, <2>4 DEF Once
    <3> QED
      BY <1>6, <3>1
  <2>9. cpc # "off" => Written(r, 1)
    BY <2>2, <2>3 DEF RequestByte
  <2> QED
    BY <1>1, <1>2, <2>2, <2>5, <2>6, <2>7, <2>8, <2>9
    DEF StreamInv, Written, connVars, clientVars, t
<1>13. UnmixedInv'
  <2> DEFINE s == Stream
             t == Stream'
  <2>1. s \in Seq(Bytes) /\ t \in Seq(Bytes) /\ Within(t, s, n)
        /\ Len(s) \in Nat /\ Len(t) = Len(s) - n
    <3>1. c2s' = c2s
      BY <1>2 DEF connVars
    <3>2. Within(t, s, n)
      BY <1>1, <1>3, <1>6, <3>1, Shortened DEF Stream
    <3>3. t \in Seq(Bytes) /\ Len(t) = Len(ibuf') + Len(c2s)
      BY <1>3, <1>8, <3>1, ConcatProperties DEF Stream
    <3>4. s \in Seq(Bytes) /\ Len(s) = Len(ibuf) + Len(c2s)
      BY <1>3, ConcatProperties DEF Stream
    <3> QED
      BY <1>4, <1>6, <1>8, <3>2, <3>3, <3>4
  <2>2. UnmixedInv
    BY DEF IInv
  <2> HIDE DEF s, t
  <2>3. RunsOn(t)
    BY <1>6, <2>1, <2>2, RunsWithin DEF UnmixedInv, s
  <2>4. ASSUME t # <<>> PROVE s # <<>> /\ t[Len(t)] = s[Len(s)]
    <3>1. Len(t) \in 1 .. Len(t)
      BY <2>1, <2>4, EmptySeq, LenProperties
    <3>2. n + Len(t) \in 1 .. Len(s) /\ t[Len(t)] = s[n + Len(t)] /\ n + Len(t) = Len(s)
      BY <1>6, <2>1, <3>1 DEF Within
    <3> QED
      BY <3>2
  <2>5. UNCHANGED <<conn, cpc, serverEnd, req, sent>>
    BY <1>2 DEF connVars, clientVars
  <2> QED
    BY <2>2, <2>3, <2>4, <2>5 DEF UnmixedInv, Unfinished, RunsOn, Mine, RequestByte, s, t
<1>14. UndisturbedInv'
  <2> SUFFICES ASSUME ~disturbed PROVE InOrder'
    BY <1>2 DEF UndisturbedInv
  <2>1. InOrder
    BY DEF IInv, UndisturbedInv
  <2>2. ibuf # <<>>
    BY <1>4
  <2>3. /\ cpc \in {"sending", "waiting"} /\ Unanswered /\ req \in DOMAIN Size /\ req \in TxFormat
        /\ r = Mine(req) /\ n = Size[req] /\ Len(ibuf) + Len(c2s) = sent /\ sent <= Size[req]
        /\ r[2] = req
    BY <1>4, <2>2, InputIsMine DEF r, n
  <2>4. Len(ibuf') = 0 /\ Len(c2s) = 0 /\ sent = Size[req]
    BY <1>4, <1>6, <1>8, <2>3
  <2>5. ibuf' = <<>> /\ c2s = <<>> /\ cpc = "waiting"
    BY <1>3, <1>4, <1>6, <1>8, <2>3, <2>4, EmptySeq DEF IInv, EndsInv
  <2>6. resp = <<>> /\ s2c = <<>> /\ Len(resp) = 0 /\ Len(s2c) = 0
    BY <2>3, <2>5 DEF Unanswered
  <2>7. Part(resp, "ack", Mine(req), 0) /\ Part(s2c, "ack", Mine(req), Len(resp))
    BY <2>6 DEF Part
  <2>8. Part(out', "ack", Mine(req), Len(resp) + Len(s2c))
    BY <1>8, <2>3, <2>6
  <2>9. Intact(r)
    <3> DEFINE q == Request(r)
               p == Take(ibuf, n)
    <3>1. p \in Seq(Bytes) /\ Len(p) = n /\ Part(p, "req", r, 0)
      BY <1>3, <1>6, <2>3, <1>4, TakeDrop, PartOfPart DEF Unanswered
    <3>2. q \in Seq(Bytes) /\ Len(q) = n /\ Part(q, "req", r, 0)
      BY <1>5, <2>3, Messages
    <3> HIDE DEF p, q
    <3>3. p = q
      BY <3>1, <3>2, SeqEqual DEF Part
    <3> QED
      BY <1>4, <2>3, <3>3 DEF Intact, p, q
  <2>10. Answering'
    <3>1. /\ UNCHANGED <<cpc, resp, s2c, c2s>> /\ Mine(req)' = Mine(req)
          /\ spc' = "enter" /\ Told'
      <4>1. r \notin executed
        BY <2>3 DEF Unanswered, IInv, TypeOK, TaskTypeOK
      <4> QED
        BY <1>1, <1>2, <2>3, <2>9, <4>1 DEF Told, Mine, connVars, clientVars
    <3>2. Len(resp) + Len(s2c) + Len(out') = HDR /\ Len(resp) < HDR
      BY <1>4, <1>8, <2>6
    <3> QED
      BY <2>5, <2>7, <2>8, <3>1, <3>2 DEF Answering, Part
  <2> QED
    BY <1>1, <1>2, <2>1, <2>3, <2>5, <2>10 DEF InOrder, connVars, clientVars
<1> QED
  BY <1>9, <1>10, <1>11, <1>12, <1>14, <1>13 DEF IInv

(* The task closes its side and the slot is free.                          *)
LEMMA EndStep ==
  ASSUME IInv, EndTask, UNCHANGED <<clientVars, disturbed>>
  PROVE  IInv'
<1>1. /\ spc = "ending" /\ spc' = "free" /\ serverEnd' = "closed" /\ c2s' = <<>>
      /\ UNCHANGED <<conn, s2c, clientEnd, quiet, ibuf, out, received, ready, handled, executed>>
      /\ UNCHANGED <<clientVars, disturbed>>
  BY DEF EndTask, HangUp
<1>2. ibuf \in Seq(Bytes) /\ c2s \in Seq(Bytes)
  BY DEF IInv, TypeOK, TaskTypeOK, ConnTypeOK
<1>3. TypeOK'
  BY <1>1 DEF IInv, TypeOK, TaskTypeOK, ConnTypeOK, ClientTypeOK, clientVars
<1>4. EndsInv'
  BY <1>1 DEF IInv, EndsInv, clientVars
<1>5. CommandInv'
  BY <1>1 DEF IInv, CommandInv
<1>6. StreamInv'
  <2> DEFINE s == Stream
  <2>1. Stream' = ibuf
    BY <1>1, <1>2, ConcatEmptySeq DEF Stream
  <2>2. s \in Seq(Bytes) /\ Within(ibuf, s, 0)
    <3>1. Len(ibuf) \in Nat /\ 0 \in 0 .. Len(ibuf)
      BY <1>2, LenProperties
    <3> QED
      BY <1>2, <3>1, Shortened, ConcatProperties DEF Stream
  <2>3. StreamInv
    BY DEF IInv
  <2>4. Once(ibuf)
    BY <1>2, <2>2, <2>3, OnceWithin DEF StreamInv
  <2>5. \A k \in 1 .. Len(ibuf) : k \in 1 .. Len(s) /\ ibuf[k] = s[k]
    BY <2>2 DEF Within
  <2> QED
    BY <1>1, <2>1, <2>3, <2>4, <2>5 DEF StreamInv, Once, Written, RequestByte, clientVars
<1>7. UnmixedInv'
  <2>1. Stream' = ibuf
    BY <1>1, <1>2, ConcatEmptySeq DEF Stream
  <2>2. RunsOn(ibuf)
    <3>1. Len(ibuf) \in Nat /\ 0 \in 0 .. Len(ibuf)
      BY <1>2, LenProperties
    <3>2. Stream \in Seq(Bytes) /\ Within(ibuf, Stream, 0)
      BY <1>2, <3>1, Shortened, ConcatProperties DEF Stream
    <3> QED
      BY <1>2, <3>2, RunsWithin DEF IInv, UnmixedInv
  <2> QED
    BY <1>1, <2>1, <2>2 DEF UnmixedInv, RunsOn, RequestByte
<1>8. UndisturbedInv'
  BY <1>1 DEF IInv, UndisturbedInv, InOrder, AtRest, Unanswered, Answering, AnswerTaken,
         Part, Told, Mine, clientVars, EndsInv, TypeOK, ClientTypeOK
<1> QED
  BY <1>3, <1>4, <1>5, <1>6, <1>8, <1>7 DEF IInv

-----------------------------------------------------------------------------
(* Steps of the client.                                                    *)

(* The next request is begun.                                              *)
LEMMA BeginStep ==
  ASSUME IInv, IrsSendRequest, UNCHANGED taskVars,
         disturbed' = (disturbed \/ req' \notin TxFormat \cup {0})
  PROVE  IInv'
<1>1. /\ cpc = "ready" /\ cpc' = "sending" /\ req' = req + 1 /\ req' \in DOMAIN Size /\ sent' = 0
      /\ UNCHANGED <<connVars, resp>> /\ UNCHANGED taskVars
  BY DEF IrsSendRequest
<1>2. /\ req' \in Nat /\ req \in Nat /\ req' # 0 /\ Size[req'] \in Nat /\ Size[req'] >= 1
      /\ REQMAX \in Nat
  BY <1>1, Sizes DEF IInv, TypeOK, ClientTypeOK
<1>3. TypeOK'
  <2>1. disturbed' \in BOOLEAN
    BY Zenon
  <2> QED
    BY <1>1, <1>2, <2>1 DEF IInv, TypeOK, TaskTypeOK, ConnTypeOK, ClientTypeOK, connVars, taskVars
<1>4. EndsInv'
  BY <1>1, <1>2 DEF IInv, EndsInv, connVars, taskVars
<1>5. CommandInv'
  BY <1>1 DEF IInv, CommandInv, HasHeader, Begins, MixedHeader, Complete,
         AnnouncedSize, Announced, connVars, taskVars
<1>6. ASSUME NEW x \in Reqs, NEW k, Written(x, k) PROVE Written(x, k)'
  BY <1>1, <1>2, <1>6, Sizes DEF Written, Reqs, connVars
<1>7. StreamInv'
  <2>1. Stream \in Seq(Bytes) /\ Stream' = Stream /\ handled' = handled /\ handled \subseteq Reqs
    BY <1>1, ConcatProperties
    DEF IInv, TypeOK, TaskTypeOK, ConnTypeOK, Stream, connVars, taskVars
  <2>2. \A k \in 1 .. Len(Stream) : Stream[k][2] \in Reqs
    BY <2>1, BytesOf
  <2>3. StreamInv
    BY DEF IInv
  <2>4. \A k \in 1 .. Len(Stream) : Written(Stream[k][2], Stream[k][3])'
    BY <1>1, <1>6, <2>1, <2>2, <2>3 DEF StreamInv
  <2>5. \A x \in handled : Written(x, 1)'
    BY <1>1, <1>6, <2>1, <2>3 DEF StreamInv
  <2> QED
    BY <1>1, <2>1, <2>3, <2>4, <2>5 DEF StreamInv, Once, RequestByte
<1>8. UndisturbedInv'
  <2> SUFFICES ASSUME ~disturbed' PROVE InOrder'
    BY DEF UndisturbedInv
  <2>1. InOrder /\ req' \in TxFormat
    BY <1>2 DEF IInv, UndisturbedInv
  <2>2. AtRest
    BY <1>1, <2>1 DEF InOrder
  <2>3. Mine(req)' \notin handled
    BY <1>1, <1>2 DEF IInv, StreamInv, Written, Mine, connVars
  <2>4. Unanswered'
    BY <1>1, <2>2, <2>3 DEF Unanswered, AtRest, Part, Told, Mine, connVars, taskVars
  <2> QED
    BY <1>1, <2>1, <2>4 DEF InOrder, connVars, taskVars
<1>9. UnmixedInv'
  BY <1>1, SameStream DEF IInv, Stream, connVars, taskVars
<1> QED
  BY <1>3, <1>4, <1>5, <1>7, <1>8, <1>9 DEF IInv

(* Some of the request is written.                                         *)
LEMMA SendStep ==
  ASSUME IInv, ClientWrite, UNCHANGED taskVars,
         disturbed' = (disturbed \/ req' \notin TxFormat \cup {0})
  PROVE  IInv'
<1> DEFINE m == Mine(req)
           chunk(n) == SubSeq(Request(m), sent + 1, sent + n)
<1>1. PICK n \in 1 .. Size[req] - sent :
        /\ c2s' = IF serverEnd = "open" THEN c2s \o chunk(n) ELSE c2s
        /\ sent' = sent + n
        /\ cpc' = IF sent + n = Size[req] THEN "waiting" ELSE "sending"
        /\ resp' = IF sent + n = Size[req] THEN <<>> ELSE resp
  BY DEF ClientWrite, RespAfter
<1>2. /\ cpc = "sending" /\ quiet' = FALSE
      /\ UNCHANGED <<conn, s2c, clientEnd, serverEnd, req>> /\ UNCHANGED taskVars
  BY DEF ClientWrite
<1>3. /\ req \in DOMAIN Size /\ sent \in Nat /\ Size[req] \in Nat /\ Size[req] <= REQMAX
      /\ REQMAX \in Nat /\ n \in Nat /\ n >= 1 /\ sent + n <= Size[req] /\ m \in Reqs /\ m[2] = req
      /\ m[1] = conn
  BY <1>2, Sizes DEF IInv, EndsInv, TypeOK, ClientTypeOK, ConnTypeOK, Reqs, Mine
<1>4. ibuf \in Seq(Bytes) /\ c2s \in Seq(Bytes) /\ Len(c2s) \in Nat /\ Len(ibuf) \in Nat
  BY LenProperties DEF IInv, TypeOK, TaskTypeOK, ConnTypeOK
<1>5. /\ chunk(n) \in Seq(Bytes) /\ Len(chunk(n)) = n
      /\ \A k \in 1 .. n : chunk(n)[k] = <<"req", m, sent + k>>
  <2>1. /\ Request(m) \in Seq(Bytes) /\ Len(Request(m)) = Size[req]
        /\ Part(Request(m), "req", m, 0)
    BY <1>3, Messages
  <2>2. \A k \in sent + 1 .. sent + n : Request(m)[k] \in Bytes
    BY <1>3, <2>1, ElementOfSeq
  <2>3. /\ chunk(n) \in Seq(Bytes)
        /\ Len(chunk(n)) = IF sent + 1 <= sent + n THEN (sent + n) - (sent + 1) + 1 ELSE 0
        /\ \A k \in 1 .. (sent + n) - (sent + 1) + 1 :
             chunk(n)[k] = Request(m)[(sent + 1) + k - 1]
    <3>1. sent + 1 \in Int /\ sent + n \in Int
      BY <1>3
    <3> QED
      BY <2>2, <3>1, SubSeqProperties
  <2>4. ASSUME NEW k \in 1 .. n PROVE chunk(n)[k] = <<"req", m, sent + k>>
    <3>1. chunk(n)[k] = Request(m)[sent + k] /\ sent + k \in 1 .. Size[req] /\ 0 + (sent + k) = sent + k
      BY <1>3, <2>3
    <3> QED
      BY <2>1, <3>1 DEF Part
  <2>5. Len(chunk(n)) = n
    BY <1>3, <2>3
  <2> QED
    BY <2>3, <2>4, <2>5
<1> HIDE DEF m, chunk
<1>6. /\ c2s \o chunk(n) \in Seq(Bytes) /\ Len(c2s \o chunk(n)) = Len(c2s) + n
      /\ (ibuf \o c2s) \o chunk(n) = ibuf \o (c2s \o chunk(n))
  BY <1>4, <1>5, ConcatProperties, ConcatAssociative
<1>7. c2s' \in Seq(Bytes) /\ (c2s # <<>> => c2s' # <<>>)
  <2>1. c2s \o chunk(n) # <<>>
    BY <1>3, <1>4, <1>6, EmptySeq
  <2> QED
    BY <1>1, <1>4, <1>6, <2>1
<1>8. TypeOK'
  <2>1. disturbed' \in BOOLEAN
    BY Zenon
  <2>2. sent' \in 0 .. REQMAX /\ resp' \in Seq(Bytes) /\ cpc' \in {"sending", "waiting"}
    BY <1>1, <1>3 DEF IInv, TypeOK, ClientTypeOK
  <2> QED
    BY <1>2, <1>7, <2>1, <2>2 DEF IInv, TypeOK, TaskTypeOK, ConnTypeOK, ClientTypeOK, taskVars
<1>9. EndsInv'
  BY <1>1, <1>2, <1>3 DEF IInv, EndsInv, taskVars
<1>10. CommandInv'
  BY <1>2, <1>7 DEF IInv, CommandInv, HasHeader, Begins, MixedHeader, Complete,
         AnnouncedSize, Announced, taskVars
<1>11. StreamInv'
  <2> DEFINE s == Stream
             t == Stream'
             After(x, k) == x[1] = conn' => x[2] <= req' /\ (x[2] = req' => k <= sent')
  <2>1. s \in Seq(Bytes) /\ Len(s) \in Nat
    BY <1>4, ConcatProperties, LenProperties DEF Stream
  <2>2. /\ \A k \in 1 .. Len(s) : s[k][2] \in Reqs
        /\ handled \subseteq Reqs /\ UNCHANGED handled
    BY <1>2, <2>1, BytesOf DEF IInv, TypeOK, TaskTypeOK, taskVars
  <2>3. /\ Once(s)
        /\ \A k \in 1 .. Len(s) : s[k][1] = "req"
        /\ \A k \in 1 .. Len(s) : Written(s[k][2], s[k][3])
        /\ \A x \in handled : \A k \in 1 .. Len(s) : s[k] # RequestByte(x, 1)
        /\ \A x \in handled : Written(x, 1)
    BY <1>2 DEF IInv, StreamInv
  <2>4. \/ t = s
        \/ t = s \o chunk(n)
    BY <1>1, <1>2, <1>4, <1>6 DEF Stream, taskVars
  <2>5. ASSUME NEW x, NEW k \in Nat, Written(x, k) PROVE After(x, k)
    BY <1>1, <1>2, <1>3, <2>5 DEF Written
  <2>6. \A k \in 1 .. Len(s) : s[k][3] \in Nat
    BY <2>1, BytesOf
  <2>7. \A k \in 1 .. Len(s) : After(s[k][2], s[k][3])
    BY <2>3, <2>5, <2>6
  <2>8. \A x \in handled : After(x, 1)
    BY <2>3, <2>5
  <2> HIDE DEF s, t
  <2>9. CASE t = s
    BY <2>2, <2>3, <2>7, <2>8, <2>9 DEF StreamInv, Written, RequestByte, t
  <2>10. CASE t = s \o chunk(n)
    <3>1. /\ Len(t) = Len(s) + n
          /\ \A k \in 1 .. Len(s) : t[k] = s[k]
          /\ \A k \in Len(s) + 1 .. Len(t) : t[k] = <<"req", m, sent + (k - Len(s))>>
      <4>1. /\ Len(t) = Len(s) + Len(chunk(n))
            /\ \A k \in 1 .. Len(s) + Len(chunk(n)) :
                 t[k] = IF k <= Len(s) THEN s[k] ELSE chunk(n)[k - Len(s)]
        BY <1>5, <2>1, <2>10, ConcatProperties
      <4>2. ASSUME NEW k \in Len(s) + 1 .. Len(t)
            PROVE  t[k] = <<"req", m, sent + (k - Len(s))>>
        <5>1. k - Len(s) \in 1 .. n /\ ~(k <= Len(s)) /\ k \in 1 .. Len(s) + Len(chunk(n))
          BY <1>3, <1>5, <2>1, <4>1
        <5> QED
          BY <1>5, <4>1, <5>1
      <4> QED
        BY <1>3, <1>5, <2>1, <4>1, <4>2
    <3>2. \A k \in 1 .. Len(t) : k \in 1 .. Len(s) \/ k \in Len(s) + 1 .. Len(t)
      BY <1>3, <2>1, <3>1
    <3>3. \A j \in 1 .. Len(s) : \A k \in Len(s) + 1 .. Len(t) : t[j] # t[k]
      <4> SUFFICES ASSUME NEW j \in 1 .. Len(s), NEW k \in Len(s) + 1 .. Len(t), t[j] = t[k]
                   PROVE  FALSE
        OBVIOUS
      <4>1. s[j] = <<"req", m, sent + (k - Len(s))>>
        BY <3>1
      <4>2. s[j][2] = m /\ s[j][3] = sent + (k - Len(s))
        BY <4>1
      <4>3. s[j][3] <= sent
        BY <1>3, <2>3, <4>2 DEF Written
      <4> QED
        BY <1>3, <2>1, <4>2, <4>3
    <3>4. \A j, k \in Len(s) + 1 .. Len(t) : t[j] = t[k] => j = k
      <4> SUFFICES ASSUME NEW j \in Len(s) + 1 .. Len(t), NEW k \in Len(s) + 1 .. Len(t), t[j] = t[k]
                   PROVE  j = k
        OBVIOUS
      <4>1. <<"req", m, sent + (j - Len(s))>> = <<"req", m, sent + (k - Len(s))>>
        BY <3>1
      <4>2. sent + (j - Len(s)) = sent + (k - Len(s))
        BY <4>1
      <4> QED
        BY <1>3, <2>1, <4>2
    <3>5. Once(t)
      <4> SUFFICES ASSUME NEW j \in 1 .. Len(t), NEW k \in 1 .. Len(t), t[j] = t[k]
                   PROVE  j = k
        BY DEF Once
      <4>1. CASE j \in 1 .. Len(s) /\ k \in 1 .. Len(s)
        BY <2>3, <3>1, <4>1 DEF Once
      <4> QED
        BY <3>2, <3>3, <3>4, <4>1
    <3>6. \A k \in Len(s) + 1 .. Len(t) : t[k][1] = "req" /\ t[k][2] = m /\ t[k][3] <= sent'
      <4> SUFFICES ASSUME NEW k \in Len(s) + 1 .. Len(t)
                   PROVE  t[k][1] = "req" /\ t[k][2] = m /\ t[k][3] <= sent'
        OBVIOUS
      <4>1. t[k] = <<"req", m, sent + (k - Len(s))>> /\ sent + (k - Len(s)) <= sent'
        BY <1>1, <1>3, <2>1, <3>1
      <4> QED
        BY <4>1
    <3>7. \A k \in 1 .. Len(t) : t[k][1] = "req"
      BY <2>3, <3>1, <3>2, <3>6
    <3>8. \A k \in 1 .. Len(t) : After(t[k][2], t[k][3])
      <4>1. \A k \in Len(s) + 1 .. Len(t) : After(t[k][2], t[k][3])
        BY <1>2, <1>3, <3>6, Sizes
      <4> QED
        BY <2>7, <3>1, <3>2, <4>1
    <3>9. \A x \in handled : \A k \in 1 .. Len(t) : t[k] # RequestByte(x, 1)
      <4> SUFFICES ASSUME NEW x \in handled, NEW k \in Len(s) + 1 .. Len(t), t[k] = RequestByte(x, 1)
                   PROVE  FALSE
        BY <2>3, <3>1, <3>2
      <4>1. <<"req", m, sent + (k - Len(s))>> = <<"req", x, 1>>
        BY <3>1 DEF RequestByte
      <4>2. x = m /\ sent + (k - Len(s)) = 1
        BY <4>1
      <4>3. 1 <= sent
        BY <1>3, <2>3, <4>2 DEF Written
      <4> QED
        BY <1>3, <2>1, <4>2, <4>3
    <3> QED
      BY <2>2, <2>8, <3>5, <3>7, <3>8, <3>9 DEF StreamInv, Written, RequestByte, t
  <2> QED
    BY <2>4, <2>9, <2>10
<1>12. UndisturbedInv'
  <2> SUFFICES ASSUME ~disturbed' PROVE InOrder'
    BY DEF UndisturbedInv
  <2>1. InOrder
    BY DEF IInv, UndisturbedInv
  <2>2. Unanswered /\ req \in TxFormat
    BY <1>2, <2>1 DEF InOrder, Answering
  <2>3. Unanswered'
    <3>1. cpc' = "waiting" => resp' = <<>>
      BY <1>1, <1>2
    <3>2. UNCHANGED <<spc, ibuf, out, s2c, handled, executed>> /\ Mine(req)' = Mine(req)
      BY <1>2 DEF Mine, taskVars
    <3>3. CASE spc \in {"ending", "free"}
      BY <2>2, <3>1, <3>2, <3>3 DEF Unanswered
    <3>4. CASE spc \notin {"ending", "free"}
      <4>1. Len(ibuf) + Len(c2s) = sent /\ Part(ibuf, "req", m, 0) /\ Part(c2s, "req", m, Len(ibuf))
        BY <2>2, <3>4 DEF Unanswered, m
      <4>2. c2s' = c2s \o chunk(n)
        BY <1>1, <3>4 DEF IInv, EndsInv, TypeOK, ConnTypeOK
      <4>3. Len(ibuf) + Len(c2s') = sent'
        <5>1. Len(c2s') = Len(c2s) + n
          BY <1>6, <4>2, Zenon
        <5>2. sent' = sent + n
          BY <1>1
        <5> QED
          BY <1>3, <1>4, <4>1, <5>1, <5>2
      <4>4. Part(chunk(n), "req", m, Len(ibuf) + Len(c2s))
        BY <1>5, <4>1 DEF Part
      <4>5. Part(c2s', "req", m, Len(ibuf))
        BY <1>4, <1>5, <4>1, <4>2, <4>4, PartsJoined
      <4> QED
        BY <2>2, <3>1, <3>2, <3>4, <4>1, <4>3, <4>5 DEF Unanswered, Part, m
    <3> QED
      BY <3>3, <3>4
  <2>4. cpc' \in {"sending", "waiting"}
    BY <1>1
  <2> QED
    BY <1>2, <2>1, <2>2, <2>3, <2>4 DEF InOrder, taskVars
<1>13. UnmixedInv'
  <2> DEFINE s == Stream
             t == Stream'
             c == chunk(n)
  <2>1. UnmixedInv
    BY DEF IInv
  <2>2. CASE serverEnd # "open"
    BY <1>1, <1>2, <2>1, <2>2, SameStream DEF Stream, taskVars
  <2>3. CASE serverEnd = "open"
    <3>1. s \in Seq(Bytes) /\ Len(s) \in Nat /\ t = s \o c
      BY <1>1, <1>2, <1>4, <1>6, <2>3, ConcatProperties, LenProperties DEF Stream, taskVars
    <3>2. c \in Seq(Bytes) /\ Len(c) = n /\ \A k \in 1 .. n : c[k] = <<"req", m, sent + k>>
      BY <1>5
    <3>3. /\ RunsOn(s) /\ conn' = conn /\ req' = req /\ Mine(req)' = m
          /\ Unfinished(s) => s[Len(s)] = RequestByte(m, sent)
      BY <1>2, <2>1, <2>3 DEF UnmixedInv, Mine, m
    <3>4. \A k \in 1 .. Len(s) : s[k][2] \in Reqs /\ s[k][3] \in Nat
      BY <3>1, BytesOf
    <3> HIDE DEF s, t, c
    <3>5. /\ t \in Seq(Bytes) /\ Len(t) = Len(s) + n
          /\ \A k \in 1 .. Len(s) : t[k] = s[k]
          /\ \A k \in Len(s) + 1 .. Len(t) : t[k] = <<"req", m, sent + (k - Len(s))>>
      <4>1. /\ t \in Seq(Bytes) /\ Len(t) = Len(s) + Len(c)
            /\ \A k \in 1 .. Len(s) + Len(c) : t[k] = IF k <= Len(s) THEN s[k] ELSE c[k - Len(s)]
        BY <3>1, <3>2, ConcatProperties
      <4>2. ASSUME NEW k \in Len(s) + 1 .. Len(t)
            PROVE  t[k] = <<"req", m, sent + (k - Len(s))>>
        <5>1. k - Len(s) \in 1 .. n /\ ~(k <= Len(s)) /\ k \in 1 .. Len(s) + Len(c)
          BY <1>3, <3>1, <3>2, <4>1
        <5> QED
          BY <3>2, <4>1, <5>1
      <4> QED
        BY <1>3, <3>1, <3>2, <4>1, <4>2
    <3>6. RunsOn(t)
      <4> SUFFICES ASSUME NEW j \in 1 .. Len(t), t[j][2][1] = conn, NEW k \in j .. Len(t),
                          t[j][3] + (k - j) <= Size[t[j][2][2]]
                   PROVE  t[k] = RequestByte(t[j][2], t[j][3] + (k - j))
        BY DEF RunsOn
      <4>1. CASE j > Len(s)
        <5>1. j \in Len(s) + 1 .. Len(t) /\ k \in Len(s) + 1 .. Len(t)
          BY <1>3, <3>1, <3>5, <4>1
        <5>2. t[j] = <<"req", m, sent + (j - Len(s))>> /\ t[k] = <<"req", m, sent + (k - Len(s))>>
          BY <3>5, <5>1
        <5>3. (sent + (j - Len(s))) + (k - j) = sent + (k - Len(s))
          BY <1>3, <3>1, <3>5
        <5> QED
          BY <5>2, <5>3 DEF RequestByte
      <4>2. CASE k <= Len(s)
        <5>1. j \in 1 .. Len(s) /\ k \in j .. Len(s) /\ k \in 1 .. Len(s)
          BY <1>3, <3>1, <3>5, <4>2
        <5> QED
          BY <3>3, <3>5, <5>1 DEF RunsOn
      <4>3. CASE j <= Len(s) /\ k > Len(s)
        <5> DEFINE x == s[j][2]
                   p == s[j][3]
                   w == Len(s)
        <5>1. j \in 1 .. w /\ w \in j .. w /\ k \in w + 1 .. Len(t) /\ w \in Nat /\ j \in Nat /\ k \in Nat
              /\ w >= 1
          BY <1>3, <3>1, <3>5, <4>3
        <5>2. t[j] = s[j] /\ x[1] = conn /\ p \in Nat /\ x \in Reqs /\ Size[x[2]] \in Nat
          BY <3>4, <3>5, <5>1, Sizes DEF Reqs
        <5> HIDE DEF x, p, w
        <5>3. p + (k - j) <= Size[x[2]]
          BY <5>2 DEF x, p
        <5>4. p + (w - j) < Size[x[2]]
          BY <5>1, <5>2, <5>3
        <5>5. s[w] = RequestByte(x, p + (w - j))
          <6>1. p + (w - j) <= Size[x[2]]
            BY <5>1, <5>2, <5>4
          <6> QED
            BY <3>3, <5>1, <5>2, <6>1 DEF RunsOn, x, p, w
        <5>6. s[w] = RequestByte(m, sent)
          <6>1. s # <<>> /\ s[w][2][1] = conn /\ s[w][3] < Size[s[w][2][2]]
            BY <3>1, <5>1, <5>2, <5>4, <5>5 DEF RequestByte, w
          <6> QED
            BY <3>3, <6>1 DEF Unfinished, w
        <5>7. x = m /\ p + (w - j) = sent
          BY <5>5, <5>6 DEF RequestByte
        <5>8. t[k] = <<"req", x, p + (k - j)>>
          <6>1. t[k] = <<"req", m, sent + (k - w)>>
            BY <3>5, <5>1 DEF w
          <6>2. sent + (k - w) = p + (k - j)
            BY <1>3, <5>1, <5>2, <5>7
          <6> QED
            BY <5>7, <6>1, <6>2
        <5> QED
          BY <5>2, <5>8 DEF RequestByte, x, p
      <4> QED
        BY <3>1, <3>5, <4>1, <4>2, <4>3
    <3>7. t # <<>> /\ t[Len(t)] = <<"req", m, sent'>>
      <4>1. Len(t) \in Len(s) + 1 .. Len(t) /\ sent + (Len(t) - Len(s)) = sent' /\ Len(t) >= 1
        BY <1>1, <1>3, <3>1, <3>5
      <4> QED
        BY <3>5, <4>1, EmptySeq
    <3>8. Unfinished(t) => cpc' = "sending"
      <4> SUFFICES ASSUME Unfinished(t) PROVE cpc' = "sending"
        OBVIOUS
      <4>1. sent' < Size[req]
        BY <1>3, <3>7 DEF Unfinished
      <4> QED
        BY <1>1, <1>3, <4>1
    <3> QED
      BY <3>3, <3>6, <3>7, <3>8 DEF UnmixedInv, RunsOn, Unfinished, RequestByte, t
  <2> QED
    BY <2>2, <2>3
<1> QED
  BY <1>8, <1>9, <1>10, <1>11, <1>12, <1>13 DEF IInv

(* The client ends, one way or another; undisturbed, it does so only when  *)
(* it has its answer or the server has closed.                             *)
LEMMA OffStep ==
  ASSUME IInv, cpc # "off", NEW end \in {"closed", "gone"}, Off(end), UNCHANGED taskVars,
         disturbed' \in BOOLEAN,
         ~disturbed' => ~disturbed /\ (cpc = "ready" \/ serverEnd = "closed")
  PROVE  IInv'
<1>1. /\ cpc' = "off" /\ req' = 0 /\ sent' = 0 /\ resp' = <<>>
      /\ clientEnd' = end /\ s2c' = <<>> /\ quiet' = (end = "gone")
      /\ UNCHANGED <<conn, c2s, serverEnd>> /\ UNCHANGED taskVars
  BY DEF Off, Leave
<1>2. TypeOK'
  <2>1. quiet' \in BOOLEAN
    BY <1>1
  <2>2. 0 \in 0 .. REQMAX
    BY Sizes
  <2> QED
    BY <1>1, <2>1, <2>2 DEF IInv, TypeOK, TaskTypeOK, ConnTypeOK, ClientTypeOK, taskVars
<1>3. EndsInv'
  BY <1>1 DEF IInv, EndsInv, taskVars
<1>4. CommandInv'
  BY <1>1 DEF IInv, CommandInv, EndsInv, TypeOK, ConnTypeOK, ClientTypeOK, HasHeader, Complete,
         Announced, taskVars
<1>5. StreamInv'
  <2>1. Stream' = Stream /\ handled' = handled
    BY <1>1 DEF Stream, taskVars
  <2> QED
    BY <1>1, <2>1 DEF IInv, StreamInv, Once, RequestByte
<1>6. UndisturbedInv'
  <2> SUFFICES ASSUME ~disturbed' PROVE InOrder'
    BY DEF UndisturbedInv
  <2>1. InOrder /\ EndsInv
    BY DEF IInv, UndisturbedInv
  <2>2. ibuf = <<>> /\ c2s = <<>> /\ out = <<>>
    BY <2>1 DEF InOrder, AtRest, EndsInv
  <2> QED
    BY <1>1, <2>1, <2>2 DEF InOrder, AtRest, taskVars
<1>7. UnmixedInv'
  BY <1>1, SameStream DEF IInv, Stream, taskVars
<1> QED
  BY <1>2, <1>3, <1>4, <1>5, <1>6, <1>7 DEF IInv

(* What an undisturbed client has read is its own response, header first.  *)
LEMMA ReadFindsHeader ==
  ASSUME IInv, ~disturbed, cpc = "waiting", NEW n \in 1 .. Len(s2c)
  PROVE  LET buf == resp \o Take(s2c, n)
         IN  /\ Answering /\ InOrder
             /\ Part(buf, "ack", Mine(req), 0)
             /\ Len(buf) <= HDR /\ (Len(buf) >= HDR => HasHeader(buf))
<1> DEFINE buf == resp \o Take(s2c, n)
<1>1. s2c \in Seq(Bytes) /\ resp \in Seq(Bytes)
  BY DEF IInv, TypeOK, ClientTypeOK, ConnTypeOK
<1>2. /\ Len(s2c) \in Nat /\ Len(resp) \in Nat /\ n \in 0 .. Len(s2c) /\ s2c # <<>>
      /\ HDR \in Nat /\ HDR >= 2
  BY <1>1, LenProperties, EmptySeq, Sizes
<1>3. /\ Take(s2c, n) \in Seq(Bytes) /\ Len(Take(s2c, n)) = n
      /\ buf \in Seq(Bytes) /\ Len(buf) = Len(resp) + n
  <2>1. Take(s2c, n) \in Seq(Bytes) /\ Len(Take(s2c, n)) = n
    BY <1>1, <1>2, TakeDrop
  <2>2. buf \in Seq(Bytes) /\ Len(buf) = Len(resp) + Len(Take(s2c, n))
    BY <1>1, <2>1, ConcatProperties
  <2> HIDE DEF buf
  <2> QED
    BY <2>1, <2>2
<1>4. Answering /\ InOrder
  BY <1>2, OutputIsMine DEF IInv, UndisturbedInv
<1>5. Part(buf, "ack", Mine(req), 0)
  <2>1. Part(Take(s2c, n), "ack", Mine(req), 0 + Len(resp))
    BY <1>1, <1>2, <1>4, PartOfPart DEF Answering
  <2> QED
    BY <1>1, <1>3, <1>4, <2>1, PartsJoined DEF Answering
<1>6. Len(buf) <= HDR
  <2>1. Len(out) \in Nat
    BY LenProperties DEF IInv, TypeOK, TaskTypeOK
  <2> QED
    BY <1>2, <1>3, <1>4, <2>1 DEF Answering
<1> HIDE DEF buf
<1>7. Len(buf) >= HDR => HasHeader(buf)
  BY <1>3, <1>5, WholeHeader
<1> QED
  BY <1>4, <1>5, <1>6, <1>7 DEF buf

(* Some of the response arrives.                                           *)
LEMMA AnswerStep ==
  ASSUME IInv, ClientRead, UNCHANGED taskVars,
         disturbed' = (disturbed \/ req' \notin TxFormat \cup {0})
  PROVE  IInv'
<1> DEFINE buf(n) == resp \o Take(s2c, n)
<1>1. PICK n \in 1 .. Len(s2c) :
        IF Len(buf(n)) >= HDR /\ ~HasHeader(buf(n))
        THEN Off("closed")
        ELSE /\ s2c' = Drop(s2c, n) /\ resp' = buf(n)
             /\ cpc' = IF Len(buf(n)) = HDR THEN "ready" ELSE "waiting"
             /\ UNCHANGED <<conn, c2s, clientEnd, serverEnd, quiet, req, sent>>
  BY DEF ClientRead
<1>2. cpc = "waiting" /\ UNCHANGED taskVars
  BY DEF ClientRead
<1>3. s2c \in Seq(Bytes) /\ resp \in Seq(Bytes)
  BY DEF IInv, TypeOK, ClientTypeOK, ConnTypeOK
<1>4. /\ Len(s2c) \in Nat /\ Len(resp) \in Nat /\ n \in 0 .. Len(s2c) /\ n >= 1 /\ s2c # <<>>
      /\ HDR \in Nat /\ HDR >= 2
  BY <1>3, LenProperties, EmptySeq, Sizes
<1>5. /\ Take(s2c, n) \in Seq(Bytes) /\ Len(Take(s2c, n)) = n
      /\ Drop(s2c, n) \in Seq(Bytes) /\ Len(Drop(s2c, n)) = Len(s2c) - n
  BY <1>3, <1>4, TakeDrop
<1>6. buf(n) \in Seq(Bytes) /\ Len(buf(n)) = Len(resp) + n
  BY <1>3, <1>5, ConcatProperties
<1>7. disturbed' \in BOOLEAN
  BY Zenon
<1>8. ASSUME ~disturbed
      PROVE  /\ Answering /\ InOrder /\ Len(out) \in Nat
             /\ Part(buf(n), "ack", Mine(req), 0)
             /\ Len(buf(n)) <= HDR /\ (Len(buf(n)) >= HDR => HasHeader(buf(n)))
  <2>1. Len(out) \in Nat
    BY LenProperties DEF IInv, TypeOK, TaskTypeOK
  <2> QED
    BY <1>2, <1>8, <2>1, ReadFindsHeader
<1> HIDE DEF buf
<1>9. CASE Len(buf(n)) >= HDR /\ ~HasHeader(buf(n))
  <2>1. Off("closed") /\ disturbed
    BY <1>1, <1>8, <1>9
  <2>2. disturbed'
    BY <2>1
  <2> QED
    BY <1>2, <1>7, <2>1, <2>2, OffStep
<1>10. CASE ~(Len(buf(n)) >= HDR /\ ~HasHeader(buf(n)))
  <2>1. /\ s2c' = Drop(s2c, n) /\ resp' = buf(n)
        /\ cpc' = IF Len(buf(n)) = HDR THEN "ready" ELSE "waiting"
        /\ UNCHANGED <<conn, c2s, clientEnd, serverEnd, quiet, req, sent>>
    BY <1>1, <1>10
  <2>2. s2c' \in Seq(Bytes) /\ resp' \in Seq(Bytes) /\ cpc' \in {"ready", "waiting"}
    BY <1>5, <1>6, <2>1
  <2>3. Len(s2c') = Len(s2c) - n /\ Len(resp') = Len(resp) + n
    BY <1>5, <1>6, <2>1, Zenon
  <2>4. TypeOK'
    BY <1>2, <1>7, <2>1, <2>2 DEF IInv, TypeOK, TaskTypeOK, ConnTypeOK, ClientTypeOK, taskVars
  <2>5. EndsInv'
    BY <1>2, <2>1, <2>2 DEF IInv, EndsInv, taskVars
  <2>6. CommandInv'
    BY <1>2, <2>1 DEF IInv, CommandInv, HasHeader, Begins, MixedHeader, Complete,
           AnnouncedSize, Announced, taskVars
  <2>7. StreamInv'
    BY <1>2, <2>1, <2>2 DEF IInv, StreamInv, Stream, Once, Written, RequestByte, taskVars
  <2>8. UnmixedInv'
    BY <1>2, <2>1, <2>2, SameStream DEF IInv, Stream, taskVars
  <2>9. UndisturbedInv'
    <3> SUFFICES ASSUME ~disturbed' PROVE InOrder'
      BY DEF UndisturbedInv
    <3>1. /\ Answering /\ InOrder /\ Len(out) \in Nat
          /\ Part(resp', "ack", Mine(req), 0) /\ Len(resp') <= HDR
      BY <1>8, <2>1
    <3>2. UNCHANGED <<ibuf, out, spc, handled, executed, c2s>> /\ Mine(req)' = Mine(req)
      BY <1>2, <2>1 DEF Mine, taskVars
    <3>3. Part(s2c', "ack", Mine(req), Len(resp'))
      <4>1. Part(Drop(s2c, n), "ack", Mine(req), Len(resp) + n)
        BY <1>3, <1>4, <3>1, PartOfPart DEF Answering
      <4> QED
        BY <2>1, <2>3, <4>1
    <3>4. Len(resp') + Len(s2c') = Len(resp) + Len(s2c)
      BY <1>4, <2>3
    <3>5. CASE Len(resp') = HDR
      <4>1. Len(s2c') = 0 /\ Len(out) = 0
        BY <1>4, <2>3, <3>1, <3>4, <3>5 DEF Answering
      <4>2. s2c' = <<>> /\ out = <<>>
        BY <2>2, <4>1, EmptySeq DEF IInv, TypeOK, TaskTypeOK
      <4>3. AtRest'
        BY <3>1, <3>2, <4>2 DEF AtRest, Answering
      <4>4. AnswerTaken'
        BY <2>1, <3>1, <3>2, <3>5 DEF AnswerTaken, Part, Told, Answering
      <4>5. cpc' = "ready"
        BY <2>1, <3>5
      <4> QED
        BY <3>1, <3>2, <4>3, <4>4, <4>5 DEF InOrder, Answering
    <3>6. CASE Len(resp') # HDR
      <4>1. cpc' = "waiting"
        BY <2>1, <3>6
      <4>2. Part(out, "ack", Mine(req), Len(resp') + Len(s2c'))
        BY <3>1, <3>4 DEF Answering
      <4>3. Len(resp') + Len(s2c') + Len(out) = HDR /\ Len(resp') < HDR
        BY <1>4, <2>3, <3>1, <3>4, <3>6 DEF Answering
      <4>4. Answering'
        BY <2>1, <3>1, <3>2, <3>3, <4>1, <4>2, <4>3 DEF Answering, Part, Told
      <4> QED
        BY <1>2, <2>1, <3>1, <3>2, <4>1, <4>4 DEF InOrder
    <3> QED
      BY <3>5, <3>6
  <2> QED
    BY <2>4, <2>5, <2>6, <2>7, <2>9, <2>8 DEF IInv
<1> QED
  BY <1>9, <1>10

(* The client spins at a closed connection, or pauses.                     *)
LEMMA WaitingStep ==
  ASSUME IInv, UNCHANGED taskVars,
         \/ ClientSpins /\ disturbed' = (disturbed \/ req' \notin TxFormat \cup {0})
         \/ ClientPauses /\ disturbed' = (disturbed \/ cpc # "ready")
  PROVE  IInv'
<1>1. /\ UNCHANGED <<conn, c2s, s2c, clientEnd, serverEnd, req, sent, resp>> /\ UNCHANGED taskVars
      /\ \/ cpc = "waiting" /\ serverEnd = "closed" /\ cpc' = "spinning" /\ quiet' = quiet
         \/ cpc \in {"ready", "sending"} /\ cpc' = cpc /\ quiet' = TRUE
      /\ disturbed' \/ (~disturbed /\ cpc \in {"waiting", "ready"})
  BY DEF ClientSpins, ClientPauses, connVars, clientVars
<1>2. disturbed' \in BOOLEAN
  BY Zenon
<1>3. TypeOK'
  BY <1>1, <1>2 DEF IInv, TypeOK, TaskTypeOK, ConnTypeOK, ClientTypeOK, taskVars
<1>4. EndsInv'
  BY <1>1 DEF IInv, EndsInv, taskVars
<1>5. CommandInv'
  BY <1>1 DEF IInv, CommandInv, HasHeader, Begins, MixedHeader, Complete,
         AnnouncedSize, Announced, taskVars
<1>6. StreamInv'
  BY <1>1 DEF IInv, StreamInv, Stream, Once, Written, RequestByte, taskVars
<1>7. UndisturbedInv'
  BY <1>1 DEF IInv, UndisturbedInv, InOrder, AtRest, AnswerTaken, Part, Told, Mine, EndsInv, taskVars
<1>8. UnmixedInv'
  BY <1>1, SameStream DEF IInv, EndsInv, Stream, taskVars
<1> QED
  BY <1>3, <1>4, <1>5, <1>6, <1>7, <1>8 DEF IInv

-----------------------------------------------------------------------------
(* A new connection.                                                       *)

(* Its number is none that a byte left in the task object has.             *)
LEMMA ConnectStep ==
  ASSUME IInv, Connect
  PROVE  IInv'
<1> DEFINE kept == ibuf \o out
<1>1. /\ serverEnd = "closed" /\ conn' = CHOOSE n \in Conn : Fresh(n)
      /\ c2s' = <<>> /\ s2c' = <<>> /\ clientEnd' = "open" /\ serverEnd' = "open" /\ quiet' = FALSE
      /\ cpc' = "ready" /\ req' = 0 /\ sent' = 0 /\ resp' = <<>>
      /\ spc = "free" /\ spc' = "enter" /\ UNCHANGED <<ibuf, out, received, ready>>
      /\ handled' = {r \in handled : \E k \in DOMAIN ibuf : ibuf[k][2] = r}
      /\ executed' = {r \in executed : \E k \in DOMAIN ibuf : ibuf[k][2] = r}
      /\ disturbed' = (kept # <<>>)
  BY DEF Connect, Establish, IrsOpen, TaskStart, InInput
<1>2. /\ ibuf \in Seq(Bytes) /\ out \in Seq(Bytes) /\ Len(ibuf) <= REQMAX /\ Len(out) <= HDR
      /\ c2s = <<>> /\ ~received
  BY <1>1 DEF IInv, TypeOK, TaskTypeOK, EndsInv, CommandInv
<1>3. /\ Len(ibuf) \in Nat /\ Len(out) \in Nat /\ DOMAIN ibuf = 1 .. Len(ibuf)
      /\ HDR \in Nat /\ REQMAX \in Nat
  BY <1>2, LenProperties, Sizes
<1>4. /\ kept \in Seq(Bytes) /\ Len(kept) = Len(ibuf) + Len(out)
      /\ \A k \in 1 .. Len(ibuf) : kept[k] = ibuf[k]
      /\ DOMAIN kept = 1 .. Len(kept)
  BY <1>2, <1>3, ConcatProperties, LenProperties
<1>5. conn' \in Conn /\ \A k \in 1 .. Len(ibuf) : ibuf[k][2][1] # conn'
  <2>1. \E n \in Conn : Fresh(n)
    <3>1. Len(kept) <= REQMAX + HDR
      BY <1>2, <1>3, <1>4
    <3> QED
      BY <1>4, <3>1, FreshNumber DEF Fresh
  <2>2. conn' \in Conn /\ \A k \in DOMAIN kept : kept[k][2][1] # conn'
    BY <1>1, <2>1 DEF Fresh
  <2> HIDE DEF kept
  <2>3. \A k \in 1 .. Len(ibuf) : k \in DOMAIN kept
    BY <1>3, <1>4
  <2> QED
    BY <1>4, <2>2, <2>3
<1>6. \A r \in handled' : r \in handled /\ r[1] # conn'
  BY <1>1, <1>3, <1>5
<1>7. TypeOK'
  <2>1. disturbed' \in BOOLEAN /\ resp' \in Seq(Bytes) /\ c2s' \in Seq(Bytes) /\ s2c' \in Seq(Bytes)
        /\ sent' \in 0 .. REQMAX
    BY <1>1, <1>3
  <2>2. handled' \subseteq Reqs /\ executed' \subseteq handled'
    BY <1>1, <1>6 DEF IInv, TypeOK, TaskTypeOK
  <2> QED
    BY <1>1, <1>5, <2>1, <2>2 DEF IInv, TypeOK, TaskTypeOK, ConnTypeOK, ClientTypeOK
<1>8. EndsInv'
  BY <1>1 DEF EndsInv
<1>9. CommandInv'
  BY <1>1, <1>2 DEF CommandInv
<1>10. StreamInv'
  <2>1. Stream = ibuf /\ Stream' = ibuf
    BY <1>1, <1>2, ConcatEmptySeq DEF Stream
  <2>2. \A k \in 1 .. Len(ibuf) : Written(ibuf[k][2], ibuf[k][3])'
    BY <1>1, <1>5 DEF Written
  <2>3. \A r \in handled' : Written(r, 1)'
    BY <1>6 DEF Written
  <2> QED
    BY <1>1, <1>5, <1>6, <2>1 DEF IInv, StreamInv, Once, Written, RequestByte
<1>11. UndisturbedInv'
  <2> SUFFICES ASSUME ~disturbed' PROVE InOrder'
    BY DEF UndisturbedInv
  <2>1. ibuf = <<>> /\ out = <<>>
    <3>1. kept = <<>>
      BY <1>1, Zenon
    <3> HIDE DEF kept
    <3>2. Len(kept) = 0
      BY <3>1
    <3> QED
      BY <1>2, <1>3, <1>4, <3>2, EmptySeq
  <2> QED
    BY <1>1, <2>1 DEF InOrder, AtRest
<1>12. UnmixedInv'
  <2>1. Stream' = ibuf
    BY <1>1, <1>2, ConcatEmptySeq DEF Stream
  <2>2. ibuf # <<>> => Len(ibuf) \in 1 .. Len(ibuf)
    BY <1>2, <1>3, EmptySeq
  <2> QED
    BY <1>5, <2>1, <2>2 DEF UnmixedInv, RunsOn, Unfinished
<1> QED
  BY <1>7, <1>8, <1>9, <1>10, <1>11, <1>12 DEF IInv

-----------------------------------------------------------------------------
(* The session.                                                            *)

(* No connection, and every buffer empty.                                  *)
LEMMA InitInv == Init => IInv
<1> SUFFICES ASSUME Init PROVE IInv
  OBVIOUS
<1>1. /\ conn = 0 /\ c2s = <<>> /\ s2c = <<>> /\ clientEnd = "closed" /\ serverEnd = "closed"
      /\ quiet = FALSE /\ spc = "free" /\ ibuf = <<>> /\ out = <<>> /\ received = FALSE
      /\ ready = {} /\ handled = {} /\ executed = {} /\ cpc = "off" /\ req = 0 /\ sent = 0 /\ resp = <<>>
      /\ disturbed = FALSE
  BY DEF Init, ConnInit, TaskInit, ClientInit
<1>2. TypeOK
  <2>1. 0 \in Conn /\ 0 \in 0 .. REQMAX /\ <<>> \in Seq(Bytes) /\ Len(<<>>) = 0
        /\ 0 <= REQMAX /\ 0 <= HDR
    BY Sizes DEF Conn
  <2>2. ConnTypeOK
    BY <1>1, <2>1 DEF ConnTypeOK
  <2>3. TaskTypeOK
    BY <1>1, <2>1 DEF TaskTypeOK
  <2>4. ClientTypeOK
    BY <1>1, <2>1 DEF ClientTypeOK
  <2> QED
    BY <1>1, <2>2, <2>3, <2>4 DEF TypeOK
<1>3. Len(Stream) = 0
  BY <1>1 DEF Stream
<1>4. StreamInv
  BY <1>1, <1>3 DEF StreamInv, Once
<1>5. UnmixedInv
  BY <1>1, <1>3 DEF UnmixedInv, RunsOn
<1> QED
  BY <1>1, <1>2, <1>4, <1>5 DEF IInv, EndsInv, CommandInv, UndisturbedInv, InOrder, AtRest

(* No step of either side or of a fault breaks the invariant.              *)
LEMMA NextInv ==
  ASSUME IInv, [Next]_vars
  PROVE  IInv'
<1>1. CASE Connect
  BY <1>1, ConnectStep
<1>2. CASE Server
  <2>1. CASE ServerIdles
    BY <1>2, <2>1, IdleStep DEF Server
  <2> QED
    BY <1>2, <2>1, WriteStep, ReadStep, CommandStep, EndStep
    DEF Server, TaskStep, ServerIdles, CmdTxFormat
<1>3. CASE ServerError
  BY <1>3, ErrorStep DEF ServerError
<1>4. CASE Client
  <2>1. UNCHANGED taskVars /\ disturbed' = (disturbed \/ req' \notin TxFormat \cup {0})
    BY <1>4 DEF Client
  <2>2. CASE ClientFails
    <3>1. Off("closed") /\ cpc # "off" /\ serverEnd = "closed"
      BY <2>2 DEF ClientFails
    <3>2. disturbed' \in BOOLEAN /\ (~disturbed' => ~disturbed)
      BY <2>1, Zenon
    <3> QED
      BY <2>1, <3>1, <3>2, OffStep
  <2> QED
    BY <1>4, <2>1, <2>2, BeginStep, SendStep, AnswerStep, WaitingStep DEF Client, ClientStep
<1>5. CASE Close
  <2>1. Off("closed") /\ cpc = "ready" /\ UNCHANGED <<taskVars, disturbed>>
    BY <1>5 DEF Close, IrsClose
  <2>2. disturbed' \in BOOLEAN
    BY <2>1 DEF IInv, TypeOK
  <2> QED
    BY <2>1, <2>2, OffStep
<1>6. CASE Fault
  <2>1. UNCHANGED taskVars /\ disturbed' = (disturbed \/ cpc # "ready")
    BY <1>6 DEF Fault
  <2>2. CASE ClientPauses
    BY <2>1, <2>2, WaitingStep
  <2>3. CASE ClientKilled \/ ClientVanishes
    <3>1. cpc # "off" /\ \E end \in {"closed", "gone"} : Off(end)
      BY <2>3 DEF ClientKilled, ClientVanishes
    <3>2. disturbed' \in BOOLEAN /\ (~disturbed' => ~disturbed /\ cpc = "ready")
      BY <2>1, Zenon
    <3> QED
      BY <2>1, <3>1, <3>2, OffStep
  <2> QED
    BY <1>6, <2>2, <2>3 DEF Fault
<1>7. CASE UNCHANGED vars
  <2>1. UNCHANGED <<connVars, taskVars, clientVars, disturbed>>
    BY <1>7 DEF vars
  <2> USE DEF connVars, taskVars, clientVars
  <2>2. TypeOK'
    BY <2>1 DEF IInv, TypeOK, TaskTypeOK, ConnTypeOK, ClientTypeOK
  <2>3. EndsInv'
    BY <2>1 DEF IInv, EndsInv
  <2>4. CommandInv'
    BY <2>1 DEF IInv, CommandInv, HasHeader, Begins, MixedHeader, Complete, AnnouncedSize, Announced
  <2>5. StreamInv'
    BY <2>1 DEF IInv, StreamInv, Stream, Once, Written, RequestByte
  <2>6. UndisturbedInv'
    BY <2>1 DEF IInv, UndisturbedInv, InOrder, AtRest, Unanswered, Answering, AnswerTaken,
           Part, Told, Mine
  <2>7. UnmixedInv'
    BY <2>1, SameStream DEF IInv, Stream
  <2> QED
    BY <2>2, <2>3, <2>4, <2>5, <2>6, <2>7 DEF IInv
<1> QED
  BY <1>1, <1>2, <1>4, <1>5, <1>6, <1>7, <1>3 DEF Next

(* The inductive invariant holds in every state of the session.            *)
THEOREM Invariance == Spec => []IInv
<1> QED
  BY InitInv, NextInv, PTL DEF Spec

(* Every variable of the task, the client and the wire keeps its type: a   *)
(* new connection always finds a number, and no buffer overflows.          *)
THEOREM TypeCorrect == Spec => []TypeOK
<1>1. IInv => TypeOK
  BY DEF IInv
<1> QED
  BY <1>1, Invariance, PTL

(* Whatever happened to the slot, the command of a connection's own header *)
(* is that connection's request, byte for byte.                            *)
THEOREM OwnHeadersOwnBodies == Spec => []OwnHeaderOwnBody
<1>1. ASSUME IInv, spc = "command", Announced(ibuf)[1] = conn
      PROVE  Intact(Announced(ibuf))
  <2> DEFINE r == Announced(ibuf)
             n == Size[r[2]]
  <2>1. /\ ibuf \in Seq(Bytes) /\ c2s \in Seq(Bytes) /\ Len(ibuf) \in Nat /\ Len(c2s) \in Nat
        /\ HDR \in Nat /\ HDR >= 2
        /\ Len(ibuf) >= HDR /\ HasHeader(ibuf) /\ Complete(ibuf)
    BY <1>1, Sizes, LenProperties DEF IInv, TypeOK, TaskTypeOK, ConnTypeOK, CommandInv
  <2>2. ibuf[1] = <<ibuf[1][1], r, 1>> /\ r \in Reqs
    BY <2>1, HeaderRead
  <2>3. n \in Nat /\ HDR <= n
    BY <2>2, Sizes DEF Reqs
  <2>4. ASSUME NEW k \in 1 .. Len(ibuf), k <= n PROVE ibuf[k] = RequestByte(r, k)
    <3>1. /\ Len(Stream) = Len(ibuf) + Len(c2s)
          /\ \A i \in 1 .. Len(ibuf) + Len(c2s) :
               Stream[i] = IF i <= Len(ibuf) THEN ibuf[i] ELSE c2s[i - Len(ibuf)]
      BY <2>1, ConcatProperties DEF Stream
    <3>2. 1 \in 1 .. Len(Stream) /\ k \in 1 .. Len(Stream) /\ Stream[1] = ibuf[1] /\ Stream[k] = ibuf[k]
      BY <2>1, <3>1
    <3>3. Stream[1][2] = r /\ Stream[1][3] = 1 /\ 1 + (k - 1) = k
      BY <2>2, <3>2
    <3>4. RunsOn(Stream)
      BY <1>1 DEF IInv, UnmixedInv
    <3> HIDE DEF r
    <3>5. Stream[k] = RequestByte(Stream[1][2], Stream[1][3] + (k - 1))
      <4>1. Stream[1][2][1] = conn /\ Stream[1][3] + (k - 1) <= Size[Stream[1][2][2]]
        BY <1>1, <2>4, <3>3 DEF r
      <4> QED
        BY <3>2, <3>4, <4>1 DEF RunsOn
    <3> QED
      BY <3>2, <3>3, <3>5
  <2>5. ~MixedHeader(ibuf)
    <3>1. ibuf[HDR] = RequestByte(r, HDR)
      BY <2>1, <2>3, <2>4
    <3>2. ibuf[HDR][2] = ibuf[1][2]
      BY <2>2, <3>1 DEF RequestByte
    <3> QED
      BY <3>2 DEF MixedHeader
  <2>6. Len(ibuf) >= n
    BY <2>1, <2>5 DEF Complete, AnnouncedSize
  <2> DEFINE t == Take(ibuf, n)
             q == Request(r)
  <2>7. t \in Seq(Bytes) /\ Len(t) = n /\ \A k \in 1 .. n : t[k] = ibuf[k]
    <3>1. n \in 0 .. Len(ibuf)
      BY <2>1, <2>3, <2>6
    <3> QED
      BY <2>1, <3>1, TakeDrop
  <2>8. q \in Seq(Bytes) /\ Len(q) = n /\ \A k \in 1 .. n : q[k] = RequestByte(r, k)
    BY <2>2, <2>3, Messages DEF Request
  <2> HIDE DEF t, q, n
  <2>9. \A k \in 1 .. n : t[k] = q[k]
    BY <2>1, <2>3, <2>4, <2>6, <2>7, <2>8
  <2>10. t = q
    BY <2>7, <2>8, <2>9, SeqEqual
  <2> QED
    BY <2>6, <2>10 DEF Intact, t, q, n
<1>2. IInv => OwnHeaderOwnBody
  BY <1>1 DEF OwnHeaderOwnBody
<1> QED
  BY <1>2, Invariance, PTL

(* An undisturbed client leaves nothing behind in the task object.         *)
THEOREM HandoverIsClean == Spec => []CleanHandover
<1>1. IInv => CleanHandover
  BY DEF IInv, UndisturbedInv, InOrder, CleanHandover
<1> QED
  BY <1>1, Invariance, PTL

(* What is dealt with for an undisturbed client is its own request.        *)
THEOREM FramesAreIntact == Spec => []FramesIntact
<1>1. ASSUME IInv, spc = "command", ~disturbed
      PROVE  /\ Announced(ibuf) = Mine(req)
             /\ ibuf = Request(Mine(req))
             /\ Mine(req) \notin handled
  <2>1. /\ ibuf \in Seq(Bytes) /\ c2s \in Seq(Bytes) /\ Len(ibuf) \in Nat /\ Len(c2s) \in Nat
        /\ Len(ibuf) >= HDR /\ HDR >= 2 /\ HDR \in Nat /\ Complete(ibuf)
    BY <1>1, Sizes, LenProperties DEF IInv, TypeOK, TaskTypeOK, ConnTypeOK, CommandInv
  <2>2. /\ Unanswered /\ req \in DOMAIN Size
        /\ Announced(ibuf) = Mine(req) /\ Mine(req)[2] = req
        /\ Len(ibuf) + Len(c2s) = sent /\ sent <= Size[req]
        /\ AnnouncedSize(ibuf) = Size[req]
        /\ spc \notin {"ending", "free"}
    <3>1. ibuf # <<>>
      BY <2>1
    <3> QED
      BY <1>1, <2>1, <3>1, InputIsMine
  <2>3. Part(ibuf, "req", Mine(req), 0)
    BY <2>2 DEF Unanswered
  <2>4. Mine(req) \in Reqs /\ Size[req] \in Nat
    BY <1>1, <2>2, Sizes DEF Reqs, Mine, IInv, TypeOK, ConnTypeOK
  <2>5. Len(ibuf) = Size[req]
    BY <1>1, <2>1, <2>2, <2>4 DEF Complete, IInv, TypeOK, ClientTypeOK
  <2> DEFINE m == Request(Mine(req))
  <2>6. m \in Seq(Bytes) /\ Len(m) = Size[req] /\ Part(m, "req", Mine(req), 0)
    BY <2>2, <2>4, Messages
  <2> HIDE DEF m
  <2>7. Len(ibuf) = Len(m) /\ \A k \in 1 .. Len(ibuf) : ibuf[k] = m[k]
    BY <2>3, <2>5, <2>6 DEF Part
  <2>8. ibuf = m
    BY <2>1, <2>6, <2>7, SeqEqual
  <2> QED
    BY <2>2, <2>8 DEF Unanswered, m
<1>2. IInv => FramesIntact
  BY <1>1 DEF FramesIntact
<1> QED
  BY <1>2, Invariance, PTL

(* What an undisturbed client takes for its response is its own.           *)
THEOREM AnswersAreOwn == Spec => []AnswerIsOwn
<1>1. ASSUME IInv, ~disturbed, (cpc = "waiting" /\ resp # <<>>) \/ (cpc = "ready" /\ req # 0)
      PROVE  /\ resp = Take(Ack(Mine(req)), Len(resp))
             /\ Mine(req) \in handled
             /\ Mine(req) \in executed <=> req \in Sendable
  <2>1. /\ Told
        /\ Part(resp, "ack", Mine(req), 0) /\ Len(resp) <= HDR
    <3>1. Answering \/ AnswerTaken
      BY <1>1 DEF IInv, UndisturbedInv, InOrder, Unanswered
    <3> QED
      BY <3>1, Sizes DEF Answering, AnswerTaken
  <2>2. resp \in Seq(Bytes) /\ Len(resp) \in Nat /\ handled \subseteq Reqs /\ HDR \in Nat
    BY <1>1, LenProperties, Sizes DEF IInv, TypeOK, ClientTypeOK, TaskTypeOK
  <2> DEFINE a == Ack(Mine(req))
             t == Take(a, Len(resp))
  <2>3. a \in Seq(Bytes) /\ Len(a) = HDR /\ Part(a, "ack", Mine(req), 0)
    BY <2>1, <2>2, Messages DEF Told
  <2> HIDE DEF a
  <2>4. Len(resp) \in 0 .. Len(a)
    BY <2>1, <2>2, <2>3
  <2>5. t \in Seq(Bytes) /\ Len(t) = Len(resp) /\ Part(t, "ack", Mine(req), 0)
    BY <2>3, <2>4, TakeDrop, PartOfPart
  <2> HIDE DEF t
  <2>6. \A k \in 1 .. Len(resp) : resp[k] = t[k]
    BY <2>1, <2>5 DEF Part
  <2>7. resp = t
    BY <2>2, <2>5, <2>6, SeqEqual
  <2> QED
    BY <2>1, <2>7 DEF a, t, Told
<1>2. IInv => AnswerIsOwn
  BY <1>1 DEF AnswerIsOwn
<1> QED
  BY <1>2, Invariance, PTL

(* No request is dealt with twice, whatever its client does.               *)
THEOREM ExecutedAtMostOnce == Spec => AtMostOnce
<1>1. ASSUME IInv, spc = "command" PROVE Announced(ibuf) \notin handled
  <2>1. /\ ibuf \in Seq(Bytes) /\ c2s \in Seq(Bytes) /\ Len(ibuf) \in Nat /\ Len(c2s) \in Nat
        /\ Len(ibuf) >= HDR /\ HDR >= 1 /\ HDR \in Nat /\ HasHeader(ibuf)
    BY <1>1, Sizes, LenProperties DEF IInv, TypeOK, TaskTypeOK, ConnTypeOK, CommandInv
  <2>2. ibuf[1] = <<ibuf[1][1], Announced(ibuf), 1>>
    BY <2>1, HeaderRead
  <2>3. 1 \in 1 .. Len(Stream) /\ Stream[1] = ibuf[1]
    <3>1. /\ Len(Stream) = Len(ibuf) + Len(c2s)
          /\ \A k \in 1 .. Len(ibuf) + Len(c2s) :
               Stream[k] = IF k <= Len(ibuf) THEN ibuf[k] ELSE c2s[k - Len(ibuf)]
      BY <2>1, ConcatProperties DEF Stream
    <3> QED
      BY <2>1, <3>1
  <2>4. Stream[1] = RequestByte(Announced(ibuf), 1)
    BY <1>1, <2>2, <2>3 DEF IInv, StreamInv, RequestByte
  <2> QED
    BY <1>1, <2>3, <2>4 DEF IInv, StreamInv
<1>2. ASSUME IInv, [Next]_vars
      PROVE  [spc = "command" /\ spc' = "enter" => Announced(ibuf) \notin handled]_vars
  BY <1>1, <1>2
<1> QED
  BY <1>2, Invariance, PTL DEF Spec, AtMostOnce

(* A request that an undisturbed client gives up was not dealt with.       *)
THEOREM RetriesAreSafe == Spec => RetryIsSafe
<1>1. ASSUME IInv, cpc = "waiting", Client, cpc' \in {"off", "spinning"}, ~disturbed
      PROVE  Mine(req) \notin handled
  <2>1. Unanswered \/ Answering
    BY <1>1 DEF IInv, UndisturbedInv, InOrder
  <2>2. CASE serverEnd = "closed"
    BY <1>1, <2>1, <2>2 DEF IInv, EndsInv, Unanswered, Answering
  <2>3. CASE serverEnd # "closed"
    <3>1. ClientRead
      BY <1>1, <2>3 DEF Client, ClientStep, IrsSendRequest, ClientWrite, ClientFails, ClientSpins
    <3>2. cpc' \in {"ready", "waiting"}
      BY <1>1, <3>1, ReadFindsHeader DEF ClientRead
    <3> QED
      BY <1>1, <3>2
  <2> QED
    BY <2>2, <2>3
<1>2. ASSUME IInv, [Next]_vars
      PROVE  [cpc = "waiting" /\ Client /\ cpc' \in {"off", "spinning"} /\ ~disturbed
                => Mine(req) \notin handled]_vars
  BY <1>1, <1>2
<1> QED
  BY <1>2, Invariance, PTL DEF Spec, RetryIsSafe
=============================================================================
