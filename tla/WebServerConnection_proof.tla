--------------------- MODULE WebServerConnection_proof ---------------------
(***************************************************************************)
(* The connection, for every handler map, request, handler, content and    *)
(* number of requests, parts and bytes.                                    *)
(***************************************************************************)
EXTENDS WebServerConnection, SequenceTheorems, WellFoundedInduction, TLAPS

(* The pointer to no object is the pointer to no connection.               *)
NullIsNoConnection == \A c : DOMAIN c = DOMAIN NewConnection => c # NULL

(* Parameters are strings of bytes, if setParameters gives such ones.      *)
AreBytes(ps) == ParametersAreBytes => \A k \in DOMAIN ps : ps[k] \in Seq(Bytes)

-----------------------------------------------------------------------------
(* The inductive invariant: what holds of a connection c with the maps m.  *)

Codes == {200, 401, 404, 500, 501}

(* What a connection is made of, where that does not depend on its form.   *)
ShapeInv(c) ==
  /\ DOMAIN c = DOMAIN NewConnection
  /\ c.status \in {"init", "mpart_init", "mpart_data", "complete"}
  /\ c.response \in {"open", "closed", "flushed"} /\ c.code \in Codes
  /\ c.sent \in Seq(Codes) /\ c.requests \in Nat /\ c.fields \in Seq(Field)
  /\ c.closing \in BOOLEAN /\ c.authorized \in BOOLEAN

(* As many answers are sent as there were requests, less the open one.     *)
AnswerInv(c) ==
  /\ Len(c.sent) = IF c.response = "flushed" THEN c.requests ELSE c.requests - 1
  /\ c.response = "flushed" => c.closing

(* What the request has led to: the handler, and the refusal.              *)
RequestInv(c, m) ==
  /\ c.request \in Plains \cup Multiparts
  /\ c.handler = FindHandler(m.match, m.prefix, c.request.uri)
  /\ AreBytes(c.parameters)
  /\ ~c.authorized =>
       /\ c.handler \in NeedAuthentication
       /\ c.response = "flushed" /\ c.userContext = NULL
       /\ c.sent # <<>> /\ c.sent[Len(c.sent)] = 401
       /\ \E junk \in {NUL, Equals} : c.parameters = SetParameters(Source(c.request), junk)

(* While parts arrive, a handler that was given the request has a context. *)
ContextInv(c) ==
  /\ c.http \in {"idle", "end"} \/ c.handler = NULL \/ ~c.authorized => c.userContext = NULL
  /\ c.http \in {"parts", "part"} /\ c.handler # NULL /\ c.authorized =>
       c.userContext \in Field /\ Len(c.userContext.value) <= DATA_MAX

(* What is special in each state of the parser.                            *)
ParserInv(c) ==
  /\ c.http \in {"idle", "parts", "part", "end"}
  /\ c.http = "part" => c.fields # <<>>
  /\ c.http = "end" => c.status = "complete"
  /\ c.status = "complete" <=> c.response = "flushed"

ConInv(c, m) ==
  IF c.http = "idle" THEN c = NewConnection
  ELSE ShapeInv(c) /\ AnswerInv(c) /\ RequestInv(c, m) /\ ContextInv(c) /\ ParserInv(c)

IInv == maps \in Maps /\ (con # NULL => ConInv(con, maps))

(* What the handler has been given when it is asked for an answer: while a *)
(* part arrives, its context is that part, and the others are parameters.  *)
GivenInv(c) ==
  /\ c.response = "open" => c.code = 200
  /\ c.authorized /\ c.handler # NULL /\ c.code = 200 /\ IsPlain(Source(c.request)) =>
       /\ c.http \in {"parts", "part"} =>
            c.response = "open" /\ c.status # "complete" /\ c.request \in Multiparts
       /\ c.http = "parts" /\ c.fields = <<>> => c.userContext = [key |-> <<>>, value |-> <<>>]
       /\ IF c.http = "part"
          THEN \E fs \in Seq(Field) : /\ c.fields = Append(fs, c.userContext)
                                      /\ Given(c.parameters, c.request, fs) /\ Uncut(fs)
          ELSE Given(c.parameters, c.request, c.fields) /\ Uncut(c.fields)

ReceivedInv == con # NULL /\ con.http # "idle" => GivenInv(con)

(* The contexts allocated are the one of the connection, or none.          *)
CountInv == contexts = IF con # NULL /\ con.userContext # NULL THEN 1 ELSE 0

-----------------------------------------------------------------------------
(* findHandler.                                                            *)

(* Two paths that agree up to n, byte by byte.                             *)
LEMMA SamePart ==
  ASSUME NEW s \in Seq(Nat), NEW t \in Seq(Nat), NEW n \in Nat, n <= Len(s), n <= Len(t)
  PROVE  SubSeq(s, 1, n) = SubSeq(t, 1, n) <=> \A i \in 1 .. n : s[i] = t[i]
<1>1. /\ SubSeq(s, 1, n) = [i \in 1 .. n |-> s[i]]
      /\ SubSeq(t, 1, n) = [i \in 1 .. n |-> t[i]]
  OBVIOUS
<1> QED
  BY <1>1

(* A prefix agrees with the path as far as it goes, and is the path if it  *)
(* goes as far.                                                            *)
LEMMA PrefixElements ==
  ASSUME NEW s \in Seq(Nat), NEW t \in Seq(Nat)
  PROVE  /\ IsPrefix(s, t) <=> Len(s) <= Len(t) /\ \A i \in 1 .. Len(s) : s[i] = t[i]
         /\ IsStrictPrefix(s, t) <=> Len(s) < Len(t) /\ \A i \in 1 .. Len(s) : s[i] = t[i]
<1>1. IsPrefix(s, t) <=> Len(s) <= Len(t) /\ \A i \in 1 .. Len(s) : s[i] = t[i]
  BY SamePart DEF IsPrefix
<1>2. (\A i \in 1 .. Len(s) : s[i] = t[i]) /\ Len(s) = Len(t) => s = t
  OBVIOUS
<1> QED
  BY <1>1, <1>2 DEF IsStrictPrefix

(* WebString::compareTo, byte by byte.                                     *)
LEMMA LessElements ==
  ASSUME NEW s \in Seq(Nat), NEW t \in Seq(Nat)
  PROVE  Less(s, t) <=>
           \/ Len(s) < Len(t) /\ \A i \in 1 .. Len(s) : s[i] = t[i]
           \/ \E i \in 1 .. Len(s) : /\ i <= Len(t) /\ s[i] < t[i]
                                     /\ \A j \in 1 .. i - 1 : s[j] = t[j]
<1>1. \A i \in 1 .. Len(s) : i <= Len(t) =>
        (SubSeq(s, 1, i - 1) = SubSeq(t, 1, i - 1) <=> \A j \in 1 .. i - 1 : s[j] = t[j])
  <2> SUFFICES ASSUME NEW i \in 1 .. Len(s), i <= Len(t)
               PROVE  SubSeq(s, 1, i - 1) = SubSeq(t, 1, i - 1) <=> \A j \in 1 .. i - 1 : s[j] = t[j]
    OBVIOUS
  <2>1. i - 1 \in Nat /\ i - 1 <= Len(s) /\ i - 1 <= Len(t)
    OBVIOUS
  <2> QED
    BY <2>1, SamePart
<1> QED
  BY <1>1, PrefixElements DEF Less

(* What sorts between a prefix of a path and the path begins with it, too. *)
LEMMA Between ==
  ASSUME NEW k \in Seq(Nat), NEW l \in Seq(Nat), NEW uri \in Seq(Nat),
         IsStrictPrefix(k, uri), Less(k, l), Less(l, uri)
  PROVE  IsStrictPrefix(k, l)
<1>1. Len(k) < Len(uri) /\ \A i \in 1 .. Len(k) : k[i] = uri[i]
  BY PrefixElements
<1>2. SUFFICES ASSUME ~IsStrictPrefix(k, l) PROVE FALSE
  OBVIOUS
<1>3. PICK i \in 1 .. Len(k) : i <= Len(l) /\ k[i] < l[i] /\ \A j \in 1 .. i - 1 : k[j] = l[j]
  BY <1>2, LessElements, PrefixElements
<1>4. k[i] = uri[i] /\ i \in 1 .. Len(l) /\ l[i] \in Nat /\ k[i] \in Nat
  BY <1>1, <1>3
<1>5. ~(Len(l) < Len(uri) /\ \A j \in 1 .. Len(l) : l[j] = uri[j])
  BY <1>3, <1>4
<1>6. PICK j \in 1 .. Len(l) : j <= Len(uri) /\ l[j] < uri[j] /\ \A n \in 1 .. j - 1 : l[n] = uri[n]
  BY <1>5, LessElements
<1>7. l[j] \in Nat /\ uri[j] \in Nat
  BY <1>6
<1>8. CASE i < j
  BY <1>3, <1>4, <1>6, <1>8
<1>9. CASE i = j
  BY <1>3, <1>4, <1>6, <1>9
<1>10. CASE j < i
  <2>1. j \in 1 .. Len(k) /\ k[j] = l[j] /\ k[j] = uri[j]
    BY <1>1, <1>3, <1>10
  <2> QED
    BY <1>6, <1>7, <2>1
<1> QED
  BY <1>8, <1>9, <1>10

(* findHandler: of the prefixes of a path in the map, the one it takes is  *)
(* the longest; and it takes one if no path of the map extends another.    *)
LEMMA FindsLongest ==
  ASSUME NEW m \in Maps, NEW uri \in Seq(Nat)
  PROVE  LET paths == DOMAIN m.prefix
             found == FindHandler(m.match, m.prefix, uri)
         IN  IF uri \in DOMAIN m.match THEN found = m.match[uri]
             ELSE \/ \E k \in paths : IsLongestPrefix(k, paths, uri) /\ found = m.prefix[k]
                  \/ found = NULL /\ (PrefixesOf(paths, uri) = {} \/ Nested(paths))
<1> DEFINE paths == DOMAIN m.prefix
           found == FindHandler(m.match, m.prefix, uri)
           bound == {k \in UpperBound(paths, uri) : IsPrefix(k, uri)}
<1>1. \A k \in paths : k \in Seq(Nat)
  BY WebAssumption
<1>2. \A k \in PrefixesOf(paths, uri) : k \in Seq(Nat) /\ Len(k) <= Len(uri) /\ Len(k) \in Nat
  BY <1>1 DEF PrefixesOf, IsPrefix
<1>3. CASE uri \in DOMAIN m.match
  BY <1>3 DEF FindHandler
<1>4. CASE uri \notin DOMAIN m.match /\ uri \in paths
  <2>1. IsPrefix(uri, uri)
    BY PrefixElements
  <2>2. IsLongestPrefix(uri, paths, uri)
    BY <1>2, <1>4, <2>1 DEF IsLongestPrefix, PrefixesOf
  <2> QED
    BY <1>4, <2>2 DEF FindHandler
<1>5. CASE uri \notin DOMAIN m.match /\ uri \notin paths
  <2>1. \A k \in PrefixesOf(paths, uri) : IsStrictPrefix(k, uri) /\ Less(k, uri) /\ k \in paths
    BY <1>5 DEF PrefixesOf, IsStrictPrefix, Less
  <2>2. ASSUME NEW k \in bound PROVE IsLongestPrefix(k, paths, uri)
    <3>1. /\ k \in paths /\ IsPrefix(k, uri) /\ k \in PrefixesOf(paths, uri)
          /\ \A l \in paths : Less(l, uri) => ~Less(k, l)
      BY <2>2 DEF UpperBound, PrefixesOf
    <3>2. ASSUME NEW l \in PrefixesOf(paths, uri), Len(k) < Len(l) PROVE FALSE
      <4>1. /\ k \in Seq(Nat) /\ l \in Seq(Nat)
            /\ \A i \in 1 .. Len(k) : k[i] = uri[i]
            /\ \A i \in 1 .. Len(l) : l[i] = uri[i]
        BY <1>2, <3>1, <3>2, PrefixElements DEF PrefixesOf
      <4>2. \A i \in 1 .. Len(k) : k[i] = l[i]
        BY <3>2, <4>1
      <4>3. Less(k, l)
        BY <3>2, <4>1, <4>2, LessElements
      <4> QED
        BY <2>1, <3>1, <3>2, <4>3
    <3> QED
      BY <1>2, <3>1, <3>2 DEF IsLongestPrefix
  <2>3. ASSUME bound = {}, NEW k \in PrefixesOf(paths, uri) PROVE Nested(paths)
    <3>1. k \notin UpperBound(paths, uri) /\ k \in paths /\ Less(k, uri) /\ IsStrictPrefix(k, uri)
      BY <2>1, <2>3 DEF PrefixesOf
    <3>2. PICK l \in paths : Less(l, uri) /\ Less(k, l)
      BY <3>1 DEF UpperBound
    <3>3. IsStrictPrefix(k, l)
      BY <1>1, <3>1, <3>2, Between
    <3> QED
      BY <3>1, <3>2, <3>3 DEF Nested
  <2>4. CASE bound # {}
    <3> DEFINE c == CHOOSE k \in bound : TRUE
    <3>1. c \in bound /\ c \in paths
      BY <2>4 DEF UpperBound
    <3>2. found = m.prefix[c]
      BY <1>5, <2>4 DEF FindHandler
    <3> QED
      BY <1>5, <2>2, <3>1, <3>2
  <2>5. CASE bound = {}
    <3>1. found = NULL
      BY <1>5, <2>5 DEF FindHandler
    <3> QED
      BY <1>5, <2>3, <2>5, <3>1
  <2> QED
    BY <2>4, <2>5
<1> QED
  BY <1>3, <1>4, <1>5

-----------------------------------------------------------------------------
(* Parameters.                                                             *)

(* setParameters.                                                          *)
LEMMA SetParametersBytes ==
  ASSUME NEW r \in Plains \cup Multiparts, NEW junk \in {NUL, Equals}
  PROVE  AreBytes(SetParameters(Source(r), junk))
BY DEF AreBytes, ParametersAreBytes

(* parametersData[key] = value, for the value of a part.                   *)
LEMMA AssignBytes ==
  ASSUME NEW ps, NEW key, NEW value \in Seq(Bytes), AreBytes(ps)
  PROVE  AreBytes(Assign(ps, key, value))
BY DEF Assign, AreBytes

(* A part that has been there has a last one with its name.                *)
LEMMA LastExists ==
  ASSUME NEW fs \in Seq(Field), NEW n \in DOMAIN fs
  PROVE  LastNamed(fs, fs[n].key) # {}
<1> DEFINE l == Len(fs)
           named == {i \in 1 .. l : fs[i].key = fs[n].key}
           after == {l - i : i \in named}
<1>1. l \in Nat /\ DOMAIN fs = 1 .. l /\ n \in named
  OBVIOUS
<1> HIDE DEF l
<1>2. after \subseteq Nat /\ after # {}
  BY <1>1
<1> HIDE DEF after
<1>3. PICK x \in after : \A y \in after : ~(<<y, x>> \in OpToRel(<, Nat))
  BY <1>2, NatLessThanWellFounded, WFMin
<1>4. PICK i \in named : x = l - i
  BY <1>3 DEF after
<1>5. ASSUME NEW j \in i + 1 .. l, fs[j].key = fs[n].key PROVE FALSE
  <2>1. j \in named /\ l - j \in after /\ l - j < l - i
    BY <1>1, <1>4, <1>5 DEF after
  <2> QED
    BY <1>2, <1>3, <1>4, <2>1 DEF OpToRel
<1>6. i \in LastNamed(fs, fs[n].key)
  BY <1>1, <1>4, <1>5 DEF LastNamed, l
<1> QED
  BY <1>6

(* Where the last part of a name is after one more part.                   *)
LEMMA LastNamedAppend ==
  ASSUME NEW fs \in Seq(Field), NEW part \in Field, NEW k
  PROVE  LastNamed(Append(fs, part), k) =
           IF k = part.key THEN {Len(fs) + 1} ELSE LastNamed(fs, k)
<1> DEFINE gs == Append(fs, part)
<1>1. /\ Len(gs) = Len(fs) + 1 /\ DOMAIN gs = 1 .. Len(fs) + 1 /\ DOMAIN fs = 1 .. Len(fs)
      /\ \A i \in 1 .. Len(fs) : gs[i] = fs[i]
      /\ gs[Len(fs) + 1] = part /\ Len(fs) \in Nat
  OBVIOUS
<1> HIDE DEF gs
<1>2. CASE k = part.key
  <2>1. ASSUME NEW i \in LastNamed(gs, k) PROVE i = Len(fs) + 1
    <3>1. i \in 1 .. Len(fs) + 1 /\ \A j \in i + 1 .. Len(fs) + 1 : gs[j].key # k
      BY <1>1, <2>1 DEF LastNamed
    <3>2. i < Len(fs) + 1 => Len(fs) + 1 \in i + 1 .. Len(fs) + 1
      BY <1>1, <3>1
    <3> QED
      BY <1>1, <1>2, <3>1, <3>2
  <2>2. Len(fs) + 1 \in LastNamed(gs, k)
    BY <1>1, <1>2 DEF LastNamed
  <2> QED
    BY <1>2, <2>1, <2>2 DEF gs
<1>3. CASE k # part.key
  <2>1. ASSUME NEW i \in LastNamed(gs, k) PROVE i \in LastNamed(fs, k)
    <3>1. i \in 1 .. Len(fs) + 1 /\ gs[i].key = k /\ \A j \in i + 1 .. Len(fs) + 1 : gs[j].key # k
      BY <1>1, <2>1 DEF LastNamed
    <3>2. i \in 1 .. Len(fs)
      BY <1>1, <1>3, <3>1
    <3> QED
      BY <1>1, <3>1, <3>2 DEF LastNamed
  <2>2. ASSUME NEW i \in LastNamed(fs, k) PROVE i \in LastNamed(gs, k)
    <3>1. i \in 1 .. Len(fs) /\ fs[i].key = k /\ \A j \in i + 1 .. Len(fs) : fs[j].key # k
      BY <1>1, <2>2 DEF LastNamed
    <3>2. \A j \in i + 1 .. Len(fs) + 1 : gs[j].key # k
      BY <1>1, <1>3, <3>1
    <3> QED
      BY <1>1, <3>1, <3>2 DEF LastNamed
  <2> QED
    BY <1>3, <2>1, <2>2 DEF gs
<1> QED
  BY <1>2, <1>3

(* Without parts the parameters are those of the form or query.            *)
LEMMA CollectedNone ==
  ASSUME NEW r
  PROVE  Received(r, <<>>) = ParametersIn(Source(r))
<1> DEFINE base == ParametersIn(Source(r))
           none == [k \in DOMAIN base |-> base[k]]
<1>1. base = none
  BY DEF ParametersIn
<1> HIDE DEF base
<1>2. {<<>>[i].key : i \in DOMAIN <<>>} = {}
  OBVIOUS
<1>3. Collected(<<>>, base) = none
  BY <1>2 DEF Collected
<1> QED
  BY <1>1, <1>3 DEF Received, base

(* One more part is one more assignment.                                   *)
LEMMA CollectedAppend ==
  ASSUME NEW fs \in Seq(Field), NEW part \in Field, NEW r
  PROVE  Received(r, Append(fs, part)) = Assign(Received(r, fs), part.key, part.value)
<1> DEFINE base == ParametersIn(Source(r))
           gs == Append(fs, part)
           names == {fs[i].key : i \in DOMAIN fs}
           more == {gs[i].key : i \in DOMAIN gs}
           all == Received(r, fs)
<1>1. /\ DOMAIN gs = 1 .. Len(fs) + 1 /\ DOMAIN fs = 1 .. Len(fs)
      /\ \A i \in 1 .. Len(fs) : gs[i] = fs[i]
      /\ gs[Len(fs) + 1] = part /\ Len(fs) \in Nat
  OBVIOUS
<1>2. Received(r, gs) = [k \in more \cup DOMAIN base |->
                           IF k \in more THEN gs[CHOOSE i \in LastNamed(gs, k) : TRUE].value
                           ELSE base[k]]
  BY DEF Received, Collected
<1>3. all = [k \in names \cup DOMAIN base |->
               IF k \in names THEN fs[CHOOSE i \in LastNamed(fs, k) : TRUE].value
               ELSE base[k]]
  BY DEF Received, Collected
<1>4. \A k : LastNamed(gs, k) = IF k = part.key THEN {Len(fs) + 1} ELSE LastNamed(fs, k)
  BY LastNamedAppend
<1>5. more = names \cup {part.key}
  <2> HIDE DEF gs
  <2>1. \A i \in 1 .. Len(fs) + 1 : i \in 1 .. Len(fs) \/ i = Len(fs) + 1
    BY <1>1
  <2>2. 1 .. Len(fs) \subseteq 1 .. Len(fs) + 1 /\ Len(fs) + 1 \in 1 .. Len(fs) + 1
    BY <1>1
  <2> QED
    BY <1>1, <2>1, <2>2
<1>6. ASSUME NEW k \in names, k # part.key
      PROVE  gs[CHOOSE i \in LastNamed(gs, k) : TRUE] = fs[CHOOSE i \in LastNamed(fs, k) : TRUE]
  <2>1. LastNamed(fs, k) # {} /\ LastNamed(fs, k) \subseteq 1 .. Len(fs)
    <3>1. PICK n \in DOMAIN fs : fs[n].key = k
      BY <1>6
    <3>2. LastNamed(fs, k) # {}
      BY <3>1, LastExists
    <3> QED
      BY <1>1, <3>2 DEF LastNamed
  <2>2. LastNamed(gs, k) = LastNamed(fs, k)
    BY <1>4, <1>6
  <2> HIDE DEF gs
  <2>3. (CHOOSE i \in LastNamed(fs, k) : TRUE) \in 1 .. Len(fs)
    BY <2>1
  <2> QED
    BY <1>1, <2>2, <2>3
<1>7. gs[CHOOSE i \in LastNamed(gs, part.key) : TRUE] = part
  <2>1. LastNamed(gs, part.key) = {Len(fs) + 1}
    BY <1>4
  <2> HIDE DEF gs
  <2> QED
    BY <1>1, <2>1
<1>8. Assign(all, part.key, part.value) =
        [k \in DOMAIN all \cup {part.key} |-> IF k = part.key THEN part.value ELSE all[k]]
  BY DEF Assign
<1> HIDE DEF base, gs, more, names, all
<1>9. DOMAIN all \cup {part.key} = more \cup DOMAIN base
  BY <1>3, <1>5
<1> DEFINE old(k) == IF k = part.key THEN part.value ELSE all[k]
           new(k) == IF k \in more THEN gs[CHOOSE i \in LastNamed(gs, k) : TRUE].value
                     ELSE base[k]
<1>10. ASSUME NEW k \in more \cup DOMAIN base PROVE old(k) = new(k)
  <2>1. CASE k = part.key
    BY <1>5, <1>7, <2>1
  <2>2. CASE k # part.key /\ k \in names
    <3>1. all[k] = fs[CHOOSE i \in LastNamed(fs, k) : TRUE].value
      BY <1>3, <2>2
    <3>2. gs[CHOOSE i \in LastNamed(gs, k) : TRUE] = fs[CHOOSE i \in LastNamed(fs, k) : TRUE]
      BY <1>6, <2>2
    <3>3. k \in more
      BY <1>5, <2>2
    <3> QED
      BY <2>2, <3>1, <3>2, <3>3, Zenon
  <2>3. CASE k # part.key /\ k \notin names
    BY <1>3, <1>5, <1>10, <2>3
  <2> QED
    BY <2>1, <2>2, <2>3
<1>11. Received(r, gs) = [k \in more \cup DOMAIN base |-> new(k)]
  BY <1>2
<1>12. Assign(all, part.key, part.value) = [k \in more \cup DOMAIN base |-> old(k)]
  BY <1>8, <1>9
<1> HIDE DEF old, new
<1> QED
  BY <1>10, <1>11, <1>12 DEF gs, all

(* Two assignments: of the same parameter, and of two.                     *)
LEMMA AssignTwice ==
  ASSUME NEW ps, NEW k, NEW l, NEW v, NEW w
  PROVE  /\ Assign(Assign(ps, k, v), k, w) = Assign(ps, k, w)
         /\ k # l => Assign(Assign(ps, k, v), l, w) = Assign(Assign(ps, l, w), k, v)
BY DEF Assign

(* A part that ends is one more parameter, or another value of one.        *)
LEMMA GivenMore ==
  ASSUME NEW ps, NEW fs \in Seq(Field), NEW part \in Field, NEW r \in Multiparts,
         Given(ps, r, fs)
  PROVE  Given(Assign(ps, part.key, part.value), r, Append(fs, part))
<1> DEFINE all == Received(r, fs)
           gs == Append(fs, part)
           key == part.key
           value == part.value
<1>1. Received(r, gs) = Assign(all, key, value)
  BY CollectedAppend
<1>2. CASE ps = all
  BY <1>1, <1>2 DEF Given
<1>3. CASE ps # all
  <2>1. ps = Assign(all, <<>>, <<>>) /\ \A i \in DOMAIN fs : fs[i].key # <<>>
    BY <1>3 DEF Given
  <2>2. CASE key = <<>>
    <3>1. Assign(ps, key, value) = Assign(all, key, value)
      BY <2>1, <2>2, AssignTwice
    <3> QED
      BY <1>1, <3>1 DEF Given
  <2>3. CASE key # <<>>
    <3>1. Assign(ps, key, value) = Assign(Assign(all, key, value), <<>>, <<>>)
      BY <2>1, <2>3, AssignTwice
    <3>2. \A i \in DOMAIN gs : gs[i].key # <<>>
      BY <2>1, <2>3
    <3> HIDE DEF gs, all, key, value
    <3> QED
      BY <1>1, <3>1, <3>2 DEF Given, gs, key, value
  <2> QED
    BY <2>2, <2>3
<1> QED
  BY <1>2, <1>3

(* The part mongoose ends that there never was, however often.             *)
LEMMA GivenPhantom ==
  ASSUME NEW ps, NEW r \in Multiparts, Given(ps, r, <<>>)
  PROVE  Given(Assign(ps, <<>>, <<>>), r, <<>>)
<1>1. DOMAIN <<>> = {}
  OBVIOUS
<1>2. CASE ps = Received(r, <<>>)
  BY <1>1, <1>2 DEF Given
<1>3. CASE ps = Assign(Received(r, <<>>), <<>>, <<>>)
  <2>1. Assign(ps, <<>>, <<>>) = ps
    BY <1>3, AssignTwice
  <2> QED
    BY <2>1
<1> QED
  BY <1>2, <1>3 DEF Given

(* setParameters gives what a request without parts should be given.       *)
LEMMA GivenFirst ==
  ASSUME PlainIsParsed, NEW r \in Plains \cup Multiparts, NEW junk \in {NUL, Equals},
         IsPlain(Source(r))
  PROVE  Given(SetParameters(Source(r), junk), r, <<>>) /\ Uncut(<<>>)
<1>1. Uncut(<<>>)
  BY DEF Uncut
<1> QED
  BY <1>1, CollectedNone DEF PlainIsParsed, Given

-----------------------------------------------------------------------------
(* Answers.                                                                *)

(* What no answer changes.                                                 *)
Same(c, d) ==
  /\ d.http = c.http /\ d.status = c.status /\ d.request = c.request
  /\ d.parameters = c.parameters /\ d.handler = c.handler /\ d.userContext = c.userContext
  /\ d.requests = c.requests /\ d.fields = c.fields /\ d.authorized = c.authorized

(* The fields of a connection.                                             *)
LEMMA ConnectionFields ==
  DOMAIN NewConnection =
    {"http", "status", "request", "parameters", "handler", "userContext", "response",
     "code", "sent", "closing", "requests", "fields", "authorized"}
BY DEF NewConnection

(* HttpResponse::close.                                                    *)
LEMMA Closes ==
  ASSUME NEW c, ShapeInv(c), NEW code \in Codes
  PROVE  LET d == Close(c, code)
         IN  /\ ShapeInv(d) /\ Same(c, d)
             /\ d.response = "closed" /\ d.sent = c.sent /\ d.closing = c.closing
BY ConnectionFields DEF Close, ShapeInv, Same

(* The handler, the file or the 501 closes a response that is open.        *)
LEMMA AnsweredCloses ==
  ASSUME NEW c, ShapeInv(c), c.response # "flushed"
  PROVE  LET d == Answered(c)
         IN  /\ ShapeInv(d) /\ Same(c, d)
             /\ d.response = "closed" /\ d.sent = c.sent
<1>1. {200, 404, 501} \subseteq Codes
  BY DEF Codes
<1>2. CASE c.response = "closed"
  <2>1. Answered(c) = c
    BY <1>2 DEF Answered
  <2> QED
    BY <1>2, <2>1 DEF Same
<1>3. CASE c.response = "open"
  <2>1. PICK code \in Codes : Answered(c) = Close(c, code)
    <3>1. /\ Close(c, 200).response = "closed" /\ Close(c, 404).response = "closed"
      BY <1>1, Closes
    <3> QED
      BY <1>1, <1>3, <3>1 DEF Answered, RecieveRequest, MakeFileResponse
  <2> QED
    BY <2>1, Closes
<1> QED
  BY <1>2, <1>3 DEF ShapeInv

(* The end of dispatchEvent sends the one answer of a complete request.    *)
LEMMA ProceedAnswers ==
  ASSUME NEW c, ShapeInv(c), AnswerInv(c)
  PROVE  LET d == Proceed(c)
         IN  /\ ShapeInv(d) /\ AnswerInv(d) /\ Same(c, d)
             /\ c.status = "complete" => d.response = "flushed"
             /\ c.status # "complete" \/ c.response = "flushed" => d = c
             /\ c.response # "open" => d.code = c.code
<1>1. CASE c.status # "complete" \/ c.response = "flushed"
  BY <1>1 DEF Proceed, Same
<1>2. CASE c.status = "complete" /\ c.response # "flushed"
  <2> DEFINE a == Answered(c)
             d == Flush(a)
  <2>1. ShapeInv(a) /\ Same(c, a) /\ a.response = "closed" /\ a.sent = c.sent
    BY <1>2, AnsweredCloses
  <2>2. c.response # "open" => a.code = c.code
    BY DEF Answered
  <2> HIDE DEF a
  <2>3. /\ DOMAIN d = DOMAIN a /\ Same(a, d) /\ d.code = a.code
        /\ d.response = "flushed" /\ d.closing = TRUE /\ d.sent = Append(a.sent, a.code)
    BY <2>1, ConnectionFields DEF Flush, ShapeInv, Same
  <2>4. d.sent \in Seq(Codes) /\ Len(d.sent) = Len(c.sent) + 1
    BY <2>1, <2>3 DEF ShapeInv
  <2>5. Proceed(c) = d
    BY <1>2 DEF Proceed, a
  <2>6. Same(c, d)
    BY <2>1, <2>3 DEF Same
  <2> HIDE DEF d
  <2>7. ShapeInv(d)
    BY <2>1, <2>3, <2>4 DEF ShapeInv, Same
  <2>8. Len(c.sent) = c.requests - 1 /\ c.requests \in Nat /\ d.requests = c.requests
    BY <1>2, <2>6 DEF AnswerInv, ShapeInv, Same
  <2>9. AnswerInv(d)
    BY <2>3, <2>4, <2>8 DEF AnswerInv
  <2> QED
    BY <1>2, <2>3, <2>5, <2>6, <2>7, <2>9, <2>2
<1> QED
  BY <1>1, <1>2

(* A request that arrives: reset, findHandler and authenticate.            *)
Begun(r, ok, junk, http, status) ==
  Authenticate([Reset(con, r, junk) EXCEPT !.http = http, !.status = status], ok)

(* It is answered by 401, or open, with its handler and no context.        *)
LEMMA Arrived ==
  ASSUME IInv, Arrives, NEW r \in Plains \cup Multiparts, NEW ok, NEW junk \in {NUL, Equals},
         NEW http, NEW status \in {"mpart_init", "complete"}
  PROVE  LET c == Begun(r, ok, junk, http, status)
         IN  /\ ShapeInv(c) /\ AnswerInv(c) /\ RequestInv(c, maps)
             /\ c.http = http /\ c.status = status /\ c.request = r
             /\ c.userContext = NULL /\ c.fields = <<>>
             /\ c.parameters = SetParameters(Source(r), junk) /\ c.code = 200
             /\ c.response = IF c.authorized THEN "open" ELSE "flushed"
             /\ ~c.authorized => ~ok
<1> DEFINE b == [Reset(con, r, junk) EXCEPT !.http = http, !.status = status]
           c == Authenticate(b, ok)
<1> SUFFICES /\ ShapeInv(c) /\ AnswerInv(c) /\ RequestInv(c, maps)
             /\ c.http = http /\ c.status = status /\ c.request = r
             /\ c.userContext = NULL /\ c.fields = <<>>
             /\ c.parameters = SetParameters(Source(r), junk) /\ c.code = 200
             /\ c.response = IF c.authorized THEN "open" ELSE "flushed"
             /\ ~c.authorized => ~ok
  BY Zenon DEF Begun
<1>1. /\ DOMAIN con = DOMAIN NewConnection /\ con.code \in Codes
      /\ con.sent \in Seq(Codes) /\ con.requests \in Nat /\ Len(con.sent) = con.requests
      /\ con.userContext = NULL /\ con.closing \in BOOLEAN
  <2>1. CASE con.http = "idle"
    <3>1. con = NewConnection
      BY <2>1 DEF IInv, ConInv, Arrives
    <3>2. NewConnection.sent = <<>> /\ NewConnection.requests = 0 /\ NewConnection.userContext = NULL
          /\ NewConnection.closing = FALSE /\ NewConnection.code = 200
      BY DEF NewConnection
    <3>3. <<>> \in Seq(Codes) /\ Len(<<>>) = 0 /\ 200 \in Codes
      BY DEF Codes
    <3>4. con.closing \in BOOLEAN
      BY <3>1, <3>2
    <3> QED
      BY <3>1, <3>2, <3>3, <3>4
  <2>2. CASE con.http = "end"
    <3>1. ShapeInv(con) /\ AnswerInv(con) /\ ContextInv(con) /\ ParserInv(con)
      BY <2>2 DEF IInv, ConInv, Arrives
    <3> QED
      BY <2>2, <3>1 DEF ShapeInv, AnswerInv, ContextInv, ParserInv
  <2> QED
    BY <2>1, <2>2 DEF Arrives
<1>2. /\ DOMAIN b = DOMAIN NewConnection
      /\ b.http = http /\ b.status = status /\ b.request = r
      /\ b.parameters = SetParameters(Source(r), junk) /\ b.response = "open" /\ b.code = 200
      /\ b.fields = <<>> /\ b.requests = con.requests + 1
      /\ b.handler = FindHandler(maps.match, maps.prefix, r.uri)
      /\ b.sent = con.sent /\ b.userContext = NULL /\ b.closing = con.closing
  BY <1>1, ConnectionFields DEF Reset
<1> HIDE DEF b
<1>3. 200 \in Codes /\ 401 \in Codes /\ <<>> \in Seq(Field)
  BY DEF Codes
<1>4. CASE b.handler \in NeedAuthentication /\ ~ok
  <2>1. /\ DOMAIN c = DOMAIN b /\ c.http = b.http /\ c.status = b.status /\ c.request = b.request
        /\ c.parameters = b.parameters /\ c.handler = b.handler /\ c.userContext = b.userContext
        /\ c.requests = b.requests /\ c.fields = b.fields /\ c.code = b.code
        /\ c.response = "flushed" /\ c.sent = Append(b.sent, 401) /\ c.closing = TRUE
        /\ c.authorized = FALSE
    BY <1>2, <1>4, ConnectionFields DEF Authenticate
  <2> HIDE DEF c
  <2>2. /\ c.sent \in Seq(Codes) /\ Len(c.sent) = con.requests + 1
        /\ c.sent # <<>> /\ c.sent[Len(c.sent)] = 401
    BY <1>1, <1>2, <1>3, <2>1
  <2>3. ShapeInv(c)
    <3>1. c.closing \in BOOLEAN /\ c.authorized \in BOOLEAN
      BY <2>1
    <3>2. c.status = status /\ c.response = "flushed" /\ c.code = 200 /\ c.requests = con.requests + 1
          /\ c.fields = <<>> /\ DOMAIN c = DOMAIN NewConnection
      BY <1>2, <2>1
    <3> QED
      BY <1>1, <1>3, <2>2, <3>1, <3>2 DEF ShapeInv
  <2>4. AnswerInv(c)
    BY <1>1, <1>2, <2>1, <2>2 DEF AnswerInv
  <2>5. RequestInv(c, maps)
    BY <1>2, <1>4, <2>1, <2>2, SetParametersBytes DEF RequestInv
  <2>6. ~c.authorized => ~ok
    BY <1>4, <2>1
  <2>7. c.response = IF c.authorized THEN "open" ELSE "flushed"
    BY <2>1
  <2> QED
    BY <1>2, <2>1, <2>3, <2>4, <2>5, <2>6, <2>7
<1>5. CASE ~(b.handler \in NeedAuthentication /\ ~ok)
  <2>1. /\ DOMAIN c = DOMAIN b /\ c.http = b.http /\ c.status = b.status /\ c.request = b.request
        /\ c.parameters = b.parameters /\ c.handler = b.handler /\ c.userContext = b.userContext
        /\ c.requests = b.requests /\ c.fields = b.fields /\ c.code = b.code
        /\ c.response = b.response /\ c.sent = b.sent /\ c.closing = b.closing
        /\ c.authorized = TRUE
    BY <1>2, <1>5, ConnectionFields DEF Authenticate
  <2> HIDE DEF c
  <2>2. ShapeInv(c)
    <3>1. c.closing \in BOOLEAN /\ c.authorized \in BOOLEAN
      BY <1>1, <1>2, <2>1
    <3>2. c.status = status /\ c.response = "open" /\ c.code = 200 /\ c.requests = con.requests + 1
          /\ c.fields = <<>> /\ c.sent = con.sent /\ DOMAIN c = DOMAIN NewConnection
      BY <1>2, <2>1
    <3> QED
      BY <1>1, <1>3, <3>1, <3>2 DEF ShapeInv
  <2>3. AnswerInv(c)
    BY <1>1, <1>2, <2>1 DEF AnswerInv
  <2>4. RequestInv(c, maps)
    BY <1>2, <2>1, SetParametersBytes DEF RequestInv
  <2>5. ~c.authorized => ~ok
    BY <1>5, <2>1
  <2>6. c.response = IF c.authorized THEN "open" ELSE "flushed"
    BY <1>2, <2>1
  <2> QED
    BY <1>2, <2>1, <2>2, <2>3, <2>4, <2>5, <2>6
<1> QED
  BY <1>4, <1>5

(* What proceeds, the answer apart, is what went in.                       *)
LEMMA Proceeds ==
  ASSUME NEW m, NEW c, ShapeInv(c), AnswerInv(c), RequestInv(c, m), ContextInv(c),
         c.http \in {"parts", "part", "end"}, c.http = "part" => c.fields # <<>>,
         c.http = "end" => c.status = "complete", c.response = "flushed" => c.status = "complete"
  PROVE  LET d == Proceed(c)
         IN  /\ ConInv(d, m) /\ DOMAIN d = DOMAIN NewConnection
             /\ d.userContext = c.userContext /\ (GivenInv(c) => GivenInv(d))
<1> DEFINE d == Proceed(c)
<1>1. /\ ShapeInv(d) /\ AnswerInv(d) /\ Same(c, d)
      /\ c.status = "complete" => d.response = "flushed"
      /\ c.status # "complete" \/ c.response = "flushed" => d = c
      /\ c.response # "open" => d.code = c.code
  BY ProceedAnswers
<1> HIDE DEF d
<1>2. RequestInv(d, m)
  <2>1. CASE c.authorized
    BY <1>1, <2>1 DEF RequestInv, Same
  <2>2. CASE ~c.authorized
    BY <1>1, <2>2 DEF RequestInv
  <2> QED
    BY <2>1, <2>2
<1>3. ContextInv(d)
  BY <1>1 DEF ContextInv, Same
<1>4. ParserInv(d)
  BY <1>1 DEF ParserInv, Same
<1>5. d.http = c.http /\ d.userContext = c.userContext /\ DOMAIN d = DOMAIN NewConnection
  BY <1>1 DEF Same, ShapeInv
<1>6. ASSUME GivenInv(c) PROVE GivenInv(d)
  <2>1. CASE c.status # "complete" \/ c.response = "flushed"
    BY <1>1, <1>6, <2>1
  <2>2. CASE c.status = "complete" /\ c.response # "flushed"
    <3>1. d.response = "flushed" /\ (d.code = 200 => c.code = 200)
      BY <1>1, <1>6, <2>2 DEF GivenInv, ShapeInv
    <3>2. c.http \in {"parts", "part"} =>
            ~(c.authorized /\ c.handler # NULL /\ c.code = 200 /\ IsPlain(Source(c.request)))
      BY <1>6, <2>2 DEF GivenInv
    <3> QED
      BY <1>1, <1>6, <3>1, <3>2 DEF GivenInv, Same
  <2> QED
    BY <2>1, <2>2
<1> QED
  BY <1>1, <1>2, <1>3, <1>4, <1>5, <1>6 DEF ConInv, d

-----------------------------------------------------------------------------
(* The invariant is inductive: the events that begin a request.            *)

(* There is no connection yet.                                             *)
LEMMA InitInv == Init => IInv /\ CountInv /\ ReceivedInv
BY DEF Init, IInv, CountInv, ReceivedInv

(* MG_EV_ACCEPT, MG_EV_CLOSE: no context is there.                         *)
LEMMA AcceptOrClose ==
  ASSUME IInv, Accept \/ CloseEvent
  PROVE  /\ IInv' /\ (CountInv => CountInv')
         /\ (PlainIsParsed /\ ReceivedInv => ReceivedInv')
<1>1. CASE Accept
  <2>1. NewConnection.http = "idle" /\ NewConnection.userContext = NULL
    BY DEF NewConnection
  <2> QED
    BY <1>1, <2>1 DEF Accept, IInv, ConInv, CountInv, ReceivedInv
<1>2. CASE CloseEvent
  <2>1. con.http = "idle" => con.userContext = NULL
    <3>1. NewConnection.userContext = NULL
      BY DEF NewConnection
    <3> QED
      BY <1>2, <3>1 DEF CloseEvent, IInv, ConInv
  <2>2. con.http = "end" => con.userContext = NULL
    BY <1>2 DEF CloseEvent, IInv, ConInv, ContextInv
  <2> QED
    BY <1>2, <2>1, <2>2 DEF CloseEvent, IInv, CountInv, ReceivedInv
<1> QED
  BY <1>1, <1>2

(* What the invariant asks of an event that leaves con as d says.          *)
LEMMA StepInv ==
  ASSUME IInv, NEW d, con # NULL, con' = d, UNCHANGED maps, ConInv(d, maps),
         DOMAIN d = DOMAIN NewConnection
  PROVE  /\ IInv'
         /\ NullIsNoConnection => (CountInv' <=> contexts' = IF d.userContext # NULL THEN 1 ELSE 0)
         /\ GivenInv(d) => ReceivedInv'
<1>1. NullIsNoConnection => d # NULL
  BY DEF NullIsNoConnection
<1>2. GivenInv(d) => ReceivedInv'
  BY DEF ReceivedInv
<1> QED
  BY <1>1, <1>2 DEF IInv, CountInv

(* MG_EV_HTTP_REQUEST                                                      *)
LEMMA HttpRequestInv ==
  ASSUME IInv, NEW r \in Plains, NEW ok \in BOOLEAN, NEW junk \in {NUL, Equals},
         HttpRequest(r, ok, junk)
  PROVE  /\ IInv' /\ (NullIsNoConnection /\ CountInv => CountInv')
         /\ (PlainIsParsed /\ ReceivedInv => ReceivedInv')
<1> DEFINE c == Begun(r, ok, junk, "end", "complete")
           d == Proceed(c)
<1>1. /\ ShapeInv(c) /\ AnswerInv(c) /\ RequestInv(c, maps)
      /\ c.http = "end" /\ c.status = "complete" /\ c.userContext = NULL
      /\ c.code = 200 /\ c.request = r /\ c.fields = <<>>
      /\ c.parameters = SetParameters(Source(r), junk)
  <2>1. Arrives
    BY DEF HttpRequest
  <2> QED
    BY <2>1, Arrived
<1>2. con # NULL /\ con' = d /\ UNCHANGED <<maps, contexts>>
  BY DEF HttpRequest, Arrives, Begun
<1> HIDE DEF c
<1>3. ContextInv(c)
  BY <1>1 DEF ContextInv
<1>4. PlainIsParsed => GivenInv(c)
  BY <1>1, GivenFirst DEF GivenInv
<1>5. /\ ConInv(d, maps) /\ DOMAIN d = DOMAIN NewConnection /\ d.userContext = NULL
      /\ PlainIsParsed => GivenInv(d)
  BY <1>1, <1>3, <1>4, Proceeds
<1> HIDE DEF d
<1>6. con.userContext = NULL
  <2>1. NewConnection.userContext = NULL
    BY DEF NewConnection
  <2> QED
    BY <2>1 DEF HttpRequest, Arrives, IInv, ConInv, ContextInv
<1> QED
  BY <1>2, <1>5, <1>6, StepInv DEF CountInv

(* A new request finds no context.                                         *)
LEMMA NoContext == IInv /\ Arrives => con.userContext = NULL
<1>1. NewConnection.userContext = NULL
  BY DEF NewConnection
<1> QED
  BY <1>1 DEF Arrives, IInv, ConInv, ContextInv

(* MG_EV_HTTP_MULTIPART_REQUEST, refused.                                  *)
LEMMA MultipartRefusedInv ==
  ASSUME IInv, NEW r \in Multiparts, NEW ok \in BOOLEAN, NEW junk \in {NUL, Equals},
         MultipartRefused(r, ok, junk)
  PROVE  /\ IInv' /\ (NullIsNoConnection /\ CountInv => CountInv')
         /\ (PlainIsParsed /\ ReceivedInv => ReceivedInv')
<1> DEFINE c == Begun(r, ok, junk, "parts", "mpart_init")
           b == [c EXCEPT !.status = "complete"]
           d == Proceed(b)
<1>1. /\ ShapeInv(c) /\ AnswerInv(c) /\ RequestInv(c, maps)
      /\ c.http = "parts" /\ c.userContext = NULL /\ c.code = 200
  <2>1. Arrives
    BY DEF MultipartRefused
  <2> QED
    BY <2>1, Arrived
<1>2. con # NULL /\ con' = d /\ UNCHANGED <<maps, contexts>> /\ ~c.authorized
  BY DEF MultipartRefused, Arrives, Begun
<1> HIDE DEF c
<1>3. /\ DOMAIN b = DOMAIN c /\ b.status = "complete" /\ b.http = c.http /\ b.request = c.request
      /\ b.parameters = c.parameters /\ b.handler = c.handler /\ b.userContext = c.userContext
      /\ b.response = c.response /\ b.code = c.code /\ b.sent = c.sent /\ b.closing = c.closing
      /\ b.requests = c.requests /\ b.fields = c.fields /\ b.authorized = c.authorized
  BY <1>1, ConnectionFields DEF ShapeInv
<1> HIDE DEF b
<1>4. ShapeInv(b) /\ AnswerInv(b)
  BY <1>1, <1>3 DEF ShapeInv, AnswerInv
<1>5. RequestInv(b, maps) /\ ContextInv(b)
  BY <1>1, <1>2, <1>3 DEF RequestInv, ContextInv
<1>6. GivenInv(b)
  BY <1>1, <1>2, <1>3 DEF GivenInv
<1>7. /\ ConInv(d, maps) /\ DOMAIN d = DOMAIN NewConnection /\ d.userContext = NULL
      /\ GivenInv(d)
  BY <1>1, <1>3, <1>4, <1>5, <1>6, Proceeds
<1> HIDE DEF d
<1>8. con.userContext = NULL
  BY NoContext DEF MultipartRefused
<1> QED
  BY <1>2, <1>7, <1>8, StepInv DEF CountInv

(* MG_EV_HTTP_MULTIPART_REQUEST, taken: the context is allocated.          *)
LEMMA BeginMultipartInv ==
  ASSUME IInv, NEW r \in Multiparts, NEW ok \in BOOLEAN, NEW junk \in {NUL, Equals},
         BeginMultipart(r, ok, junk)
  PROVE  /\ IInv' /\ (NullIsNoConnection /\ CountInv => CountInv')
         /\ (PlainIsParsed /\ ReceivedInv => ReceivedInv')
<1> DEFINE c == Begun(r, ok, junk, "parts", "mpart_init")
           empty == [key |-> <<>>, value |-> <<>>]
           b == [c EXCEPT !.userContext = empty]
           d == Proceed(b)
<1>1. /\ ShapeInv(c) /\ AnswerInv(c) /\ RequestInv(c, maps)
      /\ c.http = "parts" /\ c.status = "mpart_init"
      /\ c.response = IF c.authorized THEN "open" ELSE "flushed"
      /\ c.code = 200 /\ c.request = r /\ c.fields = <<>>
      /\ c.parameters = SetParameters(Source(r), junk)
  <2>1. Arrives
    BY DEF BeginMultipart
  <2> QED
    BY <2>1, Arrived
<1>2. /\ con # NULL /\ con' = d /\ UNCHANGED maps /\ contexts' = contexts + 1
      /\ c.authorized /\ c.handler # NULL
  BY DEF BeginMultipart, Arrives, Begun
<1>3. empty \in Field /\ Len(empty.value) = 0 /\ empty # NULL /\ DATA_MAX \in Nat
  <2>1. <<>> \in Seq(Nat) /\ Len(<<>>) = 0
    OBVIOUS
  <2>2. empty \in Field
    BY <2>1 DEF Field, Bytes
  <2>3. empty # NULL /\ DATA_MAX \in Nat
    BY <2>2, WebAssumption DEF Field, Bytes
  <2> QED
    BY <2>1, <2>2, <2>3
<1> HIDE DEF c, empty
<1>4. /\ DOMAIN b = DOMAIN c /\ b.userContext = empty /\ b.http = c.http /\ b.request = c.request
      /\ b.parameters = c.parameters /\ b.handler = c.handler /\ b.status = c.status
      /\ b.response = c.response /\ b.code = c.code /\ b.sent = c.sent /\ b.closing = c.closing
      /\ b.requests = c.requests /\ b.fields = c.fields /\ b.authorized = c.authorized
  BY <1>1, ConnectionFields DEF ShapeInv
<1> HIDE DEF b
<1>5. ShapeInv(b) /\ AnswerInv(b)
  BY <1>1, <1>4 DEF ShapeInv, AnswerInv
<1>6. RequestInv(b, maps)
  BY <1>1, <1>2, <1>4 DEF RequestInv
<1>7. ContextInv(b)
  BY <1>1, <1>2, <1>3, <1>4 DEF ContextInv
<1>8. PlainIsParsed => GivenInv(b)
  <2>1. b.userContext = [key |-> <<>>, value |-> <<>>]
    BY <1>4 DEF empty
  <2>2. b.http = "parts" /\ b.status # "complete" /\ b.response = "open" /\ b.code = 200
    BY <1>1, <1>2, <1>4
  <2>3. PlainIsParsed /\ IsPlain(Source(b.request)) =>
          Given(b.parameters, b.request, b.fields) /\ Uncut(b.fields)
    BY <1>1, <1>4, GivenFirst
  <2>4. b.request \in Multiparts
    BY <1>1, <1>4
  <2> QED
    BY <2>1, <2>2, <2>3, <2>4 DEF GivenInv
<1>9. /\ ConInv(d, maps) /\ DOMAIN d = DOMAIN NewConnection /\ d.userContext = empty
      /\ PlainIsParsed => GivenInv(d)
  BY <1>1, <1>2, <1>4, <1>5, <1>6, <1>7, <1>8, Proceeds
<1> HIDE DEF d
<1>10. con.userContext = NULL
  BY NoContext DEF BeginMultipart
<1> QED
  BY <1>2, <1>3, <1>9, <1>10, StepInv DEF CountInv

(* MG_EV_HTTP_MULTIPART_REQUEST, no handler: a file, or a 404.             *)
LEMMA MultipartWithoutHandlerInv ==
  ASSUME IInv, NEW r \in Multiparts, NEW junk \in {NUL, Equals}, MultipartWithoutHandler(r, junk)
  PROVE  /\ IInv' /\ (NullIsNoConnection /\ CountInv => CountInv')
         /\ (PlainIsParsed /\ ReceivedInv => ReceivedInv')
<1>1. PICK ok \in BOOLEAN : ok = TRUE
  OBVIOUS
<1> DEFINE c == Begun(r, ok, junk, "parts", "mpart_init")
           f == MakeFileResponse(c)
           b == [f EXCEPT !.status = "complete"]
<1>2. /\ ShapeInv(c) /\ AnswerInv(c) /\ RequestInv(c, maps)
      /\ c.http = "parts" /\ c.status = "mpart_init" /\ c.userContext = NULL
      /\ c.response = IF c.authorized THEN "open" ELSE "flushed"
      /\ c.authorized /\ c.code = 200
  <2>1. Arrives
    BY DEF MultipartWithoutHandler
  <2>2. /\ ShapeInv(c) /\ AnswerInv(c) /\ RequestInv(c, maps)
        /\ c.http = "parts" /\ c.status = "mpart_init" /\ c.userContext = NULL
        /\ c.response = IF c.authorized THEN "open" ELSE "flushed"
        /\ c.code = 200
    BY <2>1, Arrived
  <2>3. ~c.authorized => ~ok
    BY <2>1, Arrived
  <2> QED
    BY <1>1, <2>2, <2>3, Zenon
<1>3. /\ con # NULL /\ UNCHANGED <<maps, contexts>> /\ c.handler = NULL
      /\ con' = Proceed(IF r.method = "GET" THEN c ELSE b)
  BY <1>1 DEF MultipartWithoutHandler, Arrives, Begun
<1> HIDE DEF c
<1>4. c.authorized /\ c.response = "open"
  BY <1>2
<1>5. ContextInv(c)
  BY <1>2, <1>3 DEF ContextInv
<1>6. con.userContext = NULL
  BY NoContext DEF MultipartWithoutHandler
<1>7. CASE r.method = "GET"
  <2> DEFINE d == Proceed(c)
  <2>1. GivenInv(c)
    BY <1>2, <1>3 DEF GivenInv
  <2>2. /\ ConInv(d, maps) /\ DOMAIN d = DOMAIN NewConnection /\ d.userContext = NULL
        /\ GivenInv(d)
    BY <1>2, <1>4, <1>5, <2>1, Proceeds
  <2>3. con' = d
    BY <1>3, <1>7
  <2> HIDE DEF d
  <2> QED
    BY <1>3, <1>6, <2>2, <2>3, StepInv DEF CountInv
<1>8. CASE r.method # "GET"
  <2> DEFINE d == Proceed(b)
  <2>1. ShapeInv(f) /\ Same(c, f) /\ f.response = "closed" /\ f.sent = c.sent /\ f.closing = c.closing
    <3>1. 200 \in Codes /\ 404 \in Codes
      BY DEF Codes
    <3> QED
      BY <1>2, <3>1, Closes DEF MakeFileResponse
  <2> HIDE DEF f
  <2>2. /\ DOMAIN b = DOMAIN f /\ b.status = "complete" /\ b.http = f.http /\ b.request = f.request
        /\ b.parameters = f.parameters /\ b.handler = f.handler /\ b.userContext = f.userContext
        /\ b.response = f.response /\ b.code = f.code /\ b.sent = f.sent /\ b.closing = f.closing
        /\ b.requests = f.requests /\ b.fields = f.fields /\ b.authorized = f.authorized
    BY <2>1, ConnectionFields DEF ShapeInv
  <2> HIDE DEF b
  <2>3. ShapeInv(b)
    BY <2>1, <2>2 DEF ShapeInv
  <2>4. AnswerInv(b)
    BY <1>2, <1>4, <2>1, <2>2 DEF AnswerInv, Same
  <2>5. RequestInv(b, maps)
    BY <1>2, <1>4, <2>1, <2>2 DEF RequestInv, Same
  <2>6. ContextInv(b)
    BY <1>2, <1>3, <2>1, <2>2 DEF ContextInv, Same
  <2>7. GivenInv(b)
    BY <1>3, <2>1, <2>2 DEF GivenInv, Same
  <2>8. /\ ConInv(d, maps) /\ DOMAIN d = DOMAIN NewConnection /\ d.userContext = NULL
        /\ GivenInv(d)
    BY <1>2, <2>1, <2>2, <2>3, <2>4, <2>5, <2>6, <2>7, Proceeds DEF Same
  <2>9. con' = d
    BY <1>3, <1>8
  <2> HIDE DEF d
  <2> QED
    BY <1>3, <1>6, <2>8, <2>9, StepInv DEF CountInv
<1> QED
  BY <1>7, <1>8

-----------------------------------------------------------------------------
(* The invariant is inductive: the events of parts.                        *)

(* A connection whose request has parts.                                   *)
LEMMA InParts ==
  ASSUME IInv, con # NULL, con.http \in {"parts", "part"}
  PROVE  /\ ShapeInv(con) /\ AnswerInv(con) /\ RequestInv(con, maps)
         /\ ContextInv(con) /\ ParserInv(con)
BY DEF IInv, ConInv

(* A response is open for the handler where the context is there.          *)
LEMMA TakesContext ==
  ASSUME NEW c, NEW m, RequestInv(c, m), ContextInv(c), c.http \in {"parts", "part"}, Takes(c)
  PROVE  c.userContext \in Field /\ Len(c.userContext.value) <= DATA_MAX /\ c.authorized
BY DEF RequestInv, ContextInv, Takes

(* MG_EV_HTTP_PART_BEGIN: the context is the one of the next part.         *)
LEMMA PartBeginInv ==
  ASSUME IInv, NEW name \in Names, PartBegin(name)
  PROVE  /\ IInv' /\ (NullIsNoConnection /\ CountInv => CountInv')
         /\ (PlainIsParsed /\ ReceivedInv => ReceivedInv')
<1> DEFINE part == [key |-> name, value |-> <<>>]
           c == [con EXCEPT !.http = "part", !.fields = Append(@, part)]
           e == [c EXCEPT !.status = "mpart_data"]
           g == [e EXCEPT !.userContext = part]
           b == CASE con.status = "complete"                -> c
                  [] con.status # "complete" /\ ~Takes(con) -> e
                  [] con.status # "complete" /\ Takes(con)  -> g
           d == Proceed(b)
<1>1. /\ con # NULL /\ con.http = "parts" /\ UNCHANGED <<maps, contexts>> /\ con' = d
  BY DEF PartBegin
<1>2. /\ ShapeInv(con) /\ AnswerInv(con) /\ RequestInv(con, maps)
      /\ ContextInv(con) /\ ParserInv(con)
  BY <1>1, InParts
<1>3. part \in Field /\ part # NULL /\ part.value = <<>>
  <2>1. name \in Seq(Nat) /\ <<>> \in Seq(Nat)
    BY WebAssumption
  <2>2. part \in Field
    BY <2>1 DEF Field, Bytes
  <2> QED
    BY <2>2, WebAssumption DEF Field, Bytes
<1>4. Append(con.fields, part) \in Seq(Field) /\ Append(con.fields, part) # <<>>
  BY <1>2, <1>3 DEF ShapeInv
<1> HIDE DEF part
<1>5. DOMAIN con = DOMAIN NewConnection
  BY <1>2 DEF ShapeInv
<1>6. /\ DOMAIN b = DOMAIN con /\ b.http = "part" /\ b.request = con.request
      /\ b.parameters = con.parameters /\ b.handler = con.handler
      /\ b.response = con.response /\ b.code = con.code /\ b.sent = con.sent
      /\ b.closing = con.closing /\ b.requests = con.requests
      /\ b.fields = Append(con.fields, part) /\ b.authorized = con.authorized
      /\ b.status = IF con.status = "complete" THEN "complete" ELSE "mpart_data"
      /\ b.userContext = IF con.status # "complete" /\ Takes(con) THEN part ELSE con.userContext
  <2>1. CASE con.status = "complete"
    BY <1>5, <2>1, ConnectionFields
  <2>2. CASE con.status # "complete" /\ ~Takes(con)
    BY <1>5, <2>2, ConnectionFields
  <2>3. CASE con.status # "complete" /\ Takes(con)
    BY <1>5, <2>3, ConnectionFields
  <2> QED
    BY <2>1, <2>2, <2>3
<1> HIDE DEF b
<1>7. ShapeInv(b) /\ AnswerInv(b)
  BY <1>2, <1>4, <1>6 DEF ShapeInv, AnswerInv
<1>8. Takes(con) => con.userContext \in Field /\ con.userContext # NULL /\ con.authorized
                   /\ con.handler # NULL
  BY <1>1, <1>2, TakesContext, WebAssumption DEF Takes, Field, Bytes
<1>9. RequestInv(b, maps)
  BY <1>2, <1>6, <1>8 DEF RequestInv
<1>10. ContextInv(b)
  <2>1. DATA_MAX \in Nat /\ Len(<<>>) = 0
    BY WebAssumption
  <2> QED
    BY <1>1, <1>2, <1>3, <1>6, <1>8, <2>1 DEF ContextInv
<1>11. ReceivedInv => GivenInv(b)
  <2>1. SUFFICES ASSUME GivenInv(con) PROVE GivenInv(b)
    BY <1>1 DEF ReceivedInv
  <2>2. b.response = "open" => b.code = 200
    BY <1>6, <2>1 DEF GivenInv
  <2>3. SUFFICES ASSUME b.authorized, b.handler # NULL, b.code = 200, IsPlain(Source(b.request))
                 PROVE  /\ b.response = "open" /\ b.status # "complete" /\ b.request \in Multiparts
                        /\ \E fs \in Seq(Field) : /\ b.fields = Append(fs, b.userContext)
                                                  /\ Given(b.parameters, b.request, fs) /\ Uncut(fs)
    BY <1>6, <2>2 DEF GivenInv
  <2>4. /\ con.response = "open" /\ con.status # "complete" /\ con.request \in Multiparts
        /\ Given(con.parameters, con.request, con.fields) /\ Uncut(con.fields)
    BY <1>1, <1>6, <2>1, <2>3 DEF GivenInv
  <2>5. b.userContext = part /\ con.fields \in Seq(Field)
    BY <1>2, <1>6, <2>3, <2>4 DEF Takes, ShapeInv
  <2> QED
    BY <1>6, <2>4, <2>5
<1>12. /\ ConInv(d, maps) /\ DOMAIN d = DOMAIN NewConnection /\ d.userContext = b.userContext
       /\ ReceivedInv => GivenInv(d)
  BY <1>2, <1>4, <1>6, <1>7, <1>9, <1>10, <1>11, Proceeds DEF ParserInv
<1>13. d.userContext # NULL <=> con.userContext # NULL
  BY <1>3, <1>6, <1>8, <1>12
<1> HIDE DEF d
<1> QED
  BY <1>1, <1>12, <1>13, StepInv DEF CountInv

(* The bytes of a part.                                                    *)
LEMMA DataIsBytes ==
  ASSUME IInv, con # NULL, con.http = "part", NEW n \in Nat
  PROVE  Data(n) \in Seq(Nat) /\ Len(Data(n)) = n
<1>1. con.fields \in Seq(Field) /\ con.fields # <<>>
  BY InParts DEF ShapeInv, ParserInv
<1>2. Len(con.fields) \in Nat /\ con.fields[Len(con.fields)] \in Field
  BY <1>1
<1>3. Len(con.fields[Len(con.fields)].value) \in Nat
  BY <1>2 DEF Field, Bytes
<1>4. DEFINE p == Len(con.fields)
             l == Len(con.fields[p].value)
<1>5. p \in Nat /\ l \in Nat
  BY <1>2, <1>3
<1>6. Data(n) = [i \in 1 .. n |-> 100 * p + l + i]
  BY DEF Data
<1> HIDE DEF p, l
<1>7. \A i \in 1 .. n : 100 * p + l + i \in Nat
  BY <1>5
<1> QED
  BY <1>6, <1>7

(* What updateMultipartData makes of the connection c, unless it answers.  *)
Longer(field, data) == [field EXCEPT !.value = @ \o data]

Collects(c, b, data) ==
  /\ b.request = c.request /\ b.parameters = c.parameters
  /\ b.handler = c.handler /\ b.authorized = c.authorized
  /\ b.response = "open" \/ b.code = 200 =>
       /\ b.code = c.code /\ b.response = c.response
       /\ b.userContext = Longer(c.userContext, data)

(* updateMultipartData.                                                    *)
LEMMA UpdateInv ==
  ASSUME NEW m, NEW c, NEW data \in Seq(Nat),
         ShapeInv(c), AnswerInv(c), RequestInv(c, m), ContextInv(c), Takes(c),
         c.http = "part", c.fields # <<>>, c.status # "complete"
  PROVE  LET b == UpdateMultipartData(c, data)
         IN  /\ ShapeInv(b) /\ AnswerInv(b) /\ RequestInv(b, m) /\ ContextInv(b)
             /\ b.http = c.http /\ b.fields = c.fields /\ b.status = c.status
             /\ b.response # "flushed" /\ (b.userContext # NULL <=> c.userContext # NULL)
             /\ Collects(c, b, data)
<1> DEFINE u == c.userContext
           v == [u EXCEPT !.value = @ \o data]
           b == [c EXCEPT !.userContext = v]
<1>1. u \in Field /\ Len(u.value) <= DATA_MAX /\ c.authorized /\ c.response = "open"
  BY TakesContext DEF Takes
<1>2. CASE Len(u.value) + Len(data) > DATA_MAX
  <2> DEFINE e == Close(c, 500)
  <2>1. UpdateMultipartData(c, data) = e
    BY <1>2 DEF UpdateMultipartData
  <2>2. /\ ShapeInv(e) /\ Same(c, e)
        /\ e.response = "closed" /\ e.sent = c.sent /\ e.closing = c.closing
        /\ e.code = 500
    <3>1. 500 \in Codes
      BY DEF Codes
    <3>2. e.code = 500
      BY ConnectionFields DEF Close, ShapeInv
    <3> QED
      BY <3>1, <3>2, Closes
  <2> HIDE DEF e
  <2>3. AnswerInv(e) /\ RequestInv(e, m) /\ ContextInv(e)
    BY <1>1, <2>2 DEF AnswerInv, RequestInv, ContextInv, Same
  <2> QED
    BY <2>1, <2>2, <2>3 DEF Same, Collects
<1>3. CASE ~(Len(u.value) + Len(data) > DATA_MAX)
  <2>1. u.key \in Seq(Nat) /\ u.value \in Seq(Nat) /\ u = [key |-> u.key, value |-> u.value]
    BY <1>1 DEF Field, Bytes
  <2>2. u.value \o data \in Seq(Nat) /\ Len(u.value \o data) = Len(u.value) + Len(data)
    BY <2>1
  <2>3. v \in Field /\ v.value = u.value \o data
    BY <2>1, <2>2 DEF Field, Bytes
  <2>4. v # NULL /\ u # NULL
    BY <1>1, <2>3, WebAssumption DEF Field, Bytes
  <2>5. UpdateMultipartData(c, data) = b
    BY <1>3 DEF UpdateMultipartData
  <2>6. Len(v.value) <= DATA_MAX
    <3>1. Len(u.value) \in Nat /\ Len(data) \in Nat /\ DATA_MAX \in Nat
      BY <2>1, WebAssumption
    <3> QED
      BY <1>3, <2>2, <2>3, <3>1
  <2>7. v = Longer(c.userContext, data)
    BY DEF Longer
  <2> HIDE DEF v
  <2>8. /\ DOMAIN b = DOMAIN c /\ b.userContext = v /\ b.http = c.http /\ b.request = c.request
        /\ b.parameters = c.parameters /\ b.handler = c.handler /\ b.status = c.status
        /\ b.response = c.response /\ b.code = c.code /\ b.sent = c.sent /\ b.closing = c.closing
        /\ b.requests = c.requests /\ b.fields = c.fields /\ b.authorized = c.authorized
    BY ConnectionFields DEF ShapeInv
  <2> HIDE DEF b, u
  <2>9. ShapeInv(b) /\ AnswerInv(b)
    BY <2>8 DEF ShapeInv, AnswerInv
  <2>10. RequestInv(b, m) /\ ContextInv(b)
    BY <1>1, <2>3, <2>6, <2>8 DEF RequestInv, ContextInv, Takes
  <2> QED
    BY <1>1, <2>4, <2>5, <2>8, <2>9, <2>10, <2>7 DEF u, Collects
<1> QED
  BY <1>2, <1>3

(* MG_EV_HTTP_PART_DATA: the context is kept, or the answer is a 500.      *)
LEMMA PartDataInv ==
  ASSUME IInv, NEW n \in 1 .. DATA_MAX + 1, PartData(n)
  PROVE  /\ IInv' /\ (NullIsNoConnection /\ CountInv => CountInv')
         /\ (PlainIsParsed /\ ReceivedInv => ReceivedInv')
<1> DEFINE p == Len(con.fields)
           fs == [con.fields EXCEPT ![p].value = @ \o Data(n)]
           c == [con EXCEPT !.fields = fs]
           b == IF con.status # "complete" /\ Takes(con) THEN UpdateMultipartData(c, Data(n)) ELSE c
           d == Proceed(b)
<1>1. con # NULL /\ con.http = "part" /\ UNCHANGED <<maps, contexts>>
  BY DEF PartData
<1>2. /\ ShapeInv(con) /\ AnswerInv(con) /\ RequestInv(con, maps)
      /\ ContextInv(con) /\ ParserInv(con)
  BY <1>1, InParts
<1>3. n \in Nat /\ Data(n) \in Seq(Nat)
  <2>1. n \in Nat
    BY WebAssumption
  <2> QED
    BY <1>1, <2>1, DataIsBytes
<1>4. con' = d
  BY DEF PartData
<1>5. fs \in Seq(Field) /\ fs # <<>>
  <2> DEFINE f == con.fields[p]
             g == [f EXCEPT !.value = @ \o Data(n)]
  <2>1. con.fields \in Seq(Field) /\ con.fields # <<>>
    BY <1>1, <1>2 DEF ShapeInv, ParserInv
  <2>2. p \in 1 .. Len(con.fields) /\ f \in Field
    BY <2>1
  <2>3. f.key \in Seq(Nat) /\ f.value \in Seq(Nat) /\ f = [key |-> f.key, value |-> f.value]
    BY <2>2 DEF Field, Bytes
  <2>4. f.value \o Data(n) \in Seq(Nat)
    BY <1>3, <2>3
  <2>5. g \in Field
    BY <2>3, <2>4 DEF Field, Bytes
  <2>6. fs = [con.fields EXCEPT ![p] = g]
    OBVIOUS
  <2> HIDE DEF g, p, fs
  <2> QED
    BY <2>1, <2>2, <2>5, <2>6
<1>6. ASSUME NEW gs \in Seq(Field), con.userContext \in Field, con.fields = Append(gs, con.userContext)
      PROVE  fs = Append(gs, Longer(con.userContext, Data(n)))
  <2> DEFINE u == con.userContext
             v == [u EXCEPT !.value = @ \o Data(n)]
  <2>1. /\ p = Len(gs) + 1 /\ con.fields[p] = u /\ Len(gs) \in Nat
        /\ fs = [con.fields EXCEPT ![p] = [con.fields[p] EXCEPT !.value = @ \o Data(n)]]
    BY <1>6
  <2>2. fs = [con.fields EXCEPT ![p] = v]
    BY <2>1
  <2>3. v \in Field
    <3>1. u.key \in Seq(Nat) /\ u.value \in Seq(Nat) /\ u = [key |-> u.key, value |-> u.value]
      BY <1>6 DEF Field, Bytes
    <3>2. u.value \o Data(n) \in Seq(Nat)
      BY <1>3, <3>1
    <3> QED
      BY <3>1, <3>2 DEF Field, Bytes
  <2> HIDE DEF v, fs, p
  <2>4. /\ Append(gs, v) \in Seq(Field) /\ Len(Append(gs, v)) = Len(gs) + 1
        /\ fs \in Seq(Field) /\ Len(fs) = Len(gs) + 1
        /\ \A i \in 1 .. Len(gs) + 1 : fs[i] = Append(gs, v)[i]
    <3>1. /\ con.fields \in Seq(Field) /\ Len(con.fields) = Len(gs) + 1
          /\ \A i \in 1 .. Len(gs) : con.fields[i] = gs[i]
      BY <1>6
    <3>2. /\ Append(gs, v) \in Seq(Field) /\ Len(Append(gs, v)) = Len(gs) + 1
          /\ Append(gs, v)[Len(gs) + 1] = v
          /\ \A i \in 1 .. Len(gs) : Append(gs, v)[i] = gs[i]
      BY <2>3
    <3>3. /\ fs \in Seq(Field) /\ Len(fs) = Len(gs) + 1 /\ fs[p] = v
          /\ \A i \in 1 .. Len(gs) : fs[i] = con.fields[i]
      BY <2>1, <2>2, <2>3, <3>1
    <3>4. \A i \in 1 .. Len(gs) + 1 : i \in 1 .. Len(gs) \/ i = Len(gs) + 1
      BY <2>1
    <3> QED
      BY <2>1, <3>1, <3>2, <3>3, <3>4
  <2>5. fs = Append(gs, v)
    BY <2>1, <2>4, SeqEqual
  <2> QED
    BY <2>5 DEF v, Longer
<1> HIDE DEF fs
<1>7. /\ DOMAIN c = DOMAIN con /\ c.fields = fs /\ c.http = con.http /\ c.request = con.request
      /\ c.parameters = con.parameters /\ c.handler = con.handler /\ c.status = con.status
      /\ c.response = con.response /\ c.code = con.code /\ c.sent = con.sent
      /\ c.closing = con.closing /\ c.requests = con.requests
      /\ c.userContext = con.userContext /\ c.authorized = con.authorized
  BY <1>2, ConnectionFields DEF ShapeInv
<1> HIDE DEF c
<1>8. /\ ShapeInv(c) /\ AnswerInv(c) /\ RequestInv(c, maps) /\ ContextInv(c)
      /\ c.fields # <<>> /\ c.http = "part"
      /\ c.response = "flushed" => c.status = "complete"
  <2>1. ShapeInv(c) /\ AnswerInv(c)
    BY <1>2, <1>5, <1>7 DEF ShapeInv, AnswerInv
  <2>2. RequestInv(c, maps) /\ ContextInv(c)
    BY <1>2, <1>7 DEF RequestInv, ContextInv
  <2> QED
    BY <1>1, <1>2, <1>5, <1>7, <2>1, <2>2 DEF ParserInv
<1>9. /\ ShapeInv(b) /\ AnswerInv(b) /\ RequestInv(b, maps) /\ ContextInv(b)
      /\ b.fields # <<>> /\ b.http = "part"
      /\ b.response = "flushed" => b.status = "complete"
      /\ b.userContext # NULL <=> con.userContext # NULL
  <2>1. CASE con.status # "complete" /\ Takes(con)
    <3> DEFINE e == UpdateMultipartData(c, Data(n))
    <3>1. Takes(c) /\ c.status # "complete"
      BY <1>7, <2>1 DEF Takes
    <3>2. /\ ShapeInv(e) /\ AnswerInv(e) /\ RequestInv(e, maps) /\ ContextInv(e)
          /\ e.http = c.http /\ e.fields = c.fields
          /\ e.response # "flushed" /\ (e.userContext # NULL <=> c.userContext # NULL)
      BY <1>3, <1>8, <3>1, UpdateInv
    <3>3. b = e
      BY <2>1
    <3> HIDE DEF e, b
    <3> QED
      BY <1>7, <1>8, <3>2, <3>3
  <2>2. CASE ~(con.status # "complete" /\ Takes(con))
    BY <1>7, <1>8, <2>2
  <2> QED
    BY <2>1, <2>2
<1>10. ReceivedInv => GivenInv(b)
  <2>1. SUFFICES ASSUME GivenInv(con) PROVE GivenInv(b)
    BY <1>1 DEF ReceivedInv
  <2>2. CASE con.status # "complete" /\ Takes(con)
    <3> DEFINE e == UpdateMultipartData(c, Data(n))
    <3>1. b = e
      BY <2>2
    <3>2. Takes(c) /\ c.status # "complete" /\ con.userContext \in Field
      BY <1>1, <1>2, <1>7, <2>2, TakesContext DEF Takes
    <3>3. Collects(c, e, Data(n)) /\ e.http = c.http /\ e.fields = c.fields /\ e.status = c.status
      BY <1>3, <1>8, <3>2, UpdateInv
    <3>4. /\ e.request = c.request /\ e.parameters = c.parameters
          /\ e.handler = c.handler /\ e.authorized = c.authorized
          /\ e.response = "open" \/ e.code = 200 =>
               /\ e.code = c.code /\ e.response = c.response
               /\ e.userContext = Longer(c.userContext, Data(n))
      BY <3>3 DEF Collects
    <3> HIDE DEF e, b
    <3>5. e.response = "open" => e.code = 200
      BY <1>7, <2>1, <3>3, <3>4 DEF GivenInv
    <3>6. SUFFICES ASSUME e.authorized, e.handler # NULL, e.code = 200, IsPlain(Source(e.request))
                   PROVE  /\ e.response = "open" /\ e.status # "complete" /\ e.request \in Multiparts
                          /\ \E gs \in Seq(Field) : /\ e.fields = Append(gs, e.userContext)
                                                    /\ Given(e.parameters, e.request, gs) /\ Uncut(gs)
      BY <1>8, <3>1, <3>3, <3>4, <3>5 DEF GivenInv
    <3>7. /\ con.response = "open" /\ con.status # "complete" /\ con.request \in Multiparts
          /\ \E gs \in Seq(Field) : /\ con.fields = Append(gs, con.userContext)
                                    /\ Given(con.parameters, con.request, gs) /\ Uncut(gs)
      BY <1>1, <1>7, <2>1, <3>3, <3>4, <3>6 DEF GivenInv
    <3>8. PICK gs \in Seq(Field) : /\ con.fields = Append(gs, con.userContext)
                                   /\ Given(con.parameters, con.request, gs) /\ Uncut(gs)
      BY <3>7
    <3>9. fs = Append(gs, Longer(con.userContext, Data(n)))
      BY <1>6, <3>2, <3>8
    <3>10. e.fields = Append(gs, e.userContext)
      BY <1>7, <3>3, <3>4, <3>6, <3>9
    <3>11. e.parameters = con.parameters /\ e.request = con.request
      BY <1>7, <3>4
    <3>12. Given(e.parameters, e.request, gs)
      BY <3>8, <3>11
    <3>13. e.response = "open" /\ e.status # "complete" /\ e.request \in Multiparts
      BY <1>7, <3>3, <3>4, <3>6, <3>7, <3>11
    <3> QED
      BY <3>8, <3>10, <3>12, <3>13
  <2>3. CASE ~(con.status # "complete" /\ Takes(con))
    <3>1. b = c
      BY <2>3
    <3> HIDE DEF b
    <3>2. ~(c.authorized /\ c.handler # NULL /\ c.code = 200 /\ IsPlain(Source(c.request)))
      BY <1>1, <1>7, <2>1, <2>3 DEF GivenInv, Takes
    <3> QED
      BY <1>7, <2>1, <3>1, <3>2 DEF GivenInv
  <2> QED
    BY <2>2, <2>3
<1> HIDE DEF b
<1>11. /\ ConInv(d, maps) /\ DOMAIN d = DOMAIN NewConnection /\ d.userContext = b.userContext
       /\ ReceivedInv => GivenInv(d)
  BY <1>9, <1>10, Proceeds
<1> HIDE DEF d
<1> QED
  BY <1>1, <1>4, <1>9, <1>11, StepInv DEF CountInv

(* MG_EV_HTTP_PART_END: the value becomes a parameter.                     *)
LEMMA PartEndInv ==
  ASSUME IInv, PartEnd
  PROVE  /\ IInv' /\ (NullIsNoConnection /\ CountInv => CountInv')
         /\ (PlainIsParsed /\ ReceivedInv => ReceivedInv')
<1> DEFINE ps == IF Takes(con) THEN Assign(con.parameters, con.userContext.key, con.userContext.value)
                 ELSE con.parameters
           c == IF Takes(con)
                THEN [con EXCEPT !.parameters = Assign(@, con.userContext.key, con.userContext.value)]
                ELSE con
           b == [c EXCEPT !.http = "parts",
                          !.status = IF @ = "complete" THEN @ ELSE "mpart_init"]
           d == Proceed(b)
<1>1. con # NULL /\ con.http \in {"parts", "part"} /\ UNCHANGED <<maps, contexts>> /\ con' = d
  BY DEF PartEnd
<1>2. /\ ShapeInv(con) /\ AnswerInv(con) /\ RequestInv(con, maps)
      /\ ContextInv(con) /\ ParserInv(con)
  BY <1>1, InParts
<1>3. /\ DOMAIN b = DOMAIN con /\ b.http = "parts" /\ b.request = con.request
      /\ b.parameters = ps /\ b.handler = con.handler
      /\ b.response = con.response /\ b.code = con.code /\ b.sent = con.sent
      /\ b.closing = con.closing /\ b.requests = con.requests
      /\ b.fields = con.fields /\ b.authorized = con.authorized
      /\ b.status = IF con.status = "complete" THEN "complete" ELSE "mpart_init"
      /\ b.userContext = con.userContext
  <2>1. DOMAIN con = DOMAIN NewConnection
    BY <1>2 DEF ShapeInv
  <2>2. CASE Takes(con)
    BY <2>1, <2>2, ConnectionFields
  <2>3. CASE ~Takes(con)
    BY <2>1, <2>3, ConnectionFields
  <2> QED
    BY <2>2, <2>3
<1> HIDE DEF b
<1>4. ShapeInv(b) /\ AnswerInv(b)
  BY <1>2, <1>3 DEF ShapeInv, AnswerInv
<1>5. RequestInv(b, maps)
  <2>1. AreBytes(ps)
    <3>1. AreBytes(con.parameters)
      BY <1>2 DEF RequestInv
    <3>2. Takes(con) => con.userContext.value \in Seq(Bytes)
      BY <1>1, <1>2, TakesContext DEF Field
    <3> QED
      BY <3>1, <3>2, AssignBytes
  <2>2. con.authorized \/ ps = con.parameters
    BY <1>2 DEF RequestInv, Takes
  <2> HIDE DEF ps
  <2> QED
    BY <1>2, <1>3, <2>1, <2>2 DEF RequestInv
<1>6. ContextInv(b)
  BY <1>1, <1>2, <1>3 DEF ContextInv
<1>7. ReceivedInv => GivenInv(b)
  <2>1. SUFFICES ASSUME GivenInv(con) PROVE GivenInv(b)
    BY <1>1 DEF ReceivedInv
  <2>2. b.response = "open" => b.code = 200
    BY <1>3, <2>1 DEF GivenInv
  <2>3. SUFFICES ASSUME b.authorized, b.handler # NULL, b.code = 200, IsPlain(Source(b.request))
                 PROVE  /\ b.response = "open" /\ b.status # "complete" /\ b.request \in Multiparts
                        /\ b.fields = <<>> => b.userContext = [key |-> <<>>, value |-> <<>>]
                        /\ Given(b.parameters, b.request, b.fields) /\ Uncut(b.fields)
    BY <1>3, <2>2 DEF GivenInv
  <2> DEFINE u == con.userContext
  <2>4. con.response = "open" /\ con.status # "complete" /\ con.request \in Multiparts
    BY <1>1, <1>3, <2>1, <2>3 DEF GivenInv
  <2>5. Takes(con) /\ b.response = "open" /\ b.status # "complete"
    BY <1>3, <2>3, <2>4 DEF Takes
  <2>6. /\ u \in Field /\ Len(u.value) <= DATA_MAX
        /\ ps = Assign(con.parameters, u.key, u.value)
    BY <1>1, <1>2, <2>5, TakesContext
  <2> HIDE DEF ps, u
  <2>7. CASE con.http = "part"
    <3>1. PICK fs \in Seq(Field) : /\ con.fields = Append(fs, u)
                                   /\ Given(con.parameters, con.request, fs) /\ Uncut(fs)
      BY <1>3, <2>1, <2>3, <2>7 DEF GivenInv, u
    <3>2. Given(ps, con.request, con.fields)
      BY <2>4, <2>6, <3>1, GivenMore
    <3>3. con.fields # <<>>
      BY <1>2, <2>7 DEF ParserInv
    <3>4. Uncut(con.fields)
      <4>1. /\ DOMAIN con.fields = 1 .. Len(fs) + 1 /\ DOMAIN fs = 1 .. Len(fs)
            /\ con.fields[Len(fs) + 1] = u /\ \A i \in 1 .. Len(fs) : con.fields[i] = fs[i]
            /\ Len(fs) \in Nat
        BY <2>6, <3>1
      <4>2. \A i \in 1 .. Len(fs) + 1 : i \in 1 .. Len(fs) \/ i = Len(fs) + 1
        BY <4>1
      <4> QED
        BY <2>6, <3>1, <4>1, <4>2 DEF Uncut
    <3> QED
      BY <1>3, <2>4, <2>5, <3>2, <3>3, <3>4
  <2>8. CASE con.http = "parts"
    <3>1. con.fields = <<>>
      BY <2>8 DEF PartEnd
    <3>2. /\ u = [key |-> <<>>, value |-> <<>>]
          /\ Given(con.parameters, con.request, <<>>) /\ Uncut(<<>>)
      BY <1>3, <2>1, <2>3, <2>8, <3>1 DEF GivenInv, u
    <3>3. Given(ps, con.request, <<>>)
      BY <2>4, <2>6, <3>2, GivenPhantom
    <3> QED
      BY <1>3, <2>4, <2>5, <3>1, <3>2, <3>3 DEF u
  <2> QED
    BY <1>1, <2>7, <2>8
<1>8. /\ ConInv(d, maps) /\ DOMAIN d = DOMAIN NewConnection /\ d.userContext = con.userContext
      /\ ReceivedInv => GivenInv(d)
  BY <1>2, <1>3, <1>4, <1>5, <1>6, <1>7, Proceeds DEF ParserInv
<1> HIDE DEF d
<1> QED
  BY <1>1, <1>8, StepInv DEF CountInv

(* MG_EV_HTTP_MULTIPART_REQUEST_END: the context is deleted.               *)
LEMMA MultipartEndInv ==
  ASSUME IInv, MultipartEnd
  PROVE  /\ IInv' /\ (NullIsNoConnection /\ CountInv => CountInv')
         /\ (PlainIsParsed /\ ReceivedInv => ReceivedInv')
<1> DEFINE b == [con EXCEPT !.http = "end", !.status = "complete",
                            !.userContext = IF con.handler # NULL THEN NULL ELSE @]
           d == Proceed(b)
<1>1. /\ con # NULL /\ con.http = "parts" /\ UNCHANGED maps /\ con' = d
      /\ contexts' = IF con.handler # NULL /\ con.userContext # NULL THEN contexts - 1 ELSE contexts
  BY DEF MultipartEnd
<1>2. /\ ShapeInv(con) /\ AnswerInv(con) /\ RequestInv(con, maps)
      /\ ContextInv(con) /\ ParserInv(con)
  BY <1>1, InParts
<1>3. con.handler = NULL => con.userContext = NULL
  BY <1>2 DEF ContextInv
<1>4. /\ DOMAIN b = DOMAIN con /\ b.http = "end" /\ b.request = con.request
      /\ b.parameters = con.parameters /\ b.handler = con.handler
      /\ b.response = con.response /\ b.code = con.code /\ b.sent = con.sent
      /\ b.closing = con.closing /\ b.requests = con.requests
      /\ b.fields = con.fields /\ b.authorized = con.authorized
      /\ b.status = "complete" /\ b.userContext = NULL
  BY <1>2, <1>3, ConnectionFields DEF ShapeInv
<1> HIDE DEF b
<1>5. ShapeInv(b) /\ AnswerInv(b)
  BY <1>2, <1>4 DEF ShapeInv, AnswerInv
<1>6. RequestInv(b, maps) /\ ContextInv(b)
  BY <1>2, <1>4 DEF RequestInv, ContextInv
<1>7. ReceivedInv => GivenInv(b)
  BY <1>1, <1>4 DEF ReceivedInv, GivenInv
<1>8. /\ ConInv(d, maps) /\ DOMAIN d = DOMAIN NewConnection /\ d.userContext = NULL
      /\ ReceivedInv => GivenInv(d)
  BY <1>4, <1>5, <1>6, <1>7, Proceeds
<1> HIDE DEF d
<1> QED
  BY <1>1, <1>3, <1>8, StepInv DEF CountInv

(* Every event keeps the invariant.                                        *)
LEMMA NextInv ==
  IInv /\ [Next]_vars => /\ IInv' /\ (NullIsNoConnection /\ CountInv => CountInv')
                         /\ (PlainIsParsed /\ ReceivedInv => ReceivedInv')
<1> SUFFICES ASSUME IInv, [Next]_vars
             PROVE  /\ IInv' /\ (NullIsNoConnection /\ CountInv => CountInv')
         /\ (PlainIsParsed /\ ReceivedInv => ReceivedInv')
  OBVIOUS
<1>1. CASE UNCHANGED vars
  BY <1>1 DEF vars, IInv, CountInv, ReceivedInv
<1>2. CASE Accept \/ CloseEvent
  BY <1>2, AcceptOrClose
<1>3. ASSUME NEW r \in Plains, NEW ok \in BOOLEAN, NEW junk \in {NUL, Equals},
             HttpRequest(r, ok, junk)
      PROVE  /\ IInv' /\ (NullIsNoConnection /\ CountInv => CountInv')
         /\ (PlainIsParsed /\ ReceivedInv => ReceivedInv')
  BY <1>3, HttpRequestInv
<1>4. ASSUME NEW r \in Multiparts, NEW junk \in {NUL, Equals},
             \/ \E ok \in BOOLEAN : MultipartRefused(r, ok, junk) \/ BeginMultipart(r, ok, junk)
             \/ MultipartWithoutHandler(r, junk)
      PROVE  /\ IInv' /\ (NullIsNoConnection /\ CountInv => CountInv')
         /\ (PlainIsParsed /\ ReceivedInv => ReceivedInv')
  BY <1>4, MultipartRefusedInv, BeginMultipartInv, MultipartWithoutHandlerInv
<1>5. ASSUME NEW name \in Names, PartBegin(name)
      PROVE  /\ IInv' /\ (NullIsNoConnection /\ CountInv => CountInv')
         /\ (PlainIsParsed /\ ReceivedInv => ReceivedInv')
  BY <1>5, PartBeginInv
<1>6. ASSUME NEW n \in 1 .. DATA_MAX + 1, PartData(n)
      PROVE  /\ IInv' /\ (NullIsNoConnection /\ CountInv => CountInv')
         /\ (PlainIsParsed /\ ReceivedInv => ReceivedInv')
  BY <1>6, PartDataInv
<1>7. CASE PartEnd \/ MultipartEnd
  BY <1>7, PartEndInv, MultipartEndInv
<1> QED
  BY <1>1, <1>2, <1>3, <1>4, <1>5, <1>6, <1>7 DEF Next

-----------------------------------------------------------------------------
(* The theorems.                                                           *)

(* WebServer::handler and dispatchEvent: the invariant holds after every   *)
(* sequence of events.                                                     *)
THEOREM Invariance == Spec => []IInv
BY InitInv, NextInv, PTL DEF Spec

(* Every request is answered exactly once, before its last part or at its  *)
(* end: flush is never skipped and never repeated.                         *)
THEOREM AnswersOnce == Spec => []AnsweredOnce
<1>1. IInv => AnsweredOnce
  <2> SUFFICES ASSUME IInv, con # NULL PROVE AnsweredOnce
    BY DEF AnsweredOnce
  <2>1. CASE con.http = "idle"
    <3>1. NewConnection.sent = <<>>
      BY DEF NewConnection
    <3> QED
      BY <2>1, <3>1 DEF IInv, ConInv, AnsweredOnce
  <2>2. CASE con.http # "idle"
    <3>1. AnswerInv(con) /\ ParserInv(con)
      BY <2>2 DEF IInv, ConInv
    <3> QED
      BY <2>2, <3>1 DEF AnsweredOnce, AnswerInv, ParserInv
  <2> QED
    BY <2>1, <2>2
<1> QED
  BY <1>1, Invariance, PTL

(* The context a multipart request is given is there for each of its       *)
(* parts, and is deleted once.                                             *)
THEOREM OwnsContext == NullIsNoConnection => (Spec => []ContextIsOwned)
<1> SUFFICES ASSUME NullIsNoConnection PROVE Spec => []ContextIsOwned
  OBVIOUS
<1>1. IInv /\ CountInv => ContextIsOwned
  <2> SUFFICES ASSUME IInv, CountInv, con # NULL
               PROVE  /\ con.http \in {"idle", "end"} => con.userContext = NULL
                      /\ con.http \in {"parts", "part"} /\ Takes(con) => con.userContext # NULL
    BY DEF ContextIsOwned, CountInv
  <2>1. CASE con.http = "idle"
    <3>1. NewConnection.userContext = NULL
      BY DEF NewConnection
    <3> QED
      BY <2>1, <3>1 DEF IInv, ConInv
  <2>2. CASE con.http # "idle"
    <3>1. RequestInv(con, maps) /\ ContextInv(con)
      BY <2>2 DEF IInv, ConInv
    <3>2. con.http \in {"parts", "part"} /\ Takes(con) => con.userContext # NULL
      BY <3>1, TakesContext, WebAssumption DEF Field, Bytes
    <3> QED
      BY <2>2, <3>1, <3>2 DEF ContextInv
  <2> QED
    BY <2>1, <2>2
<1>2. Init => IInv /\ CountInv
  BY InitInv
<1>3. IInv /\ CountInv /\ [Next]_vars => (IInv /\ CountInv)'
  BY NextInv
<1> QED
  BY <1>1, <1>2, <1>3, PTL DEF Spec

(* authenticate: a handler that needs authentication is given nothing of a *)
(* request that was not authorized.                                        *)
THEOREM RefusesUnauthorized == Spec => []UnauthorizedIsRefused
<1>1. IInv => UnauthorizedIsRefused
  <2> SUFFICES ASSUME IInv, con # NULL, con.request # NULL, ~con.authorized
               PROVE  /\ con.userContext = NULL
                      /\ con.sent # <<>> /\ con.sent[Len(con.sent)] = 401
                      /\ con.parameters = SetParameters(Source(con.request), NUL)
                           \/ con.parameters = SetParameters(Source(con.request), Equals)
    BY DEF UnauthorizedIsRefused
  <2>1. con.http # "idle"
    <3>1. NewConnection.request = NULL
      BY DEF NewConnection
    <3> QED
      BY <3>1 DEF IInv, ConInv
  <2>2. RequestInv(con, maps)
    BY <2>1 DEF IInv, ConInv
  <2> QED
    BY <2>2 DEF RequestInv
<1> QED
  BY <1>1, Invariance, PTL

(* findHandler: a request goes to the handler of its path or of its        *)
(* longest prefix.                                                         *)
THEOREM DispatchesRight == Spec => []DispatchedRight
<1>1. IInv => DispatchedRight
  <2> SUFFICES ASSUME IInv, con # NULL, con.request # NULL PROVE DispatchedRight
    BY DEF DispatchedRight
  <2>1. con.http # "idle"
    <3>1. NewConnection.request = NULL
      BY DEF NewConnection
    <3> QED
      BY <3>1 DEF IInv, ConInv
  <2>2. RequestInv(con, maps) /\ maps \in Maps
    BY <2>1 DEF IInv, ConInv
  <2>3. con.request.uri \in Seq(Nat)
    BY <2>2, WebAssumption DEF RequestInv
  <2>4. con.handler = FindHandler(maps.match, maps.prefix, con.request.uri)
    BY <2>2 DEF RequestInv
  <2> QED
    BY <2>2, <2>3, <2>4, FindsLongest DEF DispatchedRight
<1> QED
  BY <1>1, Invariance, PTL


(* Every variable keeps its type, and no value that is being collected     *)
(* exceeds the limit of updateMultipartData.                               *)
THEOREM TypeCorrect == NullIsNoConnection /\ ParametersAreBytes => (Spec => []TypeOK)
<1> SUFFICES ASSUME NullIsNoConnection, ParametersAreBytes PROVE Spec => []TypeOK
  OBVIOUS
<1>1. IInv /\ CountInv => TypeOK
  <2> SUFFICES ASSUME IInv, CountInv, con # NULL
               PROVE  /\ con.http \in {"idle", "parts", "part", "end"}
                      /\ con.status \in {"init", "mpart_init", "mpart_data", "complete"}
                      /\ con.request = NULL \/ con.request \in Plains \cup Multiparts
                      /\ \A k \in DOMAIN con.parameters : con.parameters[k] \in Seq(Bytes)
                      /\ con.userContext # NULL =>
                           con.userContext \in Field /\ Len(con.userContext.value) <= DATA_MAX
                      /\ con.response \in {"open", "closed", "flushed"}
                      /\ con.sent \in Seq(Codes) /\ con.fields \in Seq(Field)
                      /\ con.closing \in BOOLEAN /\ con.authorized \in BOOLEAN
    BY DEF TypeOK, IInv, CountInv, Codes
  <2>1. CASE con.http = "idle"
    <3>1. con = NewConnection
      BY <2>1 DEF IInv, ConInv
    <3>2. <<>> \in Seq(Codes) /\ <<>> \in Seq(Field) /\ DOMAIN <<>> = {}
      OBVIOUS
    <3> QED
      BY <3>1, <3>2 DEF NewConnection, None
  <2>2. CASE con.http # "idle"
    <3>1. ShapeInv(con) /\ RequestInv(con, maps) /\ ContextInv(con) /\ ParserInv(con)
      BY <2>2 DEF IInv, ConInv
    <3>2. \A k \in DOMAIN con.parameters : con.parameters[k] \in Seq(Bytes)
      BY <3>1 DEF RequestInv, AreBytes
    <3>3. con.userContext # NULL =>
            con.userContext \in Field /\ Len(con.userContext.value) <= DATA_MAX
      BY <3>1 DEF ContextInv, ParserInv
    <3> QED
      BY <3>1, <3>2, <3>3 DEF ShapeInv, RequestInv, ParserInv
  <2> QED
    BY <2>1, <2>2
<1>2. Init => IInv /\ CountInv
  BY InitInv
<1>3. IInv /\ CountInv /\ [Next]_vars => (IInv /\ CountInv)'
  BY NextInv
<1> QED
  BY <1>1, <1>2, <1>3, PTL DEF Spec

(* setParameters, updateMultipartData and endMultipartData: a handler that *)
(* answers 200 was given exactly the parameters of the request, the last   *)
(* part of a name before the earlier ones and before the query, and none   *)
(* of them cut, whatever the pieces they arrived in.                       *)
THEOREM ReceivesParameters == PlainIsParsed => (Spec => []ParametersAreReceived)
<1> SUFFICES ASSUME PlainIsParsed PROVE Spec => []ParametersAreReceived
  OBVIOUS
<1>1. ReceivedInv => ParametersAreReceived
  BY DEF ReceivedInv, GivenInv, ParametersAreReceived
<1>2. Init => IInv /\ ReceivedInv
  BY InitInv
<1>3. IInv /\ ReceivedInv /\ [Next]_vars => (IInv /\ ReceivedInv)'
  BY NextInv
<1> QED
  BY <1>1, <1>2, <1>3, PTL DEF Spec
=============================================================================
