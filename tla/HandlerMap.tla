----------------------------- MODULE HandlerMap -----------------------------
(***************************************************************************)
(* WebServer::findHandler of main/webserver.cpp: which handler serves a    *)
(* path.  Paths are sequences of bytes; the two maps are functions from    *)
(* paths to handlers.                                                      *)
(***************************************************************************)
EXTENDS Naturals, SequencesExt

CONSTANT NULL

WrongShort_Less(s, t) ==
  \E i \in 1 .. Len(s) : i <= Len(t) /\ s[i] < t[i] /\ SubSeq(s, 1, i - 1) = SubSeq(t, 1, i - 1)

(* WebString::compareTo: memcmp over the common length, then the lengths.  *)
Less(s, t) ==
  \/ IsStrictPrefix(s, t)
  \/ \E i \in 1 .. Len(s) :
       i <= Len(t) /\ s[i] < t[i] /\ SubSeq(s, 1, i - 1) = SubSeq(t, 1, i - 1)

(* upper_bound of a map ordered by std::greater: the greatest of the paths *)
(* that are less than this one, if there is one.                           *)
UpperBound(paths, path) ==
  {k \in paths : Less(k, path) /\ \A l \in paths : Less(l, path) => ~Less(k, l)}

FindHandler(matchHandlers, prefixHandlers, path) ==
  LET bound == {k \in UpperBound(DOMAIN prefixHandlers, path) : IsPrefix(k, path)}
  IN  IF path \in DOMAIN matchHandlers THEN matchHandlers[path]
      ELSE IF path \in DOMAIN prefixHandlers THEN prefixHandlers[path]
      ELSE IF bound # {} THEN prefixHandlers[CHOOSE k \in bound : TRUE]
      ELSE NULL

-----------------------------------------------------------------------------
(* What it should find: the longest of the prefixes of the path.           *)

PrefixesOf(paths, path) == {k \in paths : IsPrefix(k, path)}

IsLongestPrefix(k, paths, path) ==
  /\ k \in PrefixesOf(paths, path)
  /\ \A l \in PrefixesOf(paths, path) : Len(l) <= Len(k)

(* Some path of the map extends another one.                               *)
Nested(paths) == \E k, l \in paths : IsStrictPrefix(k, l)
=============================================================================
