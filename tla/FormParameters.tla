--------------------------- MODULE FormParameters ---------------------------
(***************************************************************************)
(* HttpRequest::setParameters of main/webserver.cpp: the parameters in a   *)
(* query string or a url-encoded body.  Bytes are numbers.                 *)
(***************************************************************************)
EXTENDS Integers, SequencesExt

NUL       == 0
Space     == 32
Percent   == 37
Ampersand == 38
Plus      == 43
Equals    == 61

None == <<>>

(* The fields of src, between its ampersands.                              *)
FieldsOf(src) ==
  LET cuts == SetToSortSeq({i \in 1 .. Len(src) : src[i] = Ampersand}
                             \cup {0, Len(src) + 1}, <)
  IN  [k \in 1 .. Len(cuts) - 1 |-> SubSeq(src, cuts[k] + 1, cuts[k + 1] - 1)]

(* mg_url_decode.  The two digits of an escape are abstracted to the byte  *)
(* they stand for, twice; an escape cut short makes the field malformed.   *)
Decoded(field) ==
  LET from[i \in 1 .. Len(field) + 1] ==
        IF i > Len(field) THEN <<>>
        ELSE IF field[i] # Percent
             THEN <<IF field[i] = Plus THEN Space ELSE field[i]>> \o from[i + 1]
             ELSE IF i + 2 > Len(field) THEN <<-1>>
                  ELSE <<field[i + 1]>> \o from[i + 3]
  IN  IF -1 \in ToSet(from[1]) THEN <<>> ELSE from[1]

(* The field's place in parametersBuf: what was decoded, its terminator    *)
(* where it is shorter than the field, and bytes nobody has set (junk).    *)
Buffer(field, junk) ==
  LET decoded == Decoded(field)
  IN  [i \in 1 .. Len(field) |->
         IF i <= Len(decoded) THEN decoded[i]
         ELSE IF i = Len(decoded) + 1 THEN NUL ELSE junk]

(* parametersData[key] = value                                             *)
Assign(parameters, key, value) ==
  [k \in DOMAIN parameters \cup {key} |-> IF k = key THEN value ELSE parameters[k]]

(* Every '=' in the field's place separates a key from a value.            *)
SetField(parameters, field, junk) ==
  LET buffer     == Buffer(field, junk)
      separators == {i \in 1 .. Len(field) : buffer[i] = Equals}
  IN  IF Decoded(field) = <<>> THEN parameters
      ELSE FoldLeft(LAMBDA ps, i : Assign(ps, SubSeq(buffer, 1, i - 1),
                                          SubSeq(buffer, i + 1, Len(field))),
                    parameters, SetToSortSeq(separators, <))

SetParameters(src, junk) ==
  FoldLeft(LAMBDA ps, field : SetField(ps, field, junk), None, FieldsOf(src))

-----------------------------------------------------------------------------
(* What they should be where nothing is escaped and no field has two '='.  *)

IsPlain(src) ==
  /\ ToSet(src) \cap {Percent, Plus} = {}
  /\ \A f \in ToSet(FieldsOf(src)) :
       Cardinality({i \in 1 .. Len(f) : f[i] = Equals}) <= 1

(* The parameters that parts with the decoded names and values of src's    *)
(* fields give, each field being split at its first '='.                   *)
ParametersOfParts(src) ==
  LET At(f)     == CHOOSE i \in DOMAIN f : f[i] = Equals /\ \A j \in 1 .. i - 1 : f[j] # Equals
      Add(ps, f) == Assign(ps, Decoded(SubSeq(f, 1, At(f) - 1)),
                               Decoded(SubSeq(f, At(f) + 1, Len(f))))
  IN  FoldLeft(LAMBDA ps, f : IF Equals \in ToSet(f) THEN Add(ps, f) ELSE ps,
               None, FieldsOf(src))

(* The value the last of the fields named key has.                         *)
ParametersIn(src) ==
  LET fields  == FieldsOf(src)
      Is(k, key) == IsPrefix(Append(key, Equals), fields[k])
      keys    == UNION {Prefixes(f) : f \in ToSet(fields)}
      present == {key \in keys : \E k \in DOMAIN fields : Is(k, key)}
      Final(key) == CHOOSE k \in DOMAIN fields :
                     Is(k, key) /\ \A l \in DOMAIN fields : Is(l, key) => l <= k
  IN  [key \in present |-> SubSeq(fields[Final(key)], Len(key) + 2, Len(fields[Final(key)]))]
=============================================================================
