----------------------------- MODULE MCWebServer -----------------------------
(* A small instance of WebServerConnection.                                *)
EXTENDS WebServerConnection

(* The handlers of main.cpp and one that overrides nothing.                *)
MCNeedAuthentication == {"MyWebHandler2"}
MCAnswering          == {"MyWebHandler", "MyWebHandler2"}

(* Paths of up to four bytes; /tool/ and /manage/ are <<1>> and <<2, 1>>.  *)
Map(match, prefix) == [match |-> match, prefix |-> prefix]

MCMaps ==
  {Map(<<>>, (<<1>> :> "MyWebHandler") @@ (<<2, 1>> :> "MyWebHandler2")),
   Map(<<2>> :> "WebServerHandler",
       (<<1>> :> "MyWebHandler") @@ (<<1, 2>> :> "MyWebHandler2") @@ (<<3>> :> "WebServerHandler"))}

MCContents == {<<2, 2>>}

Uris == {<<1>>, <<1, 2, 1>>, <<1, 3>>, <<2>>, <<2, 1>>, <<2, 2>>}

(* a=a  a=&b  a=a&a=b  a=%aa  a=a=b                                        *)
Forms ==
  {<<97, 61, 97>>, <<97, 61, 38, 98>>, <<97, 61, 97, 38, 97, 61, 98>>,
   <<97, 61, 37, 97, 97>>, <<97, 61, 97, 61, 98>>}

Request(method, uri, query, form) ==
  [method |-> method, uri |-> uri, query |-> query, form |-> form]

MCPlains ==
  {Request("GET", uri, query, <<>>) : uri \in Uris, query \in Forms \cup {<<>>}}
    \cup {Request("other", uri, <<97, 61, 98>>, form) : uri \in Uris, form \in Forms}

(* One form, a=%bb, where %bb stands for the byte b.                       *)
MCEscaped == {Request("other", <<1>>, <<>>, <<97, 61, 37, 98, 98>>)}

MCMultiparts ==
  {Request(method, uri, <<97, 61, 98>>, <<>>) : method \in {"GET", "other"}, uri \in Uris}
    \cup {Request("GET", <<1>>, <<61, 98>>, <<>>)}

MCNames == {<<97>>, <<98>>}

(* What the proofs take of setParameters, here and for all forms of up to  *)
(* five of the bytes a, b, = and &.                                        *)
ASSUME MCParametersAreBytes == ParametersAreBytes
ASSUME MCPlainIsParsed ==
  /\ PlainIsParsed
  /\ \A src \in UNION {[1 .. n -> {97, 98, Equals, Ampersand}] : n \in 0 .. 5} :
       IsPlain(src) => SetParameters(src, NUL) = ParametersIn(src)
==============================================================================
