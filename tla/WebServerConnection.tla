------------------------ MODULE WebServerConnection ------------------------
(***************************************************************************)
(* A connection of main/webserver.cpp: WebServer::handler and              *)
(* WebServerConnection::dispatchEvent, event by event as mongoose's loop   *)
(* calls them, with the multipart methods of main/WebserverHandler.cpp and *)
(* the handlers of main/main.cpp.  The loop is one thread and connections  *)
(* share nothing that changes, so there is one of them.                    *)
(***************************************************************************)
EXTENDS HandlerMap, FormParameters

CONSTANTS NeedAuthentication, \* the handlers whose needDigestAuthentication is true
          Answering,          \* the handlers whose recieveRequest closes the response
          Contents,           \* the paths of the content provider; {} without one
          Maps,               \* the handler maps, as setHandler has left them
          Plains, Multiparts, \* the requests, see Request
          Names,              \* the names of parts
          DATA_MAX,           \* DEFAULT_MULTIPART_DATA_MAX
          REQUESTS, PARTS     \* bounds: requests of a connection, parts of one;
                              \* a part has at most DATA_MAX + 1 bytes

ASSUME WebAssumption ==
  /\ DATA_MAX \in Nat /\ REQUESTS \in Nat /\ PARTS \in Nat
  /\ \A r \in Plains \cup Multiparts : r.method \in {"GET", "other"} /\ r.uri \in Seq(Nat)
  /\ \A m \in Maps : \A k \in DOMAIN m.match \cup DOMAIN m.prefix : k \in Seq(Nat)
  /\ Names \subseteq Seq(Nat)
  /\ NULL \notin [key : Seq(Nat), value : Seq(Nat)]

VARIABLES
  maps,      \* matchHandlers and prefixHandlers
  con,       \* the connection, NULL where there is none
  contexts   \* MultipartContexts allocated and not deleted

vars == <<maps, con, contexts>>

(* A request is its method, uri and query, and its form: the body where    *)
(* Content-Type says it is a url-encoded one.                              *)
(*                                                                         *)
(* http: how far mongoose has parsed the request.  status, handler,        *)
(* userContext: of WebServerConnection.  parameters: of HttpRequest.       *)
(* response, code: its state and httpStatus.  sent, closing: the responses *)
(* sent and MG_F_SEND_AND_CLOSE.  For the properties: requests, how many   *)
(* there were; fields, the parts of this one; and authorized.              *)
NewConnection ==
  [http |-> "idle", status |-> "init", request |-> NULL, parameters |-> None,
   handler |-> NULL, userContext |-> NULL, response |-> "open", code |-> 200,
   sent |-> <<>>, closing |-> FALSE, requests |-> 0, fields |-> <<>>, authorized |-> FALSE]

Init ==
  /\ maps \in Maps
  /\ con = NULL /\ contexts = 0

-----------------------------------------------------------------------------
(* What the handlers of events call.                                       *)

(* HttpResponse::close, with what is set before it.                        *)
Close(c, code) == [c EXCEPT !.response = "closed", !.code = code]

(* HttpRequest::reset: where the parameters are ...                        *)
Source(r) == IF r.method = "GET" /\ r.query # <<>> THEN r.query ELSE r.form

WrongKept_Reset(c, r, junk) ==
  [c EXCEPT !.request = r,
            !.parameters = IF Source(r) = <<>> THEN @ ELSE SetParameters(Source(r), junk),
            !.response = "open", !.code = 200, !.fields = <<>>, !.requests = @ + 1,
            !.handler = FindHandler(maps.match, maps.prefix, r.uri)]

(* ... and, with HttpResponse::reset and findHandler, a new request.       *)
Reset(c, r, junk) ==
  [c EXCEPT !.request = r, !.parameters = SetParameters(Source(r), junk),
            !.response = "open", !.code = 200, !.fields = <<>>, !.requests = @ + 1,
            !.handler = FindHandler(maps.match, maps.prefix, r.uri)]

WrongOpen_Authenticate(c, ok) ==
  IF c.handler \in NeedAuthentication /\ ~ok
  THEN [c EXCEPT !.closing = TRUE, !.authorized = FALSE]
  ELSE [c EXCEPT !.authorized = TRUE]

(* authenticate; ok is the answer of mg_http_check_digest_auth.            *)
Authenticate(c, ok) ==
  IF c.handler \in NeedAuthentication /\ ~ok
  THEN [c EXCEPT !.response = "flushed", !.sent = Append(@, 401),
                 !.closing = TRUE, !.authorized = FALSE]
  ELSE [c EXCEPT !.authorized = TRUE]

(* makeFileResponse: content of no length is none.                         *)
MakeFileResponse(c) ==
  Close(c, IF c.request.method = "GET" /\ c.request.uri \in Contents THEN 200 ELSE 404)

(* recieveRequest does nothing unless it is overridden.                    *)
RecieveRequest(c) == IF c.handler \in Answering THEN Close(c, 200) ELSE c

(* The end of dispatchEvent: the handler or the file, then 501 ...         *)
Answered(c) ==
  LET a == IF c.response # "open" THEN c
           ELSE IF c.handler # NULL THEN RecieveRequest(c) ELSE MakeFileResponse(c)
  IN  IF a.response = "open" THEN Close(a, 501) ELSE a

WrongOpen_Flush(c) ==
  [c EXCEPT !.sent = IF c.response = "flushed" THEN @ ELSE Append(@, c.code),
            !.closing = TRUE]

(* ... and flush.                                                          *)
Flush(c) ==
  [c EXCEPT !.sent = IF c.response = "flushed" THEN @ ELSE Append(@, c.code),
            !.response = "flushed", !.closing = TRUE]

Proceed(c) ==
  IF c.status = "complete" /\ c.response # "flushed" THEN Flush(Answered(c)) ELSE c

(* updateMultipartData: a value that would grow too long is a 500 instead. *)
WrongLong_UpdateMultipartData(c, data) ==
  [c EXCEPT !.userContext.value = @ \o data]

UpdateMultipartData(c, data) ==
  IF Len(c.userContext.value) + Len(data) > DATA_MAX THEN Close(c, 500)
  ELSE [c EXCEPT !.userContext.value = @ \o data]

-----------------------------------------------------------------------------
(* WebServer::handler and dispatchEvent, event by event.                   *)

(* MG_EV_ACCEPT                                                            *)
Accept ==
  /\ con = NULL
  /\ con' = NewConnection
  /\ UNCHANGED <<maps, contexts>>

(* A request may follow another one until the connection is closed.        *)
Arrives == con # NULL /\ con.http \in {"idle", "end"} /\ con.requests < REQUESTS

(* MG_EV_HTTP_REQUEST                                                      *)
HttpRequest(r, ok, junk) ==
  /\ Arrives
  /\ con' = Proceed(Authenticate([Reset(con, r, junk) EXCEPT
                       !.http = "end", !.status = "complete"], ok))
  /\ UNCHANGED <<maps, contexts>>

(* MG_EV_HTTP_MULTIPART_REQUEST: refused ...                               *)
MultipartRefused(r, ok, junk) ==
  LET c == Authenticate([Reset(con, r, junk) EXCEPT !.http = "parts",
                           !.status = "mpart_init"], ok)
  IN  /\ Arrives
      /\ ~c.authorized
      /\ con' = Proceed([c EXCEPT !.status = "complete"])
      /\ UNCHANGED <<maps, contexts>>

(* ... taken by the handler, whose beginMultipart allocates a context (and *)
(* closes no response here; "100 continue" is no answer yet) ...           *)
BeginMultipart(r, ok, junk) ==
  LET c == Authenticate([Reset(con, r, junk) EXCEPT !.http = "parts",
                           !.status = "mpart_init"], ok)
  IN  /\ Arrives
      /\ c.authorized /\ c.handler # NULL
      /\ con' = Proceed([c EXCEPT !.userContext = [key |-> <<>>, value |-> <<>>]])
      /\ contexts' = contexts + 1
      /\ UNCHANGED maps

(* ... or without a handler: a 404 now, or a file after the last part.     *)
MultipartWithoutHandler(r, junk) ==
  LET c == Authenticate([Reset(con, r, junk) EXCEPT !.http = "parts",
                           !.status = "mpart_init"], TRUE)
  IN  /\ Arrives
      /\ c.handler = NULL
      /\ con' = Proceed(IF r.method = "GET" THEN c
                        ELSE [MakeFileResponse(c) EXCEPT !.status = "complete"])
      /\ UNCHANGED <<maps, contexts>>

Takes(c) == c.handler # NULL /\ c.response = "open"

(* MG_EV_HTTP_PART_BEGIN, and beginMultipartData                           *)
PartBegin(name) ==
  LET c == [con EXCEPT !.http = "part", !.fields = Append(@, [key |-> name, value |-> <<>>])]
      d == [c EXCEPT !.status = "mpart_data"]
  IN  /\ con # NULL /\ con.http = "parts" /\ Len(con.fields) < PARTS
      /\ con' = Proceed(CASE con.status = "complete"                -> c
                          [] con.status # "complete" /\ ~Takes(con) -> d
                          [] con.status # "complete" /\ Takes(con)  ->
                               [d EXCEPT !.userContext = [key |-> name, value |-> <<>>]])
      /\ UNCHANGED <<maps, contexts>>

(* The next n bytes of a part; each says which one it is.                  *)
Data(n) ==
  LET p == Len(con.fields)
  IN  [i \in 1 .. n |-> 100 * p + Len(con.fields[p].value) + i]

(* MG_EV_HTTP_PART_DATA                                                    *)
PartData(n) ==
  LET c == [con EXCEPT !.fields[Len(con.fields)].value = @ \o Data(n)]
  IN  /\ con # NULL /\ con.http = "part"
      /\ Len(con.fields[Len(con.fields)].value) + n <= DATA_MAX + 1
      /\ con' = Proceed(IF con.status # "complete" /\ Takes(con)
                        THEN UpdateMultipartData(c, Data(n)) ELSE c)
      /\ UNCHANGED <<maps, contexts>>

(* MG_EV_HTTP_PART_END, and endMultipartData, whatever the status is.      *)
(* mongoose also ends the part there never was of a request without parts. *)
PartEnd ==
  LET c == IF Takes(con)
           THEN [con EXCEPT !.parameters =
                   Assign(@, con.userContext.key, con.userContext.value)]
           ELSE con
  IN  /\ con # NULL
      /\ con.http = "part" \/ (con.http = "parts" /\ con.fields = <<>>)
      /\ con' = Proceed([c EXCEPT !.http = "parts",
                            !.status = IF @ = "complete" THEN @ ELSE "mpart_init"])
      /\ UNCHANGED <<maps, contexts>>

WrongKept_MultipartEnd ==
  /\ con # NULL /\ con.http = "parts"
  /\ con' = Proceed([con EXCEPT !.http = "end", !.status = "complete", !.userContext = NULL])
  /\ UNCHANGED <<maps, contexts>>

(* MG_EV_HTTP_MULTIPART_REQUEST_END, and endMultipart: deleting NULL where *)
(* beginMultipart was not called does nothing.                             *)
MultipartEnd ==
  /\ con # NULL /\ con.http = "parts"
  /\ con' = Proceed([con EXCEPT !.http = "end", !.status = "complete",
                        !.userContext = IF con.handler # NULL THEN NULL ELSE @])
  /\ contexts' = IF con.handler # NULL /\ con.userContext # NULL THEN contexts - 1
                 ELSE contexts
  /\ UNCHANGED maps

(* MG_EV_CLOSE, once the response is out or the peer is gone; mongoose     *)
(* ends a part and a multipart request before it closes the connection.    *)
CloseEvent ==
  /\ con # NULL /\ con.http \in {"idle", "end"}
  /\ con' = NULL
  /\ UNCHANGED <<maps, contexts>>

Next ==
  \/ Accept
  \/ \E r \in Plains, ok \in BOOLEAN, junk \in {NUL, Equals} : HttpRequest(r, ok, junk)
  \/ \E r \in Multiparts, junk \in {NUL, Equals} :
       \/ \E ok \in BOOLEAN : MultipartRefused(r, ok, junk) \/ BeginMultipart(r, ok, junk)
       \/ MultipartWithoutHandler(r, junk)
  \/ \E name \in Names : PartBegin(name)
  \/ \E n \in 1 .. DATA_MAX + 1 : PartData(n)
  \/ PartEnd \/ MultipartEnd \/ CloseEvent

Spec == Init /\ [][Next]_vars

-----------------------------------------------------------------------------
(* Properties.                                                             *)

Bytes  == Nat
Field  == [key : Seq(Bytes), value : Seq(Bytes)]

(* setParameters gives strings of bytes.                                   *)
ParametersAreBytes ==
  \A r \in Plains \cup Multiparts, junk \in {NUL, Equals} :
    LET ps == SetParameters(Source(r), junk)
    IN  \A k \in DOMAIN ps : ps[k] \in Seq(Bytes)

(* It gives what it should where nothing is escaped.                       *)
PlainIsParsed ==
  \A r \in Plains \cup Multiparts, junk \in {NUL, Equals} :
    IsPlain(Source(r)) => SetParameters(Source(r), junk) = ParametersIn(Source(r))

(* The type of every variable.  A value being collected never exceeds the  *)
(* limit of updateMultipartData.                                           *)
TypeOK ==
  /\ maps \in Maps /\ contexts \in Nat
  /\ con # NULL =>
       /\ con.http \in {"idle", "parts", "part", "end"}
       /\ con.status \in {"init", "mpart_init", "mpart_data", "complete"}
       /\ con.request = NULL \/ con.request \in Plains \cup Multiparts
       /\ \A k \in DOMAIN con.parameters : con.parameters[k] \in Seq(Bytes)
       /\ con.userContext # NULL =>
            con.userContext \in Field /\ Len(con.userContext.value) <= DATA_MAX
       /\ con.response \in {"open", "closed", "flushed"}
       /\ con.sent \in Seq({200, 401, 404, 500, 501}) /\ con.fields \in Seq(Field)
       /\ con.closing \in BOOLEAN /\ con.authorized \in BOOLEAN

(* Every request is answered once: at its end if not before, and whatever  *)
(* parts still arrive after an early answer add no second one.             *)
AnsweredOnce ==
  con # NULL =>
    /\ con.http = "idle"            => con.sent = <<>>
    /\ con.http = "end"             => Len(con.sent) = con.requests /\ con.closing
    /\ con.http \in {"parts", "part"} => Len(con.sent) \in {con.requests - 1, con.requests}

(* The context of a multipart request is there whenever the next event     *)
(* would use it, is deleted with its request, and never twice.             *)
ContextIsOwned ==
  /\ contexts = IF con # NULL /\ con.userContext # NULL THEN 1 ELSE 0
  /\ con # NULL =>
       /\ con.http \in {"idle", "end"} => con.userContext = NULL
       /\ con.http \in {"parts", "part"} /\ Takes(con) => con.userContext # NULL

(* A request goes to the handler of its path, else to that of the longest  *)
(* prefix of its path, though findHandler looks at one prefix only: it can *)
(* miss one where paths of the map nest, but never finds a shorter one.    *)
DispatchedRight ==
  con # NULL /\ con.request # NULL =>
    LET uri   == con.request.uri
        paths == DOMAIN maps.prefix
    IN  IF uri \in DOMAIN maps.match THEN con.handler = maps.match[uri]
        ELSE \/ \E k \in paths : IsLongestPrefix(k, paths, uri) /\ con.handler = maps.prefix[k]
             \/ con.handler = NULL /\ (PrefixesOf(paths, uri) = {} \/ Nested(paths))

(* Where in fields the last one named key is.                              *)
LastNamed(fields, key) ==
  {i \in DOMAIN fields : /\ fields[i].key = key
                         /\ \A j \in i + 1 .. Len(fields) : fields[j].key # key}

(* The last of the parts with each name, and the form or query with them.  *)
Collected(fields, others) ==
  LET parts == {fields[i].key : i \in DOMAIN fields}
  IN  [k \in parts \cup DOMAIN others |->
         IF k \in parts THEN fields[CHOOSE i \in LastNamed(fields, k) : TRUE].value
         ELSE others[k]]

Received(request, fields) == Collected(fields, ParametersIn(Source(request)))

(* What a handler should be given.  The part mongoose ends that there      *)
(* never was is one without a name and of no bytes.                        *)
Given(parameters, request, fields) ==
  LET all == Received(request, fields)
  IN  \/ parameters = all
      \/ /\ request \in Multiparts /\ \A i \in DOMAIN fields : fields[i].key # <<>>
         /\ parameters = Assign(all, <<>>, <<>>)

Uncut(fields) == \A i \in DOMAIN fields : Len(fields[i].value) <= DATA_MAX

(* A handler that answers 200 was given exactly the parameters of this     *)
(* request, none of them cut: those of its parts, however they arrived,    *)
(* and those of a form or query without escapes.  (A multipart request     *)
(* without parts sets the parameter without a name to nothing, whatever    *)
(* its query says.)                                                        *)
ParametersAreReceived ==
  (con # NULL /\ con.http = "end" /\ con.handler # NULL /\ con.code = 200
     /\ con.authorized /\ IsPlain(Source(con.request)))
  => Given(con.parameters, con.request, con.fields) /\ Uncut(con.fields)

(* A url-encoded form gives the handler the parameters that the same       *)
(* fields sent as parts do: "handling as same as case of                   *)
(* x-www-form-urlencoded transparency" (WebserverHandler.cpp:20).          *)
FormsAreTransparent ==
  con # NULL /\ con.http = "end" /\ con.request \in Plains /\ con.handler # NULL /\ con.code = 200
    => con.parameters = ParametersOfParts(Source(con.request))

(* A handler that needs authentication is given nothing of a request that  *)
(* was not authorized: no part, no context, and the answer is 401.         *)
UnauthorizedIsRefused ==
  con # NULL /\ con.request # NULL /\ con.handler \in NeedAuthentication /\ ~con.authorized =>
    /\ con.userContext = NULL
    /\ con.sent # <<>> /\ con.sent[Len(con.sent)] = 401
    /\ con.parameters = SetParameters(Source(con.request), NUL)
         \/ con.parameters = SetParameters(Source(con.request), Equals)
=============================================================================
