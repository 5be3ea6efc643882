---------------------------- MODULE MCMainProgram ----------------------------
EXTENDS MainProgram

(* The names and domains of main.cpp and mywebserver.cpp; the user's       *)
(* secret and another one.                                                 *)
MCThreads == {"WebServer", "HttpServer"}
MCDomain  == [t \in MCThreads |-> IF t = "WebServer" THEN "irserver" ELSE "opiopan"]
MCEntry   == [user |-> "foo", domain |-> "opiopan", secret |-> "bar"]
MCRequests ==
  {MCEntry, [MCEntry EXCEPT !.secret = "other"], [MCEntry EXCEPT !.user = "other"]}
=============================================================================
