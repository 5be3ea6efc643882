----------------------------- MODULE MainProgram -----------------------------
(***************************************************************************)
(* The firmware as app_main (main/main.cpp) starts it: the digest file,    *)
(* the two HTTP servers that check requests with it and the station whose  *)
(* link brings the requests.  What else the servers and the IR server do   *)
(* is in the modules of their own.                                         *)
(***************************************************************************)
EXTENDS HtdigestFile, StationEvents

CONSTANT RESTARTS  \* bound: restarts of the device

ASSUME MainAssumption ==
  Threads \subseteq {"WebServer", "HttpServer"} /\ RESTARTS \in Nat

VARIABLES
  booted,    \* how many steps of app_main are done
  listening, \* the threads whose server has a listener
  restarts

vars == <<digestVars, stationVars, booted, listening, restarts>>

Init ==
  /\ DigestInit /\ StationInit
  /\ booted = 0 /\ listening = {} /\ restarts = 0

-----------------------------------------------------------------------------
(* app_main.                                                               *)

WrongLate_Order ==
  <<"htdigestfs_init", "WebServer", "IRServer", "HttpServer", "connectAP", "htdigestfs_register">>

Order ==
  <<"htdigestfs_init", "htdigestfs_register", "WebServer", "IRServer", "HttpServer", "connectAP">>

Step(name) ==
  /\ booted < Len(Order) /\ Order[booted + 1] = name
  /\ booted' = booted + 1
  /\ UNCHANGED restarts

PrepareDigest ==
  /\ \/ Step("htdigestfs_init") /\ HtdigestfsInit
     \/ Step("htdigestfs_register") /\ HtdigestfsRegister
  /\ UNCHANGED <<stationVars, listening>>

(* startServer and startHttpServer: without a listener the server gets no  *)
(* request, and app_main goes on.                                          *)
StartServer ==
  /\ \E t \in Threads :
       Step(t) /\ \E bound \in BOOLEAN : listening' = IF bound THEN listening \cup {t} ELSE listening
  /\ UNCHANGED <<digestVars, stationVars>>

StartIRServer ==
  /\ Step("IRServer")
  /\ UNCHANGED <<digestVars, stationVars, listening>>

Connect ==
  /\ Step("connectAP") /\ ConnectAP
  /\ UNCHANGED <<digestVars, listening>>

AppMain == PrepareDigest \/ StartServer \/ StartIRServer \/ Connect

-----------------------------------------------------------------------------
(* The threads.                                                            *)

Check ==
  /\ \E t \in Threads :
       CheckStep(t) \/ (t \in listening /\ link = "up" /\ \E r \in Requests : CheckBegin(t, r))
  /\ UNCHANGED <<stationVars, booted, listening, restarts>>

Station(A) == A /\ UNCHANGED <<digestVars, booted, listening, restarts>>

(* A restart keeps nothing but, when it is not from a loss of power, the   *)
(* clock; lastAdjustTime survives a deep sleep only.                       *)
Restart ==
  /\ restarts < RESTARTS
  /\ restarts' = restarts + 1
  /\ digestData' = Nobody
  /\ fd' = [isOpened |-> FALSE, pos |-> 0] /\ fp' = [open |-> FALSE, eof |-> FALSE]
  /\ check' = [t \in Threads |-> "idle"] /\ request' = [t \in Threads |-> Nobody]
  /\ answer' = [t \in Threads |-> "none"] /\ crossed' = [t \in Threads |-> FALSE]
  /\ link' = "off" /\ events' = <<>> /\ handler' = "idle" /\ start' = 0
  /\ clock' \in {0, clock} /\ lastAdjustTime' = 0
  /\ sntp' = FALSE /\ synced' = FALSE /\ blocked' = 0
  /\ booted' = 0 /\ listening' = {}

Next ==
  \/ AppMain \/ Check \/ Restart
  \/ Station(GotIp) \/ Station(Disconnected) \/ Station(HandlerStep)
  \/ Station(Tick) \/ Station(SntpAnswers)

(* Threads run and time passes.  Of the world outside: an attempt to       *)
(* connect is not refused for ever, nor is SNTP silent for ever while the  *)
(* link comes up again and again.                                          *)
Fairness ==
  /\ WF_vars(AppMain) /\ WF_vars(Station(HandlerStep)) /\ WF_vars(Station(Tick))
  /\ SF_vars(Station(GotIp)) /\ SF_vars(Station(SntpAnswers))

Spec == Init /\ [][Next]_vars /\ Fairness

-----------------------------------------------------------------------------
(* Properties.                                                             *)

(* No check ever begins before the file is open and its entry registered,  *)
(* although nothing but the order of app_main sees to it.                  *)
DigestReady == \A t \in Threads : check[t] # "idle" => fp.open /\ digestData = Entry

(* A request is accepted only with what the entry holds; one that has it   *)
(* is refused only when the other server read the file between this one's  *)
(* seek and its read: a check finds nothing else another has left behind.  *)
CheckIsExact ==
  \A t \in Threads :
    /\ answer[t] = "accepted" => Matches(t)
    /\ answer[t] = "refused" /\ Matches(t) => crossed[t]

(* staGotIp holds the thread of the events up for TIMEOUT seconds and one, *)
(* whatever becomes of the link and of the clock meanwhile.                *)
EventsHeldBriefly == blocked <= TIMEOUT + 1

(* A station that has lost its link, or never got one, gets one again,     *)
(* however many events have queued up behind a staGotIp that waits.        *)
Reconnects == link = "down" ~> link = "up"

(* Once there is a link the clock is set by SNTP, even when the device has *)
(* run for so long without one that the clock looks set.                   *)
TimeIsAdjusted == link = "up" ~> synced

(* A link that is lost is not tried again before the handler has come to   *)
(* that event, however long it waits for SNTP: so at most two events wait, *)
(* and while the link is down the last one is the one that reconnects.     *)
EventsInOrder ==
  /\ Len(events) <= 2
  /\ link = "down" => events # <<>> /\ Last(events) = "disconnected"
=============================================================================
