-------------------------- MODULE MainProgram_proof --------------------------
(***************************************************************************)
(* The start-up, the checks against the shared digest file and the thread  *)
(* of the station's events, for every set of server threads, entry and     *)
(* time-out: the safety properties of MainProgram.                         *)
(***************************************************************************)
EXTENDS MainProgram, SequenceTheorems, TLAPS

USE DigestAssumption, TimeAssumption

-----------------------------------------------------------------------------
(* The inductive invariant.                                                *)

(* The type of what the checks share.                                      *)
DigestType ==
  /\ digestData \in {Nobody, Entry}
  /\ fd \in [isOpened : BOOLEAN, pos : 0 .. LENGTH]
  /\ fp \in [open : BOOLEAN, eof : BOOLEAN]
  /\ check \in [Threads -> {"idle", "seek", "read"}]
  /\ request \in [Threads -> Requests \cup {Nobody}]
  /\ answer \in [Threads -> {"none", "accepted", "refused"}]
  /\ crossed \in [Threads -> BOOLEAN]

(* What is there after how many steps of app_main; a server listens, and a *)
(* check is made, only after the first two.                                *)
BootInv ==
  /\ booted \in 0 .. 6
  /\ fd.isOpened <=> booted >= 1
  /\ fp.open <=> booted >= 1
  /\ booted >= 2 => digestData = Entry
  /\ listening # {} => booted >= 2
  /\ \A t \in Threads : check[t] # "idle" \/ answer[t] # "none" => booted >= 2

(* A check that could succeed and was not crossed finds the file at its    *)
(* start when it is about to read.                                         *)
CheckInv ==
  \A t \in Threads :
    check[t] = "read" /\ Matches(t) /\ ~crossed[t] => fd.pos = 0 /\ ~fp.eof

(* What staGotIp has waited, against the clock while it is not set.        *)
WaitInv ==
  /\ handler \in {"idle", "check", "delay"}
  /\ clock \in 0 .. CLOCK_MAX /\ start \in Nat /\ blocked \in Nat
  /\ handler = "idle"  => blocked = 0
  /\ handler = "check" => blocked <= TIMEOUT + 1
  /\ handler = "delay" => blocked <= TIMEOUT
  /\ handler # "idle" /\ clock < ADJUSTED => blocked = clock - start

(* Which events wait in each state of the link.                            *)
EventInv ==
  \/ link \in {"off", "connecting"} /\ events = <<>>
  \/ link = "up" /\ events \in {<<>>, <<"gotIp">>}
  \/ link = "down" /\ events \in {<<"disconnected">>, <<"gotIp", "disconnected">>}

FileInv == DigestType /\ BootInv /\ CheckInv /\ CheckIsExact

IInv == FileInv /\ WaitInv /\ EventInv

-----------------------------------------------------------------------------
(* The file.                                                               *)

(* A step of the file's variables that is none of the checks or the main   *)
(* program's leaves them as they are.                                      *)
LEMMA FileStable ==
  ASSUME FileInv, UNCHANGED <<digestVars, booted, listening>>
  PROVE  FileInv'
BY DEF FileInv, DigestType, BootInv, CheckInv, CheckIsExact, Matches, Decides, digestVars

(* app_main prepares the digest before any check.                          *)
LEMMA PrepareStep ==
  ASSUME FileInv, PrepareDigest
  PROVE  FileInv'
<1> USE DEF FileInv, DigestType, BootInv, Step, Order
<1>1. CASE Step("htdigestfs_init") /\ HtdigestfsInit
  <2>1. booted = 0 /\ booted' = 1
    BY <1>1
  <2>2. fd' = [isOpened |-> TRUE, pos |-> 0] /\ fp' = [open |-> TRUE, eof |-> FALSE]
    <3>1. fd.isOpened = FALSE
      BY <2>1
    <3> QED
      BY <1>1, <3>1 DEF HtdigestfsInit, FsOpen
  <2>3. UNCHANGED <<digestData, listening, checkVars>>
    BY <1>1 DEF PrepareDigest, HtdigestfsInit
  <2>4. DigestType'
    BY <2>2, <2>3 DEF checkVars
  <2>5. BootInv'
    BY <2>1, <2>2, <2>3 DEF checkVars
  <2>6. \A t \in Threads : check'[t] = "idle" /\ answer'[t] = "none"
    BY <2>1, <2>3 DEF checkVars
  <2> QED
    BY <2>4, <2>5, <2>6 DEF CheckInv, CheckIsExact
<1>2. CASE Step("htdigestfs_register") /\ HtdigestfsRegister
  <2>1. booted = 1 /\ booted' = 2
    BY <1>2
  <2>2. DigestType' /\ BootInv'
    BY <1>2, <2>1 DEF PrepareDigest, HtdigestfsRegister, checkVars
  <2>3. \A t \in Threads : check'[t] = "idle" /\ answer'[t] = "none"
    BY <1>2, <2>1 DEF HtdigestfsRegister, checkVars
  <2> QED
    BY <2>2, <2>3 DEF CheckInv, CheckIsExact
<1> QED
  BY <1>1, <1>2 DEF PrepareDigest

(* The other steps of app_main; a server listens from the third step on.   *)
LEMMA BootStep ==
  ASSUME FileInv, StartServer \/ StartIRServer \/ Connect
  PROVE  FileInv'
<1>1. UNCHANGED digestVars
  BY DEF StartServer, StartIRServer, Connect
<1>2. booted \in 2 .. 5 /\ booted' = booted + 1
  BY MainAssumption DEF StartServer, StartIRServer, Connect, Step, Order, FileInv, BootInv
<1> QED
  BY <1>1, <1>2
  DEF FileInv, DigestType, BootInv, CheckInv, CheckIsExact, Matches, Decides, digestVars

(* A request arrives, after the first two steps.                           *)
LEMMA BeginStep ==
  ASSUME FileInv, NEW t \in Threads, t \in listening, NEW r \in Requests,
         CheckBegin(t, r), UNCHANGED <<booted, listening>>
  PROVE  FileInv'
<1>1. DigestType' /\ BootInv'
  BY DEF FileInv, DigestType, BootInv, CheckBegin
<1>2. /\ check'[t] = "seek" /\ answer'[t] = "none"
      /\ \A u \in Threads \ {t} : /\ check'[u] = check[u] /\ answer'[u] = answer[u]
                                  /\ crossed'[u] = crossed[u] /\ request'[u] = request[u]
  BY DEF FileInv, DigestType, CheckBegin
<1>3. UNCHANGED <<digestData, fd, fp>>
  BY DEF CheckBegin
<1>4. \A u \in Threads \ {t} : Matches(u)' <=> Matches(u)
  BY <1>2, <1>3 DEF Matches, Decides
<1>5. CheckInv'
  BY <1>2, <1>3, <1>4 DEF FileInv, CheckInv
<1>6. CheckIsExact'
  BY <1>2, <1>4 DEF FileInv, CheckIsExact
<1> QED
  BY <1>1, <1>5, <1>6 DEF FileInv

(* A seek puts the file at its start, for every check about to read.       *)
LEMMA SeekStep ==
  ASSUME FileInv, NEW t \in Threads, Fseek(t), UNCHANGED <<booted, listening>>
  PROVE  FileInv'
<1>1. fd.isOpened /\ Length \in Nat
  BY DEF FileInv, BootInv, Fseek, Length
<1>2. fd' = [fd EXCEPT !.pos = 0] /\ fp' = [fp EXCEPT !.eof = FALSE]
  BY <1>1 DEF Fseek, FsLseek
<1>3. /\ fd' \in [isOpened : BOOLEAN, pos : 0 .. LENGTH] /\ fd'.isOpened = fd.isOpened
      /\ fp' \in [open : BOOLEAN, eof : BOOLEAN] /\ fp'.open = fp.open
      /\ fd'.pos = 0 /\ fp'.eof = FALSE
  <2>1. fd \in [isOpened : BOOLEAN, pos : 0 .. LENGTH] /\ fp \in [open : BOOLEAN, eof : BOOLEAN]
    BY DEF FileInv, DigestType
  <2>2. fd' \in [isOpened : BOOLEAN, pos : 0 .. LENGTH] /\ fd'.isOpened = fd.isOpened /\ fd'.pos = 0
    BY <1>2, <2>1
  <2>3. fp' \in [open : BOOLEAN, eof : BOOLEAN] /\ fp'.open = fp.open /\ fp'.eof = FALSE
    BY <1>2, <2>1
  <2> QED
    BY <2>2, <2>3
<1>4. DigestType'
  BY <1>3 DEF FileInv, DigestType, Fseek
<1>5. BootInv'
  BY <1>3 DEF FileInv, DigestType, BootInv, Fseek
<1>6. \A u \in Threads : Matches(u)' <=> Matches(u)
  BY DEF Matches, Decides, Fseek
<1>7. CheckInv'
  BY <1>3 DEF CheckInv
<1>8. CheckIsExact'
  BY <1>6 DEF FileInv, CheckIsExact, Fseek
<1> QED
  BY <1>4, <1>5, <1>7, <1>8 DEF FileInv

(* A read of the entry decides for those it names, and crosses the others  *)
(* that are about to read.                                                 *)
LEMMA ReadEntryStep ==
  ASSUME FileInv, NEW t \in Threads, ReadEntry(t), UNCHANGED <<booted, listening>>
  PROVE  FileInv'
<1>1. /\ fd' \in [isOpened : BOOLEAN, pos : 0 .. LENGTH] /\ fd'.isOpened = fd.isOpened
      /\ fp' \in [open : BOOLEAN, eof : BOOLEAN] /\ fp'.open = fp.open
  <2>1. fd \in [isOpened : BOOLEAN, pos : 0 .. LENGTH] /\ fp \in [open : BOOLEAN, eof : BOOLEAN]
    BY DEF FileInv, DigestType
  <2>2. fd' \in [isOpened : BOOLEAN, pos : 0 .. LENGTH] /\ fd'.isOpened = fd.isOpened
    BY <2>1 DEF ReadEntry
  <2>3. fp' \in [open : BOOLEAN, eof : BOOLEAN] /\ fp'.open = fp.open
    BY <2>1 DEF ReadEntry
  <2> QED
    BY <2>2, <2>3
<1>2. crossed' \in [Threads -> BOOLEAN]
  BY Zenon DEF ReadEntry
<1>3. /\ check' \in [Threads -> {"idle", "seek", "read"}]
      /\ answer' \in [Threads -> {"none", "accepted", "refused"}]
  BY DEF FileInv, DigestType, ReadEntry, Answers
<1>4. DigestType'
  BY <1>1, <1>2, <1>3 DEF FileInv, DigestType, ReadEntry
<1>5. BootInv'
  <2>1. booted >= 2
    BY DEF FileInv, BootInv, ReadEntry
  <2> QED
    BY <1>1, <2>1 DEF FileInv, BootInv, ReadEntry
<1>6. \A u \in Threads : Matches(u)' <=> Matches(u)
  BY DEF Matches, Decides, ReadEntry
<1>7. \A u \in Threads \ {t} : /\ check'[u] = check[u] /\ answer'[u] = answer[u]
                               /\ check[u] = "read" => crossed'[u]
                               /\ crossed[u] => crossed'[u]
  BY DEF FileInv, DigestType, ReadEntry, Answers
<1>8. Matches(t) => check'[t] = "idle" /\ answer'[t] = "accepted"
  BY DEF FileInv, DigestType, ReadEntry, Answers, Matches
<1>9. ~Matches(t) => answer'[t] = answer[t] \/ answer'[t] = "refused"
  BY DEF FileInv, DigestType, ReadEntry, Answers
<1>10. CheckInv'
  BY <1>6, <1>7, <1>8 DEF CheckInv
<1>11. CheckIsExact'
  BY <1>6, <1>7, <1>8, <1>9 DEF FileInv, CheckIsExact
<1> QED
  BY <1>4, <1>5, <1>10, <1>11 DEF FileInv

(* A read at the end refuses: a check that could succeed was crossed.      *)
LEMMA ReadEndStep ==
  ASSUME FileInv, NEW t \in Threads, ReadEnd(t), UNCHANGED <<booted, listening>>
  PROVE  FileInv'
<1>1. DigestType' /\ BootInv'
  BY DEF FileInv, DigestType, BootInv, ReadEnd, Answers
<1>2. \A u \in Threads : Matches(u)' <=> Matches(u)
  BY DEF Matches, Decides, ReadEnd
<1>3. /\ check'[t] = "idle" /\ answer'[t] = "refused" /\ crossed' = crossed
      /\ \A u \in Threads \ {t} : check'[u] = check[u] /\ answer'[u] = answer[u]
  BY DEF FileInv, DigestType, ReadEnd, Answers
<1>4. Matches(t) => crossed[t]
  <2>1. booted >= 2 /\ digestData = Entry /\ fd.isOpened /\ fp.open
    BY DEF FileInv, BootInv, ReadEnd
  <2>2. Length = LENGTH
    BY <2>1 DEF Length
  <2>3. ~(fd.pos = 0 /\ ~fp.eof)
    BY <2>1, <2>2 DEF ReadEnd, Fgets, FsRead
  <2> QED
    BY <2>3 DEF FileInv, CheckInv, ReadEnd
<1>5. CheckInv'
  BY <1>2, <1>3 DEF FileInv, CheckInv, ReadEnd
<1>6. CheckIsExact'
  BY <1>2, <1>3, <1>4 DEF FileInv, CheckIsExact
<1> QED
  BY <1>1, <1>5, <1>6 DEF FileInv

-----------------------------------------------------------------------------
(* The station.                                                            *)

(* The queues of at most two events.                                       *)
LEMMA ShortQueues ==
  ASSUME NEW a, NEW b
  PROVE  /\ Append(<<>>, a) = <<a>> /\ Append(<<a>>, b) = <<a, b>>
         /\ <<a>> # <<>> /\ Head(<<a>>) = a /\ Tail(<<a>>) = <<>>
         /\ <<a, b>> # <<>> /\ Head(<<a, b>>) = a /\ Tail(<<a, b>>) = <<b>>
         /\ Len(<<>>) = 0 /\ Len(<<a>>) = 1 /\ Len(<<a, b>>) = 2
<1>1. Append(<<>>, a) = <<a>>
  OBVIOUS
<1>2. Append(<<a>>, b) = <<a, b>>
  <2> DEFINE s == Append(<<a>>, b)
             t == <<a, b>>
  <2>1. /\ <<a>> \in Seq({a, b}) /\ Len(<<a>>) = 1 /\ <<a>>[1] = a
        /\ t \in Seq({a, b}) /\ Len(t) = 2 /\ t[1] = a /\ t[2] = b
    OBVIOUS
  <2>2. s \in Seq({a, b}) /\ Len(s) = 2 /\ s[1] = a /\ s[2] = b
    BY <2>1, AppendProperties
  <2> HIDE DEF s, t
  <2>3. \A i \in 1 .. Len(s) : s[i] = t[i]
    BY <2>1, <2>2
  <2>4. s = t
    BY <2>1, <2>2, <2>3, SeqEqual
  <2> QED
    BY <2>4 DEF s, t
<1>3. <<a>> # <<>> /\ Head(<<a>>) = a /\ Tail(<<a>>) = <<>>
  OBVIOUS
<1>4. <<a, b>> # <<>> /\ Head(<<a, b>>) = a /\ Tail(<<a, b>>) = <<b>>
  OBVIOUS
<1>5. Len(<<>>) = 0 /\ Len(<<a>>) = 1 /\ Len(<<a, b>>) = 2
  OBVIOUS
<1> QED
  BY <1>1, <1>2, <1>3, <1>4, <1>5

(* Those the station fills.                                                *)
LEMMA EventQueues ==
  /\ Head(<<"gotIp">>) = "gotIp" /\ Tail(<<"gotIp">>) = <<>>
  /\ Head(<<"disconnected">>) = "disconnected" /\ Tail(<<"disconnected">>) = <<>>
  /\ Head(<<"gotIp", "disconnected">>) = "gotIp"
  /\ Tail(<<"gotIp", "disconnected">>) = <<"disconnected">>
  /\ <<"disconnected">> # <<>> /\ Last(<<"disconnected">>) = "disconnected"
  /\ <<"gotIp", "disconnected">> # <<>> /\ Last(<<"gotIp", "disconnected">>) = "disconnected"
  /\ Len(<<"gotIp">>) = 1 /\ Len(<<"disconnected">>) = 1 /\ Len(<<"gotIp", "disconnected">>) = 2
BY ShortQueues DEF Last

(* What the driver and the handlers do to the link and its events.         *)
LEMMA EventStep ==
  ASSUME EventInv,
         ConnectAP \/ GotIp \/ Disconnected \/ HandlerStep \/ Tick \/ SntpAnswers
  PROVE  EventInv'
<1>1. CASE ConnectAP
  BY <1>1 DEF EventInv, ConnectAP
<1>2. CASE GotIp
  <2>1. events' = <<"gotIp">> /\ link' = "up"
    BY <1>2, ShortQueues DEF EventInv, GotIp
  <2> QED
    BY <2>1 DEF EventInv
<1>3. CASE Disconnected
  <2>1. events' \in {<<"disconnected">>, <<"gotIp", "disconnected">>} /\ link' = "down"
    BY <1>3, ShortQueues DEF EventInv, Disconnected
  <2> QED
    BY <2>1 DEF EventInv
<1>4. CASE StaGotIp
  <2>1. link' = link /\ events # <<>> /\ Head(events) = "gotIp" /\ events' = Tail(events)
    BY <1>4 DEF StaGotIp, Handles
  <2>2. \/ link = "up" /\ events' = <<>>
        \/ link = "down" /\ events' = <<"disconnected">>
    BY <2>1, EventQueues DEF EventInv
  <2> QED
    BY <2>1, <2>2 DEF EventInv
<1>5. CASE StaDisconnected
  <2>1. events # <<>> /\ Head(events) = "disconnected" /\ events' = Tail(events)
    BY <1>5 DEF StaDisconnected, Handles
  <2>2. link = "down" /\ events' = <<>>
    BY <2>1, EventQueues DEF EventInv
  <2> QED
    BY <1>5, <2>2 DEF EventInv, StaDisconnected
<1>6. CASE WaitEnds \/ WaitDelays \/ Tick \/ SntpAnswers
  BY <1>6 DEF EventInv, WaitEnds, WaitDelays, Tick, SntpAnswers, timeVars
<1> QED
  BY <1>1, <1>2, <1>3, <1>4, <1>5, <1>6 DEF HandlerStep

(* The time staGotIp takes.                                                *)
LEMMA WaitStep ==
  ASSUME WaitInv,
         ConnectAP \/ GotIp \/ Disconnected \/ HandlerStep \/ Tick \/ SntpAnswers
  PROVE  WaitInv'
<1>1. CASE ConnectAP \/ GotIp \/ Disconnected \/ StaDisconnected
  BY <1>1 DEF WaitInv, ConnectAP, GotIp, Disconnected, StaDisconnected, timeVars
<1>2. CASE StaGotIp
  BY <1>2 DEF WaitInv, StaGotIp, StartSNTP, Handles
<1>3. CASE WaitEnds
  BY <1>3 DEF WaitInv, WaitEnds
<1>4. CASE WaitDelays
  BY <1>4 DEF WaitInv, WaitDelays, TimedOut, timeVars
<1>5. CASE Tick
  BY <1>5 DEF WaitInv, Tick
<1>6. CASE SntpAnswers
  <2>1. clock' \in ADJUSTED .. CLOCK_MAX
    BY <1>6 DEF WaitInv, SntpAnswers
  <2>2. clock' \in 0 .. CLOCK_MAX /\ ~(clock' < ADJUSTED)
    BY <2>1
  <2>3. UNCHANGED <<handler, start, blocked>>
    BY <1>6 DEF SntpAnswers
  <2> QED
    BY <2>2, <2>3 DEF WaitInv
<1> QED
  BY <1>1, <1>2, <1>3, <1>4, <1>5, <1>6 DEF HandlerStep

-----------------------------------------------------------------------------
(* The program.                                                            *)

(* A device that has just started.                                         *)
LEMMA InitInv == Init => IInv
BY DEF Init, DigestInit, StationInit, IInv, FileInv, DigestType, BootInv, CheckInv,
       CheckIsExact, WaitInv, EventInv

(* A restart brings the device back to where it started, but for the clock. *)
LEMMA RestartStep ==
  ASSUME IInv, Restart
  PROVE  IInv'
BY DEF Restart, IInv, FileInv, DigestType, BootInv, CheckInv, CheckIsExact, WaitInv, EventInv

(* No step of the program, the threads or the world breaks the invariant.  *)
LEMMA NextInv ==
  ASSUME IInv, [Next]_vars
  PROVE  IInv'
<1> USE DEF IInv
<1>1. CASE PrepareDigest
  <2>1. UNCHANGED stationVars
    BY <1>1 DEF PrepareDigest
  <2> QED
    BY <1>1, <2>1, PrepareStep DEF WaitInv, EventInv, stationVars
<1>2. CASE StartServer \/ StartIRServer
  <2>1. UNCHANGED stationVars
    BY <1>2 DEF StartServer, StartIRServer
  <2> QED
    BY <1>2, <2>1, BootStep DEF WaitInv, EventInv, stationVars
<1>3. CASE Connect
  BY <1>3, BootStep, WaitStep, EventStep DEF Connect
<1>4. CASE Check
  <2>1. FileInv'
    BY <1>4, BeginStep, SeekStep, ReadEntryStep, ReadEndStep DEF Check, CheckStep
  <2>2. UNCHANGED stationVars
    BY <1>4 DEF Check
  <2> QED
    BY <2>1, <2>2 DEF WaitInv, EventInv, stationVars
<1>5. CASE Restart
  BY <1>5, RestartStep
<1>6. CASE \/ Station(GotIp) \/ Station(Disconnected) \/ Station(HandlerStep)
           \/ Station(Tick) \/ Station(SntpAnswers)
  BY <1>6, FileStable, WaitStep, EventStep DEF Station
<1>7. CASE UNCHANGED vars
  <2>1. UNCHANGED <<digestVars, booted, listening>> /\ UNCHANGED stationVars
    BY <1>7 DEF vars
  <2> QED
    BY <2>1, FileStable DEF WaitInv, EventInv, stationVars
<1> QED
  BY <1>1, <1>2, <1>3, <1>4, <1>5, <1>6, <1>7 DEF Next, AppMain

(* The inductive invariant holds in every state of the program.            *)
THEOREM Invariance == Spec => []IInv
<1> QED
  BY InitInv, NextInv, PTL DEF Spec

(* No check ever begins before the digest is ready.                        *)
THEOREM DigestIsReady == Spec => []DigestReady
<1>1. IInv => DigestReady
  BY DEF IInv, FileInv, BootInv, DigestReady
<1> QED
  BY <1>1, Invariance, PTL

(* A check is exact unless the other server read in between.               *)
THEOREM ChecksAreExact == Spec => []CheckIsExact
<1>1. IInv => CheckIsExact
  BY DEF IInv, FileInv
<1> QED
  BY <1>1, Invariance, PTL

(* The thread of the events is held up no longer than the time-out says.   *)
THEOREM EventsAreHeldBriefly == Spec => []EventsHeldBriefly
<1>1. IInv => EventsHeldBriefly
  BY DEF IInv, WaitInv, EventsHeldBriefly
<1> QED
  BY <1>1, Invariance, PTL

(* No more than two events wait, and a lost link is the last of them.      *)
THEOREM EventsAreInOrder == Spec => []EventsInOrder
<1>1. ASSUME EventInv PROVE EventsInOrder
  <2>1. CASE events = <<>>
    BY <1>1, <2>1, ShortQueues DEF EventInv, EventsInOrder
  <2>2. CASE events = <<"gotIp">>
    BY <1>1, <2>2, EventQueues DEF EventInv, EventsInOrder
  <2>3. CASE events = <<"disconnected">>
    BY <2>3, EventQueues DEF EventsInOrder
  <2>4. CASE events = <<"gotIp", "disconnected">>
    BY <2>4, EventQueues DEF EventsInOrder
  <2> QED
    BY <1>1, <2>1, <2>2, <2>3, <2>4 DEF EventInv
<1>2. IInv => EventsInOrder
  BY <1>1 DEF IInv
<1> QED
  BY <1>2, Invariance, PTL
=============================================================================
