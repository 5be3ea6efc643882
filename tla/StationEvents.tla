---------------------------- MODULE StationEvents ----------------------------
(***************************************************************************)
(* The WiFi station, the thread of the system's events that calls          *)
(* MyWiFiEventHandler (main/main.cpp), and the clock as main/Time.cpp sets *)
(* it.  staGotIp waits for SNTP within that thread, so the events of the   *)
(* station queue up behind it.  Times are scaled down.                     *)
(***************************************************************************)
EXTENDS Integers, SequencesExt

CONSTANTS ADJUSTED, \* 30 * 365 * 24 * 60: a clock below this is not set
          INTERVAL, \* 24 * 60: adjust again after this
          TIMEOUT,  \* 10: what staGotIp waits for
          CLOCK_MAX \* bound of the clock

ASSUME TimeAssumption ==
  /\ {ADJUSTED, INTERVAL, TIMEOUT, CLOCK_MAX} \subseteq Nat
  /\ 0 < ADJUSTED /\ ADJUSTED < CLOCK_MAX

VARIABLES
  link,     \* the driver: "off", "connecting", "up" or "down"
  events,   \* of the station, not yet handled
  handler,  \* "idle", or staGotIp: "check" the clock, or "delay" a second
  start,    \* of waitForFinishAdjustment
  clock, lastAdjustTime,
  sntp,     \* the SNTP client is running
  synced,   \* history: SNTP has answered since the start
  blocked   \* history: the seconds staGotIp has been waiting

stationVars == <<link, events, handler, start, clock, lastAdjustTime, sntp, synced, blocked>>
timeVars    == <<start, clock, lastAdjustTime, sntp, synced, blocked>>

StationInit ==
  /\ link = "off" /\ events = <<>>
  /\ handler = "idle" /\ start = 0
  /\ clock = 0 /\ lastAdjustTime = 0
  /\ sntp = FALSE /\ synced = FALSE /\ blocked = 0

-----------------------------------------------------------------------------
(* The driver, which posts an event whenever the link changes.             *)

(* connectAP, by main.                                                     *)
ConnectAP ==
  /\ link = "off"
  /\ link' = "connecting"
  /\ UNCHANGED <<events, handler, timeVars>>

GotIp ==
  /\ link = "connecting"
  /\ link' = "up" /\ events' = Append(events, "gotIp")
  /\ UNCHANGED <<handler, timeVars>>

(* An attempt that fails, or a link that is lost.                          *)
Disconnected ==
  /\ link \in {"connecting", "up"}
  /\ link' = "down" /\ events' = Append(events, "disconnected")
  /\ UNCHANGED <<handler, timeVars>>

-----------------------------------------------------------------------------
(* Time.                                                                   *)

WrongSet_ShouldAdjust == clock < ADJUSTED

ShouldAdjust == clock < ADJUSTED \/ clock - lastAdjustTime > INTERVAL

(* startSNTP notes the clock before SNTP has set it.                       *)
StartSNTP == sntp' = TRUE /\ lastAdjustTime' = clock

WrongLate_TimedOut == clock - start > CLOCK_MAX

TimedOut == clock - start > TIMEOUT

-----------------------------------------------------------------------------
(* The thread of the events: one handler at a time.                        *)

Handles(event) == handler = "idle" /\ events # <<>> /\ Head(events) = event

WrongConnect_StaGotIp ==
  /\ Handles("gotIp")
  /\ events' = Tail(events)
  /\ link' = IF link = "down" THEN "connecting" ELSE link
  /\ IF ShouldAdjust
     THEN StartSNTP /\ start' = clock /\ handler' = "check"
     ELSE UNCHANGED <<handler, start, sntp, lastAdjustTime>>
  /\ UNCHANGED <<clock, synced, blocked>>

StaGotIp ==
  /\ Handles("gotIp")
  /\ events' = Tail(events)
  /\ IF ShouldAdjust
     THEN StartSNTP /\ start' = clock /\ handler' = "check"
     ELSE UNCHANGED <<handler, start, sntp, lastAdjustTime>>
  /\ UNCHANGED <<link, clock, synced, blocked>>

(* The loop of waitForFinishAdjustment ends, with the clock set or without.*)
WaitEnds ==
  /\ handler = "check"
  /\ clock >= ADJUSTED \/ TimedOut
  /\ handler' = "idle" /\ blocked' = 0
  /\ UNCHANGED <<link, events, start, clock, lastAdjustTime, sntp, synced>>

WaitDelays ==
  /\ handler = "check"
  /\ clock < ADJUSTED /\ ~TimedOut
  /\ handler' = "delay"
  /\ UNCHANGED <<link, events, timeVars>>

WrongUnset_StaDisconnected ==
  /\ Handles("disconnected")
  /\ events' = Tail(events)
  /\ link' = IF ShouldAdjust /\ link = "down" THEN "connecting" ELSE link
  /\ UNCHANGED <<handler, timeVars>>

(* esp_wifi_connect                                                        *)
StaDisconnected ==
  /\ Handles("disconnected")
  /\ events' = Tail(events)
  /\ link' = IF link = "down" THEN "connecting" ELSE link
  /\ UNCHANGED <<handler, timeVars>>

HandlerStep == StaGotIp \/ WaitEnds \/ WaitDelays \/ StaDisconnected

-----------------------------------------------------------------------------
(* The clock.                                                              *)

(* A second passes; the thread of the events is not late for it.           *)
Tick ==
  /\ handler # "check"
  /\ clock < CLOCK_MAX \/ handler = "delay"
  /\ clock' = IF clock < CLOCK_MAX THEN clock + 1 ELSE clock
  /\ handler' = IF handler = "delay" THEN "check" ELSE handler
  /\ blocked' = IF handler = "delay" THEN blocked + 1 ELSE 0
  /\ UNCHANGED <<link, events, start, lastAdjustTime, sntp, synced>>

(* SNTP answers: the clock, which may have run on for long without ever    *)
(* being set, jumps to the time it is.                                     *)
SntpAnswers ==
  /\ sntp /\ link = "up" /\ ~synced
  /\ clock' \in (IF clock > ADJUSTED THEN clock ELSE ADJUSTED) .. CLOCK_MAX
  /\ synced' = TRUE
  /\ UNCHANGED <<link, events, handler, start, lastAdjustTime, sntp, blocked>>
=============================================================================
