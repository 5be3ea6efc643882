-------------------------- MODULE FirmwareDownload --------------------------
(***************************************************************************)
(* Firmware updates: downloadHandler and DLContext of main/mywebserver.cpp *)
(* on the one thread of mongoose's event loop, OTAimp of main/ota.cpp, and *)
(* the restart of main/reboot.cpp.  The body of an upload is BODY units,   *)
(* its signature first; they arrive in fragments of any length.            *)
(***************************************************************************)
EXTENDS Naturals, FiniteSets, SequencesExt

CONSTANTS Conns,    \* the connections
          SIGLEN,   \* OTA_SIGNATURE_LENGTH
          IMAGELEN, \* units of a firmware image
          REQUESTS, \* bound: requests of a connection
          PARTS     \* bound: parts of a request

ASSUME DownloadAssumption ==
  /\ SIGLEN \in Nat \ {0} /\ IMAGELEN \in Nat \ {0}
  /\ REQUESTS \in Nat /\ PARTS \in Nat

BODY == SIGLEN + IMAGELEN

VARIABLES
  con,       \* each connection: its request and its upload, see Fresh
  handles,   \* esp_ota handles begun and not ended, by their connection
  flash,     \* the units in the update partition, <<>> where erased
  boot,      \* the partition to boot: "running" or "update"
  finished,  \* whom "firmware updating finished" was told since the start
  reboot     \* a RebootTask waits

vars == <<con, handles, flash, boot, finished, reboot>>

(* requests: how many there were.  http, parts, taken: how far mongoose    *)
(* has parsed this one ("begun" while it has no part, "body" behind one),  *)
(* its parts and the units of this part.  kind: what became of it when it  *)
(* began.  ctx: user_data is NULL, or a DLContext whose ota failed to      *)
(* start, is open or has ended; it outlives its request.  signature (up to *)
(* siglen) and digest: what OTAimp has put there.  signedWell: the         *)
(* signature sent is that of the image sent.  replies: the texts sent on   *)
(* this request; closing: MG_F_SEND_AND_CLOSE.  alone (history): no other  *)
(* upload has been open since this one was begun.                          *)
Fresh ==
  [requests |-> 0, http |-> "idle", parts |-> 0, taken |-> 0, kind |-> "none",
   ctx |-> "none", signature |-> <<>>, digest |-> <<>>, signedWell |-> FALSE,
   replies |-> <<>>, closing |-> FALSE, alone |-> TRUE]

Erased == [i \in 1 .. IMAGELEN |-> <<>>]

(* The image an upload by c carries, as the update partition should hold.  *)
Image(c) == [i \in 1 .. IMAGELEN |-> <<c, SIGLEN + i>>]

Init ==
  /\ con = [c \in Conns |-> Fresh]
  /\ handles = {} /\ flash = Erased
  /\ boot = "running" /\ finished = {} /\ reboot = FALSE

-----------------------------------------------------------------------------
(* OTAimp.                                                                 *)

WrongFirst_Offset(c, fragment) ==
  IF con[c].signature # <<>> THEN 0
  ELSE IF SIGLEN > Len(fragment) THEN Len(fragment) ELSE SIGLEN

(* addDataFlagment: the leading units that are missing in signature ...    *)
Offset(c, fragment) ==
  IF SIGLEN - Len(con[c].signature) > Len(fragment) THEN Len(fragment)
  ELSE SIGLEN - Len(con[c].signature)

ToSignature(c, fragment) ==
  con[c].signature \o SubSeq(fragment, 1, Offset(c, fragment))

(* ... and the rest, which is hashed ...                                   *)
ToDigest(c, fragment) ==
  con[c].digest \o SubSeq(fragment, Offset(c, fragment) + 1, Len(fragment))

(* ... and written, behind what the handle has written before.             *)
Written(c, stream) ==
  [i \in 1 .. IMAGELEN |->
     IF i \in Len(con[c].digest) + 1 .. Len(stream) THEN <<c, stream[i]>>
     ELSE flash[i]]

WrongShort_Verifies(c) == Len(con[c].signature) = SIGLEN /\ con[c].signedWell

(* end: the signature is whole and is one of what was hashed.              *)
Verifies(c) ==
  /\ Len(con[c].signature) = SIGLEN
  /\ con[c].signedWell
  /\ con[c].signature \o con[c].digest = [i \in 1 .. BODY |-> i]

(* end calls esp_ota_end first, whatever becomes of the rest; endOTA       *)
(* deletes the OTAimp, and DLContext::end forgets it.                      *)
EndOTA(c)  == handles' = handles \ {c}
Deleted(c) == [con[c] EXCEPT !.ctx = "ended", !.signature = <<>>,
                             !.digest = <<>>, !.signedWell = FALSE, !.alone = TRUE]

-----------------------------------------------------------------------------
(* What the handlers of requests have in common.                           *)

(* A request may follow another one until the connection is closed.        *)
MayAsk(c) == con[c].http \in {"idle", "end"} /\ con[c].requests < REQUESTS

(* A request of this kind: a multipart one is begun, another is read.      *)
Asked(c, kind, http) ==
  [con[c] EXCEPT !.requests = @ + 1, !.http = http, !.kind = kind, !.replies = <<>>]

PartOver(r)    == [r EXCEPT !.http = "body", !.taken = 0]
RequestOver(r) == [r EXCEPT !.http = "end", !.parts = 0, !.closing = TRUE]

Told(r, text) == [r EXCEPT !.replies = Append(@, text), !.closing = TRUE]

(* mongoose ends each part after its last unit, or before when the peer is *)
(* lost, and also the part there never was of a request without parts.     *)
PartEnds(c) == con[c].http \in {"begun", "part"}

-----------------------------------------------------------------------------
(* defHandler, for every uri but /download: a request is greeted, and the  *)
(* parts of a multipart one are taken for nothing before it is answered.   *)

OtherRequest(c) ==
  /\ MayAsk(c)
  /\ con' = [con EXCEPT ![c] = Told(Asked(c, "other", "end"), "hello")]
  /\ UNCHANGED <<handles, flash, boot, finished, reboot>>

OtherMultipart(c) ==
  /\ MayAsk(c)
  /\ con' = [con EXCEPT ![c] = Asked(c, "other", "begun")]
  /\ UNCHANGED <<handles, flash, boot, finished, reboot>>

OtherMultipartEnd(c) ==
  /\ con[c].http = "body" /\ con[c].kind = "other"
  /\ con' = [con EXCEPT ![c] = RequestOver(Told(con[c], "hello"))]
  /\ UNCHANGED <<handles, flash, boot, finished, reboot>>

-----------------------------------------------------------------------------
(* downloadHandler, event by event; of the parts also what defHandler does *)
(* with them, which is nothing.                                            *)

(* A request that is no multipart one; it has no parts.                    *)
InvalidRequest(c) ==
  /\ MayAsk(c)
  /\ con' = [con EXCEPT ![c] = Told(Asked(c, "refused", "end"), "rejected")]
  /\ UNCHANGED <<handles, flash, boot, finished, reboot>>

(* No POST, or not authorized: neither makes a DLContext, but the parts of *)
(* the request still arrive.                                               *)
Reject(c) ==
  /\ MayAsk(c)
  /\ con' = [con EXCEPT ![c] = Told(Asked(c, "refused", "begun"), "rejected")]
  /\ UNCHANGED <<handles, flash, boot, finished, reboot>>

(* startOTA succeeds: esp_ota_begin erases the update partition.  The new  *)
(* DLContext replaces that of an upload before, which is never deleted.    *)
StartOTA(c) ==
  /\ MayAsk(c)
  /\ \E well \in BOOLEAN :
       con' = [d \in Conns |->
                 IF d # c THEN [con[d] EXCEPT !.alone = (con[d].ctx # "open")]
                 ELSE [Asked(c, "upload", "begun") EXCEPT !.ctx = "open",
                         !.signedWell = well, !.alone = (handles = {})]]
  /\ handles' = handles \cup {c}
  /\ flash' = Erased
  /\ UNCHANGED <<boot, finished, reboot>>

(* startOTA fails: no update partition, or esp_ota_begin refuses.          *)
StartFails(c) ==
  /\ MayAsk(c)
  /\ con' = [con EXCEPT ![c] =
               [Told(Asked(c, "failed", "begun"), "in parallel")
                  EXCEPT !.ctx = "failed"]]
  /\ UNCHANGED <<handles, flash, boot, finished, reboot>>

(* The name of the part is compared for the log only.                      *)
PartBegin(c) ==
  /\ con[c].http = "begun" \/ (con[c].http = "body" /\ con[c].parts > 0)
  /\ con[c].parts < PARTS
  /\ con' = [con EXCEPT ![c].http = "part", ![c].parts = @ + 1]
  /\ UNCHANGED <<handles, flash, boot, finished, reboot>>

(* A fragment: the next n units of the part.                               *)
Fragment(c, n) == [i \in 1 .. n |-> con[c].taken + i]
Arrives(c, n)  == con[c].http = "part" /\ n \in 1 .. BODY - con[c].taken

(* Data nobody looks at; it makes no difference how it is cut.             *)
IgnoreData(c) ==
  /\ con[c].http = "part" /\ con[c].taken < BODY /\ con[c].ctx # "open"
  /\ con' = [con EXCEPT ![c].taken = BODY]
  /\ UNCHANGED <<handles, flash, boot, finished, reboot>>

AddDataFlagment(c, n) ==
  /\ Arrives(c, n) /\ con[c].ctx = "open"
  /\ con' = [con EXCEPT ![c].taken = @ + n,
                        ![c].signature = ToSignature(c, Fragment(c, n)),
                        ![c].digest = ToDigest(c, Fragment(c, n))]
  /\ flash' = Written(c, con'[c].digest)
  /\ UNCHANGED <<handles, boot, finished, reboot>>

WrongOpen_WriteFails(c, n) ==
  /\ Arrives(c, n) /\ con[c].ctx = "open"
  /\ Offset(c, Fragment(c, n)) < n
  /\ con' = [con EXCEPT ![c].taken = @ + n, ![c].replies = Append(@, "failed")]
  /\ UNCHANGED <<handles, flash, boot, finished, reboot>>

(* esp_ota_write fails: that is told and the update is over, while the     *)
(* rest of the request is still read.                                      *)
WriteFails(c, n) ==
  /\ Arrives(c, n) /\ con[c].ctx = "open"
  /\ Offset(c, Fragment(c, n)) < n
  /\ con' = [con EXCEPT ![c] = [Deleted(c) EXCEPT !.taken = @ + n,
                                      !.replies = Append(@, "failed")]]
  /\ EndOTA(c)
  /\ UNCHANGED <<flash, boot, finished, reboot>>

PartEndIgnored(c) ==
  /\ PartEnds(c) /\ con[c].ctx # "open"
  /\ con' = [con EXCEPT ![c] = PartOver(con[c])]
  /\ UNCHANGED <<handles, flash, boot, finished, reboot>>

WrongNoReboot_Commit(c) ==
  /\ PartEnds(c) /\ con[c].ctx = "open"
  /\ Verifies(c)
  /\ con' = [con EXCEPT ![c] = PartOver(Told(Deleted(c), "finished"))]
  /\ EndOTA(c)
  /\ boot' = "update" /\ finished' = finished \cup {c}
  /\ UNCHANGED <<flash, reboot>>

Commit(c) ==
  /\ PartEnds(c) /\ con[c].ctx = "open"
  /\ Verifies(c)
  /\ con' = [con EXCEPT ![c] = PartOver(Told(Deleted(c), "finished"))]
  /\ EndOTA(c)
  /\ boot' = "update" /\ finished' = finished \cup {c} /\ reboot' = TRUE
  /\ UNCHANGED flash

(* The verification fails, as it does without a part, or one of the calls  *)
(* of esp_ota.                                                             *)
CommitFails(c) ==
  /\ PartEnds(c) /\ con[c].ctx = "open"
  /\ con' = [con EXCEPT ![c] = PartOver(Told(Deleted(c), "failed"))]
  /\ EndOTA(c)
  /\ UNCHANGED <<flash, boot, finished, reboot>>

(* The end of the request is "no image part" when the last ota of the      *)
(* connection did not start, also for a request rejected since.            *)
NoImagePart(c) ==
  /\ con[c].http = "body" /\ con[c].kind # "other" /\ con[c].ctx = "failed"
  /\ con' = [con EXCEPT ![c] = RequestOver(Told(con[c], "rejected"))]
  /\ UNCHANGED <<handles, flash, boot, finished, reboot>>

RequestEnd(c) ==
  /\ con[c].http = "body" /\ con[c].kind # "other" /\ con[c].ctx # "failed"
  /\ con' = [con EXCEPT ![c] = RequestOver(con[c])]
  /\ UNCHANGED <<handles, flash, boot, finished, reboot>>

WrongLeak_CloseEvent(c) ==
  /\ con[c].http # "idle"
  /\ con' = [con EXCEPT ![c] = Fresh]
  /\ UNCHANGED <<handles, flash, boot, finished, reboot>>

(* MG_EV_CLOSE, when the replies are out or the peer is gone: deleting the *)
(* DLContext ends an open ota without a commit.                            *)
CloseEvent(c) ==
  /\ con[c].http # "idle"
  /\ con' = [con EXCEPT ![c] = Fresh]
  /\ IF con[c].ctx = "open" THEN EndOTA(c) ELSE UNCHANGED handles
  /\ UNCHANGED <<flash, boot, finished, reboot>>

-----------------------------------------------------------------------------
(* The device starts from the partition to boot; what was in memory is     *)
(* lost, and the other partition is the update partition from then on.     *)
Start ==
  /\ con' = [c \in Conns |-> Fresh]
  /\ handles' = {} /\ finished' = {} /\ reboot' = FALSE
  /\ boot' = "running"
  /\ flash' = IF boot = "update" THEN Erased ELSE flash

(* RebootTask::run, two seconds after rebootIn.                            *)
Restart == reboot /\ Start

PowerLoss == Start

Handle(c) ==
  \/ OtherRequest(c) \/ OtherMultipart(c) \/ OtherMultipartEnd(c)
  \/ InvalidRequest(c) \/ Reject(c) \/ StartOTA(c) \/ StartFails(c) \/ PartBegin(c)
  \/ \E n \in 1 .. BODY : AddDataFlagment(c, n) \/ WriteFails(c, n)
  \/ IgnoreData(c) \/ PartEndIgnored(c) \/ Commit(c) \/ CommitFails(c)
  \/ NoImagePart(c) \/ RequestEnd(c) \/ CloseEvent(c)

Next == (\E c \in Conns : Handle(c)) \/ Restart \/ PowerLoss

(* The scheduler runs the RebootTask.  Nothing makes a client go on.       *)
Fairness == WF_vars(Restart)

Spec == Init /\ [][Next]_vars /\ Fairness

-----------------------------------------------------------------------------
(* Properties.                                                             *)

(* However the body was cut into fragments, signature and digest are the   *)
(* units received so far, the signature being the first SIGLEN of them.    *)
SplitExact ==
  \A c \in Conns : con[c].ctx = "open" =>
    /\ con[c].signature \o con[c].digest = [i \in 1 .. con[c].taken |-> i]
    /\ con[c].digest # <<>> => Len(con[c].signature) = SIGLEN

(* A handle begun is ended when its upload is over and not before: the     *)
(* image committed, a write failed, or the peer lost in the middle.  It is *)
(* when the request ends, or the next one would lose it with its DLContext. *)
HandlesAreOwned ==
  /\ handles = {c \in Conns : con[c].ctx = "open"}
  /\ \A c \in handles : con[c].http \in {"begun", "part"}

(* A request that starts an upload is told the outcome once: before it     *)
(* ends, whether it has parts or none, and whatever it still holds after   *)
(* the end of the update adds no second answer.  One for another uri is    *)
(* answered once, at its end, and a rejected one at once.  Only behind a   *)
(* start that failed, which is told at once, does the end of the request   *)
(* tell something more.  The connection of an ended request is closing.    *)
OutcomeToldOnce ==
  \A c \in Conns :
    LET told  == Len(con[c].replies)
        ended == con[c].http = "end"
        twice == ended /\ con[c].ctx = "failed"
    IN  /\ con[c].kind = "upload"  => told = (IF con[c].ctx = "open" THEN 0 ELSE 1)
        /\ con[c].kind = "upload" /\ ended => con[c].ctx # "open"
        /\ ended => con[c].closing
        /\ con[c].kind = "other"   => told = (IF ended THEN 1 ELSE 0)
        /\ con[c].kind = "failed"  => told = (IF twice THEN 2 ELSE 1)
        /\ con[c].kind = "refused" => told = 1 \/ (twice /\ told = 2)

(* "firmware updating finished" is told only to an upload received whole   *)
(* with the signature of its image, with the boot partition switched, and, *)
(* when no other one was open meanwhile, that partition holds this image.  *)
FinishedIsVerified ==
  [][\A c \in Conns :
       "finished" \in ToSet(con'[c].replies) /\ con'[c].replies # con[c].replies =>
         /\ con[c].signedWell /\ con[c].taken = BODY
         /\ boot' = "update"
         /\ con[c].alone => flash' = Image(c)]_vars

(* "firmware updating finished" is followed by a restart.                  *)
FinishedRestarts == boot = "update" ~> boot = "running"

(* "firmware updating finished": the image is the one a restart will find, *)
(* at once or when power is lost before.                                   *)
FinishedImageBoots == boot = "update" => \A c \in finished : flash = Image(c)
=============================================================================
