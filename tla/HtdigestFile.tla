---------------------------- MODULE HtdigestFile ----------------------------
(***************************************************************************)
(* The digest file (main/htdigestfs.c): one entry, one descriptor and one  *)
(* FILE on it, which the threads of the two HTTP servers check requests    *)
(* against without a lock (main/webserver.cpp, authenticate, and           *)
(* main/mywebserver.cpp, downloadHandler).                                 *)
(***************************************************************************)
EXTENDS Integers

CONSTANTS Threads,  \* the threads of the HTTP servers
          Domain,   \* Domain[t]: the domain thread t checks for
          Entry,    \* what main registers: user, domain, secret
          Requests, \* what clients may authorize with: user, domain, secret
          LENGTH,   \* the length of the entry in bytes
          Nobody    \* no entry, and no request

ASSUME DigestAssumption ==
  /\ LENGTH \in Nat \ {0}
  /\ Nobody \notin Requests /\ Nobody # Entry

VARIABLES
  digestData, \* the entry registered, or Nobody
  fd,         \* fdcontexts[0]: isOpened and pos
  fp,         \* represent_fp is there, and whether it has met the end
  check,      \* the step of each thread's check: "idle", "seek" or "read"
  request,    \* the request it checks
  answer,     \* what it answered last: "none", "accepted" or "refused"
  crossed     \* history: another read the file between its seek and read

digestVars == <<digestData, fd, fp, check, request, answer, crossed>>

DigestInit ==
  /\ digestData = Nobody
  /\ fd = [isOpened |-> FALSE, pos |-> 0]
  /\ fp = [open |-> FALSE, eof |-> FALSE]
  /\ check = [t \in Threads |-> "idle"]
  /\ request = [t \in Threads |-> Nobody]
  /\ answer = [t \in Threads |-> "none"]
  /\ crossed = [t \in Threads |-> FALSE]

checkVars == <<check, request, answer, crossed>>

-----------------------------------------------------------------------------
(* What main calls.                                                        *)

(* fs_open: the one descriptor is given once, EMFILE from then on.         *)
FsOpen == fd' = IF fd.isOpened THEN fd ELSE [isOpened |-> TRUE, pos |-> 0]

(* htdigestfs_init: fopen reaches fs_open.                                 *)
HtdigestfsInit ==
  /\ FsOpen
  /\ fp' = [open |-> ~fd.isOpened, eof |-> FALSE]
  /\ UNCHANGED <<digestData, checkVars>>

(* htdigestfs_register; an entry there was is freed.                       *)
HtdigestfsRegister ==
  /\ digestData' = Entry
  /\ UNCHANGED <<fd, fp, checkVars>>

-----------------------------------------------------------------------------
(* A check.  stdio locks the FILE for one call, not for two.               *)

(* A request with an Authorization header arrives at thread t.             *)
CheckBegin(t, r) ==
  /\ check[t] = "idle"
  /\ check' = [check EXCEPT ![t] = "seek"]
  /\ request' = [request EXCEPT ![t] = r]
  /\ answer' = [answer EXCEPT ![t] = "none"]
  /\ crossed' = [crossed EXCEPT ![t] = FALSE]
  /\ UNCHANGED <<digestData, fd, fp>>

(* digestData.length                                                       *)
Length == IF digestData = Nobody THEN 0 ELSE LENGTH

WrongNone_FsLseek(offset) == fd.pos

(* fs_lseek from the start: an offset that is out of the file is refused.  *)
FsLseek(offset) == IF fd.isOpened /\ offset \in 0 .. Length THEN offset ELSE fd.pos

(* fseek(fp, 0, SEEK_SET), which forgets an end that was met.              *)
Fseek(t) ==
  /\ check[t] = "seek"
  /\ fd' = [fd EXCEPT !.pos = FsLseek(0)]
  /\ fp' = [fp EXCEPT !.eof = FALSE]
  /\ check' = [check EXCEPT ![t] = "read"]
  /\ UNCHANGED <<digestData, request, answer, crossed>>

(* What fs_read still has: 0 at the end, and -1 (EBADF) when not open.     *)
FsRead == IF ~fd.isOpened THEN -1 ELSE IF fd.pos >= Length THEN 0 ELSE Length - fd.pos

(* fgets, whose buffer is longer than the entry, reads until fs_read       *)
(* returns 0.                                                              *)
Fgets == IF fp.open /\ ~fp.eof /\ FsRead > 0 THEN "line" ELSE "end"

(* mg_http_check_digest_auth: the line of this user and domain decides,    *)
(* accepting a response that was made with what the entry holds.           *)
Decides(t) == request[t].user = digestData.user /\ Domain[t] = digestData.domain
Matches(t) == Decides(t) /\ request[t] = digestData

Answers(t, a) ==
  /\ check' = [check EXCEPT ![t] = "idle"]
  /\ answer' = [answer EXCEPT ![t] = a]

(* The others that are about to read find the file at its end.             *)
ReadEntry(t) ==
  /\ check[t] = "read" /\ Fgets = "line"
  /\ fd' = [fd EXCEPT !.pos = LENGTH]
  /\ fp' = [fp EXCEPT !.eof = TRUE]
  /\ IF Decides(t)
     THEN Answers(t, IF Matches(t) THEN "accepted" ELSE "refused")
     ELSE UNCHANGED <<check, answer>>
  /\ crossed' = [u \in Threads |-> crossed[u] \/ (u # t /\ check[u] = "read")]
  /\ UNCHANGED <<digestData, request>>

ReadEnd(t) ==
  /\ check[t] = "read" /\ Fgets = "end"
  /\ Answers(t, "refused")
  /\ UNCHANGED <<digestData, fd, fp, request, crossed>>

CheckStep(t) == Fseek(t) \/ ReadEntry(t) \/ ReadEnd(t)
=============================================================================
