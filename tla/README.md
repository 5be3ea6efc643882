# A verification project for irserver

irserver is an ESP32 firmware that sends infrared remote-control frames on behalf of
TCP clients (`main/irserver.cpp`, `main/irrc.c`, the client side in `hosttool/`), with two
HTTP servers beside it: `main/mywebserver.cpp`, which takes signed firmware updates, and
the newer `main/webserver.cpp`. This directory holds TLA+ models of it, the TLC
configurations that check them, and TLAPS proofs about the core.

## 1. Inventory

| component | state | operations | hard behaviour | what makes it correct | status |
|---|---|---|---|---|---|
| task pool (`irserver.cpp`, `IRServerTask`, `CommunicationTaskList`) | two linked lists of slots, mutex, `sockfd` and `mode` of every slot | `run` (accept loop), `init`, `endCommTask`, `add`, `remove`, `getFirst` | acceptor and slot threads interleave; only the list operations are under the mutex | no slot lost or shared, no socket lost or shared, refusal only when full, the accept loop never blocks on a client | modelled, proved |
| communication task (`irserver.cpp`, `CommunicationTask`) | `ibuf`, `obuf` and their indices, which outlive a connection | `run`, `flashAndRecieveCmd`, `makeResponse`, `cmdTxFormat` | requests arrive in pieces, clients stall, die and vanish at any byte, any call may fail, buffers are reused | a command is dealt with whole and once; its answer is its own; the slot always comes back | modelled, proved |
| client library (`irslib.c`, `irtx.c`) | handle with two buffers | `irsOpen`, `irsInvokeTxFormat`, `irsSendRequest`, `irsClose` | server closes at any time | the answer read is the answer to this request; what was given up on an undisturbed connection was not executed | partly (`irsGetRespons` has no caller) |
| IR transmitter (`irrc.c`) | one static `IRRC`: protocol, item buffer, length; the RMT channel and its carrier | `IRRCInit`, `IRRCChangeProtocol`, `IRRCSend` | called by four threads without a lock; fixed buffer | a command goes out whole, in its format, on its carrier | partly (`IRRCDeinit` has no caller), proved for calls that do not overlap |
| firmware download (`mywebserver.cpp`, `ota.cpp`, `reboot.cpp`) | per connection a `DLContext` and `OTAimp`; update partition, boot partition | the mongoose events of `downloadHandler`, `startOTA`, `addDataFlagment`, `endOTA`, `rebootIn` | fragments cut anywhere, requests without parts, lost peers, failing writes, power loss, two uploads | only a whole verified image is reported and booted; every handle is ended | partly (mongoose, `esp_ota_*`, RSA external), proved |
| web server (`webserver.cpp`) | status of a connection, request, response, handler | `dispatchEvent`, `findHandler`, `setHandler` | multipart events in any order relative to the response | one response per request, by the right handler; handler contexts not used after their end | partly (mongoose external; headers and texts abstracted), proved |
| form handler (`WebserverHandler.cpp`) | `MultipartContext` | `beginMultipart` ... `endMultipart` | parts cut short by an early response | the handler gets the parameters received, none cut by the limit | modelled, proved |
| digest file system (`htdigestfs.c`) | one entry, one descriptor, one `FILE` | `htdigestfs_init`, `htdigestfs_register`, `fs_*`, `htdigestfs_fp` | two server threads seek and read the one `FILE` without a lock | no check before the entry is there; a right authorization is refused only when another thread read in between | modelled, proved |
| session pool (`session.cpp`, `bdlist.h`) | active and free list | `activate`, `expire` | - | - | not modelled: dead code, see section 5 |
| time (`Time.cpp`) | clock, last adjustment | `shouldAdjust`, `startSNTP`, `waitForFinishAdjustment` | a wait inside an event handler; a clock that was never set but looks set | the clock is set by SNTP once there is a link; the handler is held briefly | partly (`setTZ` and `format` are text) |
| main, board (`main.cpp`) | start-up order, WiFi handler | `app_main`, `staGotIp`, `staDisconnected` | start-up order is all that makes the entry exist before a check; events queue behind a handler that waits | no check before its file is ready; a lost link comes back | partly, proved |
| signature, sensor driver, content types, `SmartPtr` | - | mbedtls calls, I2C and formulas, a table | none of control | - | not modelled |

Interaction: `app_main` starts both HTTP servers and `startIRServer`. The acceptor thread of
the pool calls `setSocket` and `start` on a slot; the slot's thread runs `CommunicationTask::run`,
calls the transmitter for each command and comes back through `endCommTask`. `irslib` talks to
it over TCP with the messages of `irserverProtocol.h`. `downloadHandler` is called by mongoose's
event loop, on one thread, and drives `OTAimp`; a finished update starts a `RebootTask`. Both servers
check a request's authorization with the `FILE` of the digest file system. The station's events
come on a thread of their own, which `staGotIp` holds up while it waits for the time.

The hazards, each at its line, with the properties for it, are in `PROJECT.json`.

## 2. Modules

    TaskLists                operators on a list of tasks
      TaskQueue              abstract: two lists that partition the tasks
      IRServerTask           the pool, one action per call             => TaskQueue
      CommunicationTaskList  the pool's lists, one action per pointer assignment => TaskQueue
      TaskLists_proof, IRServerTask_proof, CommunicationTaskList_proof    theorems
    IRSConnection            the wire: messages, TCP in both directions
      CommunicationTask      the server's end    IRSClient    the client's end
      IRSession              both ends composed, with what happens to clients
      IRSession_proof        theorems
    IRFrame                  which items a command becomes
      AtomicTransmitter      abstract: a command goes out in one piece
      IRTransmitter          irrc.c, one action per access to the shared object => AtomicTransmitter
      IRTransmitter_proof    theorems
    FirmwareDownload         uploads, OTAimp, restart
      FirmwareDownload_proof theorems
    HandlerMap               findHandler      FormParameters   setParameters
      WebServerConnection    dispatchEvent and the handlers, composed of both
      WebServerConnection_proof    theorems
    HtdigestFile             the digest file and the checks of both servers
    StationEvents            the station, the thread of its events, the clock
      MainProgram            app_main, restarts, composed of both
      MainProgram_proof      theorems

The `MC` modules give the constants of a run their values.

Names follow the source (`FlashAndRecieveCmd` is split at its select, write and read).
`PROJECT.json` maps every definition to its lines. Operators whose name begins with `Wrong`
are mutations of the definition behind the underscore: no specification uses them; each is a
mistake one could make in the code, which one of the properties then detects.

### IRServerTask
A thread is a program counter (`pc` for the acceptor, `spc[s]` for the thread of slot `s`,
"idle" when there is none). The lists are sequences; each `remove` and `add` is a step, so the
moment between them, inside the mutex, is visible. `setSocket`, `start`, `close` and the reset
of the slot are steps of their own outside the mutex. `ServeEnds` stands for the whole
communication loop, which is `CommunicationTask`. The busy branch drops `newfd` without closing
it: `leaked` counts these descriptors, and once `MAXFD` are in use `accept` fails for ever
(`AcceptFails`). That is why no property says that a client is eventually served.
`AcceptOnNoSocket` is the endless loop after a failed `init`, whose result `startIRServer` ignores.
The thread object ends a little after its slot was put in the free list; that the `Task` class
(not in this repository) can be started again then is assumed.

### CommunicationTaskList
The same pool as its lists see it, one assignment to `first`, `last`, `next` or `prev` at a time.
`Chain` follows the pointers; read forward, they implement `TaskQueue` at every step, since the
assignment that links or unlinks forward is the operation and the others do not show.

### IRSConnection, CommunicationTask, IRSClient, IRSession
A byte is (kind, request, position), so a buffer shows which messages it mixes. One slot serves
one connection after another. `ibuf` and `out` are kept over the hand-over, as in the code.
`read` and `write` transfer any number of bytes. `select` reports what it finds; it times out only
when the client has been quiet (`quiet`: five seconds without a byte, which a client can be only
while it is not waiting for the server, or gone). `memcpy` with overlapping regions in
`makeResponse` is modelled as the move that is meant; it happens only when a second request is
already in `ibuf`, which `irslib` never sends. Connection numbers are reused, but only when no
byte kept by the server carries them.

A header is a header as soon as its IRSID and size pass, whoever sent them. With stale bytes of
one client in front of the bytes of the next this happens at one cut only (`MixedHeader`): the
last byte of the stale header is missing and an `I` is in its place, which makes the size
0x0049 = 73 (`MIXED`). A shorter rest gives a wrong IRSID, or a size made of letters, far above 128;
the command, in bytes before the last, is that of the stale header. That the payload of a request
does not itself begin with an IRSID is assumed. Sizes below `sizeof(IRSHeader)`, which the code would
accept, are sent by no client library and made by no mixing, so `Size` starts at `HDR`. A negative
size is refused: `cmdsize > sizeof(ibuf)` compares unsigned numbers.

`SelectFails`, `WriteFails` and `ReadFails` are the errors of the calls, possible in any round and
on any connection, whether the client is there or not. `ReadEnd` is the orderly close.

`cmdTxFormat` acknowledges whatever it did: an unsupported format is not transmitted, and the refusal
of `IRRCSend` is ignored. `handled` are the requests dealt with, `executed` those of them that were
transmitted; `Sendable` are the requests with a supported format and a length it takes. For bytes
of several messages that look like a request either may happen (`Transmits`), and a request behind a
mixed header has letters for its format, so it is never transmitted. `dataLen` is not compared with
the size of the request: for a whole request of `irslib` they agree, and what is transmitted of
mixed bytes is not followed.

`disturbed` is a history for the properties: the connection took over bytes of an earlier one; or,
within a request, its client has stalled, died or vanished or a call of the server has failed; or it
has sent a command the server does not know. A call that fails between two requests does not count.
`Faults` says which of these a run lets happen ("error" for the calls). The properties for an
undisturbed connection do not hide what failing calls do: when select or write fails with an
acknowledgement in `obuf`, a client that repeats its request repeats what was executed, and no
code here could prevent it. What they say is that nothing less leads there. `AtMostOnce`
and `OwnHeaderOwnBody` are about every connection. The second says that a request with a header of
the present connection is all of one piece; a dead client's header with a later client's bytes behind
it is something else, and the model does deal with such a request. The acknowledgement does not tell
whether there was a transmission (`AnswerIsOwn`).

`ClientSpins` is the read loop of `irsSendRequest` that never ends after the server has closed
(`read` returns 0, which is no error there). An error of the client's own calls on a live connection
ends `irtx`, which is `ClientKilled`.

### IRFrame, AtomicTransmitter, IRTransmitter
Bits are abstracted to their place in the command, so an item says which command, which format
and which bit. `ctx->buff[ctx->usedLen] = ...; ctx->usedLen++` is two steps, so an update of
`usedLen` can be lost between two tasks; a length beyond the buffer is only counted as such
(`LenCap`). `channel` is the semaphore of the RMT driver: `rmt_write_items` waits for it and the
items in the buffer at that moment are what goes out.

### FirmwareDownload
`con[c]` is all that belongs to a connection: mongoose's place in the request, the `DLContext`,
the `OTAimp` in it, the replies. A body is `SIGLEN + IMAGELEN` numbered units that arrive in
fragments of any size; `Offset`, `ToSignature` and `ToDigest` are the arithmetic of
`addDataFlagment`. A part may end early, because mongoose ends the part of a lost peer.
`OtherRequest`, `OtherMultipart` and `OtherMultipartEnd` are `defHandler`, which greets whatever
is for another uri. `esp_ota_begin`, `_write`, `_end` and `_set_boot_partition` may fail at any
call. The update partition is the one not running, whatever the boot partition is. `PowerLoss` may
happen in every state. Field `alone` is a history for the property.

A multipart request without parts gets the end of a part that never began (`PartEnds`), as in
`WebServerConnection`: an open ota ends there and "update data failed" is told, since nothing can
verify. An upload that failed to start is answered twice, by `StartFails`, with the text for a
parallel download whatever the reason, and by `NoImagePart`; `OutcomeToldOnce` states that and that
nothing else is answered twice. A request may follow another one on a connection until it is
closed. `user_data` stays, so a request that is rejected behind a failed start is told "no image part"
at its end too, and a second upload replaces the `DLContext` of the first, which is then never
deleted; no handle is lost with it, because the first upload has ended with its request
(`HandlesAreOwned`). Data that no ota takes is one step, however it is cut. `CloseEvent` may come
at any moment, also where mongoose would end the part and the request first: those events are
actions of their own and may happen before it.

### HandlerMap, FormParameters, WebServerConnection
`con` is a `WebServerConnection` with mongoose's place in the request. Every event of
`dispatchEvent` is an action that ends with `Proceed`, the common end of that function, and
includes what the handler's method does (`BeginMultipart`, `UpdateMultipartData` and so on).
mongoose delivers the events of a multipart request in order, ends each part once, ends a part
that never began when a request has none, and ends the part and the request of a lost peer before
it closes the connection. That, like the result of the digest check and of `mg_url_decode`, is
external. A request may follow another one on a connection until it is closed.

Bytes are numbers. `FindHandler` searches the maps in the order of `WebString::compareTo`.
`SetParameters` keeps the code's arithmetic: `Buffer` is the field's place in `parametersBuf`, with
the bytes after a decoded escape, which nobody has written, chosen from two values (`junk`); one of
them is `=`. `IsPlain` and `ParametersIn` are the reference it is compared with. Four facts
about the code that the model shows and no property denies: a field with an escape gets a value
too long by the terminator and those bytes; a second `=` in a field makes a second parameter; the
part of a lost peer is handed on as if it were whole; and a multipart request without parts sets
the parameter without a name to nothing, over what its query said of it (`Given`). `handler` is not initialised by the
constructor; the first event sets it before it is used, so it starts as `NULL` here.
`main.cpp` registers its digest for another domain than the one it gives this server, so there
every check fails (`HtdigestFile`); this model takes either result. `FormsAreTransparent` compares
`SetParameters` with `ParametersOfParts`, the parameters of the same fields sent as parts.

### HtdigestFile, StationEvents, MainProgram
A check is `Fseek` and then reads, by a thread that checks one request at a time; stdio locks the
`FILE` for one call only, which is what is assumed of it. `fgets`, whose buffer is longer than the
entry, reads all of it in one call. `fs_close` and `fs_write` have no caller, `fs_fstat` only
reports the length. `fs_lseek` tests the offset instead of the new position, but it is only called
to seek from the start. When two threads have both sought, one reads and the other finds the end: it
refuses, whatever was sent (`crossed`). A nonce is not compared with the clock here. With the names
of `main.cpp`, "opiopan" registered and "irserver" asked for by `WebServer`, nobody is ever
authorized for `/manage/`.

`StationEvents` is the link, the queue of events, `MyWiFiEventHandler` and the clock.
`waitForFinishAdjustment` looks at the clock and delays a second, in turn, within the event's
handler. Two facts the model keeps: the threshold `30 * 365 * 24 * 60` is compared with seconds, so
it is about 182 days and a device that runs that long unset takes its clock for set, and
`24 * 60` is 24 minutes; and `lastAdjustTime` notes the clock before SNTP sets it. The WiFi class is
not in this repository: that it posts an event for each change of the link is assumed.

`MainProgram` is the order of `app_main` from the digest file on, as a list of names `Order`, with
the threads running as soon as they are started. `Restart` may come at any moment and keeps the
clock or not (a reset keeps it, a loss of power does not). What the IR server and the handlers do
after they are started is in their own modules.

## 3. Runs

| run | instance | shows |
|---|---|---|
| `pool` | 2 slots, 3 clients, 4 descriptors | slot partition, socket ownership, exclusive set-up, justified refusal, list discipline; the backlog drains and slots return |
| `lists` | 4 tasks, as in the code | no `abort()`, links of both directions agree, refinement of `TaskQueue` |
| `session` | 3 requests: one with a body, one that fills the buffer and that `IRRCSend` refuses, one with an unknown command; clients pause, stall, die and vanish, select, write and read fail | clean hand-over, requests dealt with whole, as sent and at most once, own headers with own bodies, own answers, a request given up was not executed; every request that arrives is answered; every slot comes back. `OwnHeaderOwnBody`, `AtMostOnce` and `ConnectionEnds` are about every connection, the rest about undisturbed ones |
| `stale_input` (violation) | one request a connection, of full size; clients may die at any moment | finding 1 |
| `transmitter` | 1 task; the real sizes: 8 bits, 256 items, commands of 0 to 31 bytes, Sony 12 and 20 bits | buffer bound, carrier agrees with protocol, refinement of `AtomicTransmitter` |
| `transmitter_long` (violation) | as above, 32 bytes | finding 2 |
| `transmitter_race` (violation) | 2 tasks, 1 bit a byte | finding 3 |
| `download` | 2 connections, 2 + 2 units, 2 requests on a connection, 0 to 2 parts | exact split, handles ended, outcome told once, also to requests for another uri, a reported update verified, the restart follows |
| `download_finished` (violation) | 1 connection with 1 request, 1 + 1 units | finding 4 |
| `web` | 2 requests on a connection, 2 parts, values up to 2 bytes, 2 handler maps (that of `main.cpp`, one with nested prefixes) | one answer a request, contexts live as long as their request, right handler, parameters as received, unauthorized requests refused |
| `form` (violation) | as `web`, a form with an escape in it | finding 5 |
| `main` | 2 server threads with the names of `main.cpp`, an authorization that is right and two that are not, one restart | no check before its file is ready, checks exact, the event thread held briefly, the event queue bounded; the link comes back and the clock is set |

Bounds. Two slots are enough for a slot that ends while the acceptor sets another one up, and three
clients with them for a refusal; four descriptors let the pool fill, refuse and run out. Sizes of
messages are scaled so that a request can be cut before, in and after its header and can fill the
buffer exactly. Two tasks are enough for a race on the transmitter. A signature of two units can be
cut in the middle and two image units let a fragment hold the end of the one and the start of the
other; two parts show what follows the end of an update, none the end that mongoose makes up, and a second
request what the first left in `user_data`. `MIXED` lets a mixed header announce less than the buffer
holds and more than the mixed bytes. In `web` a second request shows what the
first one left behind, one query gives a value without a name, two parts can have one name, and a
value can reach its limit and pass it in one fragment or in several. In `main` the thresholds are
scaled: a clock that counts as set from 4, adjusted again after 2, a time-out of 1, a clock to 6, so
that each comparison in `Time.cpp` goes both ways and the clock can pass the threshold without SNTP;
an entry of 2 bytes can be read from its start only. `CLOCK_MAX` and `RESTARTS` bound the run; one
restart is enough to find everything that should have been set again. `PARTS`, `REQUESTS`, `MAXFD`
and the numbers of requests bound otherwise unbounded behaviour, and `LenCap` the item length. The
system never stops, so every run checks deadlock.

Fairness. Threads of the scheduler are weakly fair; taking a FreeRTOS mutex, which wakes its
waiters in turn, is strongly fair, and so is the RMT semaphore. A client is fair only within a
request it has begun; nothing makes it connect, send a first request, or close. In
`FirmwareDownload` only the `RebootTask` is fair. In `MainProgram` the threads run and time passes
(weak fairness of `AppMain`, of the event handler and of `Tick`); an attempt to connect is not
refused for ever, and SNTP is not silent for ever while the link comes up again and again (strong
fairness, of the world outside: without it there is no link to speak of). `WebServerConnection`
has no fairness: its properties are safety properties, and what arrives is up to the peer.

### Findings
1. **A dead client poisons its slot** (`irserver.cpp:127`). `ibufUsed` is reset nowhere. What a
   client sent of a request before it was killed stays in `ibuf`, and the next client's bytes are
   read behind it. In the run one byte is left; the next client's request fills the buffer, what is
   there is not a request ("protocol error"), and nothing is taken out. From then on every
   connection of the slot is dropped at once, for ever: the case the log calls "it may be bug",
   which `InputBufferHasRoom` says never happens, whatever the clients do. A whole request of a clean slot is
   executed at once and leaves nothing, and so does a client that ended orderly (`CleanHandover`,
   run `session`). A rest that does not fill the buffer is completed by the next client's bytes, or
   ends that connection too. A living client gets there as well, with a command the server does not
   know: its bytes are not taken out of `ibuf` either.
2. **A 32 byte command overruns the item buffer** (`irrc.c:180`); `irtx` accepts 32 bytes.
3. **Transmissions of two clients mix** (`irserver.cpp:252`). There is no lock around the shared
   `IRRC`. Beyond the frames, the race can leave the carrier disagreeing with the stored protocol,
   which `IRRCChangeProtocol` then never repairs for commands of that protocol, and lets `usedLen`
   run past the buffer even for short commands.
4. **A finished update can be erased before the restart** (`mywebserver.cpp:301`) by an upload
   begun in the two seconds between.
5. **A form is not the same as its parts** (`webserver.cpp:110`). The value of a url-encoded field
   with an escape keeps the length the field had before decoding, so it ends in a terminator and in
   bytes that were never written; sent as a part the field gives its decoded value alone.
   `WebserverHandler.cpp:20` calls the two transparent.

## 4. Proofs

`IRServerTask_proof` proves, for every `MULTIPLICITY`, `MAXFD` and set of clients
(`PoolAssumption`), the safety properties of the run `pool`: `TypeCorrect`, `SlotsArePartitioned`,
`SocketsAreOwned`, `SetUpIsExclusive`, `RefusalIsJustified` and `PoolImplementsTaskQueue`.

None of the properties is inductive. The invariant `IInv` adds where everything is at each program
counter: `MutexInv` (who is inside the critical section), `AcceptorInv` (the acceptor's locals,
and that nobody runs in the slot it took), `ListInv` (the list each slot is in, by the program
counters of its thread and of the acceptor), `SlotInv` (its fields) and `BacklogInv`. `ListInv`
says for each slot exactly when it is linked, so each list operation is shown to be legal where it
is made, which is also what the refinement needs. `SocketOwnership` is inductive only with
`BacklogInv`: a client in the backlog has no open connection. The proof has one step per action,
and under it one per conjunct that the action can disturb. `TaskLists_proof` holds the facts about
lists without duplicates: what appending and removing leave linked.

`CommunicationTaskList_proof` proves all properties of the run `lists` for any number of tasks
(`ListAssumption`): `NeverAbortsAlways`, `WellLinkedAlways` and `ListsAreQueues`. `IInv` is
`ThreadInv`, about threads and the mutex, and that there are two sequences of tasks `q` of which
`ContentInv(q)` holds: the pointers of every list nobody works on are those of its sequence in both
directions, and for the thread inside `add` or `remove` the statement it is at (`Stage`) says which
of the four assignments are still missing (`Appended`, `BackLinked`, `Bypassed`, `Detached`). Each
assignment is one lemma about pointers and sequences alone (`LinkLast` to `ClearPrev`), and its
step another (`Step...`). Three parts are not local: `add` aborts on a list with a first and
no last, so both ends must agree before it; `remove` follows `prev` and `next` of a task in the
middle, so no task may be twice in a list; and the constructor adds the tasks in order. The properties
read a list with the recursive function `Chain`. That `Chain` of a list's first task is its sequence
(`ChainIs`) is an induction over places, done by taking the least place where they differ
(`Least`), since the induction theorems of the library cannot be used here.

`IRSession_proof` (its first part has the facts about buffers) proves the safety properties of the
run `session` for every header length, buffer size, list of request sizes, set of sendable
requests, mixed size and set of faults (`ProtocolAssumption`, `FaultAssumption`):
`OwnHeadersOwnBodies`, `HandoverIsClean`, `FramesAreIntact`, `AnswersAreOwn`, `ExecutedAtMostOnce`,
`RetriesAreSafe`. Two of them concern every client, the others those that were not disturbed, and
the invariant follows that. `EndsInv` and `CommandInv` say what each end has established at its
program counter. `StreamInv` is about any client: the bytes in `ibuf` and under way are all
different, and the first byte of a request dealt with is not among them, so it cannot be dealt with
again. `UnmixedInv` is what `OwnHeadersOwnBodies` needs: behind any byte of the present connection
in `ibuf` or on the wire its request goes on (`RunsOn`), and what is missing at the end is what the
client writes next, so a header of this connection has its own body behind it whatever lies in
front. `UndisturbedInv` is what buffers that are never reset need: either nothing is anywhere
(`AtRest`), or the bytes of the one request in progress lie in order over `ibuf` and the wire
(`Unanswered`), or those of its one answer over `out`, the wire and the client's buffer
(`Answering`), or the answer has been taken. A failing call keeps the invariant (`ErrorStep`):
between two requests there is nothing to lose, and within one the connection becomes disturbed.
That a new connection finds an unused number is a pigeonhole argument (`FreshNumber`), since the
bytes kept are fewer than the numbers.

`FirmwareDownload_proof` proves the safety properties of the run `download` for any number of
connections, requests and parts and any length of signature and image (`DownloadAssumption`):
`BodySplitExactly`, `HandlesOwned`, `ToldOnce` and `FinishedVerified`. `IInv` has `ConInv` for
each connection (how far its request, its upload and its answers agree, and `Split`: what
signature and digest hold of the units taken), `HandlesInv`, and `AloneInv`: while an upload
has been the only one, the update partition holds the units it has hashed. The work is in `Split`
under `addDataFlagment`: the lemmas `JoinedByUnit`, `UnitsGoOn` and `Cut` reduce joined and cut
sequences to the place of each unit. `FinishedVerified` needs besides that only `Commit` tells
success (`OnlyCommitTells`), and that a body `Verifies` accepts was received whole.

`MainProgram_proof` proves, for every set of server threads, entry, requests, thresholds and number
of restarts (`DigestAssumption`, `TimeAssumption`, `MainAssumption`), `DigestIsReady`,
`ChecksAreExact`, `EventsAreHeldBriefly` and `EventsAreInOrder`. `BootInv` ties what is there to the
step `app_main` has reached: a server listens only after the entry is registered. `CheckInv` is
why a check is exact: one about to read that was not crossed finds the file at its start.
`WaitInv` counts the seconds waited against the clock, and `EventInv` lists the queues possible in
each state of the link.

`IRTransmitter_proof` is about any number of tasks, any commands and any buffer
(`TransmitterAssumption`). `TypeCorrect` holds in every interleaving. The rest is false there
(finding 3) and is proved for behaviours in which the calls of the tasks do not overlap
(`[]Serial`), which is what a lock around `IRRCChangeProtocol` and `IRRCSend` would give and what
a single task has, as in the run `transmitter`. `CarrierAgreesSerially` needs only that;
`FitsSerially`, `FaithfulSerially` and `SerialIsAtomic`, the refinement of `AtomicTransmitter`, need
also that the buffer holds the longest frame (`LongestFits`), and finding 2 is what happens
without. So the two findings are the only obstacles: with both conditions the transmitter does what
its callers expect. `IInv` has `ProtocolInv` (at which statement protocol and carrier may disagree),
`MakerInv` and `BufferInv` (the buffer holds the items of the frame of the task's own command up to
`usedLen`, with the item being made), `ChannelInv` (the semaphore), and the properties.

`WebServerConnection_proof` proves the properties of the run `web` for every handler map, set of
handlers and requests, and number of requests, parts and bytes (`WebAssumption`): `AnswersOnce`,
`OwnsContext`, `RefusesUnauthorized`, `DispatchesRight`, `ReceivesParameters` and `TypeCorrect`.
`IInv` is a conjunction over what a connection holds: `ShapeInv`, `AnswerInv` (how many answers
were sent, by the state of the response), `RequestInv` (the handler, and what a refusal leaves),
`ContextInv` and `ParserInv`. Every event ends in `Proceed`, so each action has a lemma that says
what it hands to `Proceed`, and `Proceeds` does the rest. `CountInv` counts contexts.
`GivenInv` is what `ReceivesParameters` needs: while a part arrives, the context is that part as
received, and the parameters are those of the parts before it. It rests on `CollectedAppend`, that
one more part is one more assignment. `DispatchesRight` rests on `FindsLongest`, a lemma
about `findHandler` alone: what sorts between a prefix of a path and the path begins with that prefix
(`Between`), so the greatest path below is the longest prefix unless paths of the map
nest. Three conditions name what is assumed beyond the constants' types: `NullIsNoConnection`, the
null pointer is not a connection; `ParametersAreBytes` and `PlainIsParsed`, what `SetParameters`
gives. The last two are folds over the fields of a source, out of the prover's reach; TLC evaluates
them as assumptions of `MCWebServer`, `PlainIsParsed` also on every source of up to five of the bytes
that matter.

Only model-checked: liveness (`BacklogDrains`, `SlotReturns`, `Answered`, `ConnectionEnds`,
`FinishedRestarts`, `Reconnects`, `TimeIsAdjusted`), which is out of the prover's reach; and what
the folds and recursive functions of `FormParameters` compute (the induction by a least
counterexample that serves for `Chain` does not reach the folds of the library, which take an
operator).

## 5. Not modelled, and what could follow

Not modelled: the session pool (`createSession` and `findSession` return `NULL` and nothing calls
`initSessionPool`, so the program never has a session); signature verification
(calls of mbedtls; `Verifies` is what they decide); the sensor driver and the demonstration tasks
(device I/O, formulas and no state shared with the rest); content types and `SmartPtr`; headers,
texts and what mongoose does between two events; `irsGetRespons` and `IRRCDeinit`, without a
caller; what lies behind an array or buffer that is overrun.

What could follow: the pool, the sessions and the transmitter composed on small constants, with
the lock that `Serial` stands for; `SetParameters` as a recursive function, about which
`PlainIsParsed` could then be proved by least counterexample; and `CheckIsExact` for a digest file
with a lock, where nothing is refused that should not be.
