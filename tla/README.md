# Verification of iso21177-automotive

The repository is an Android (Automotive) proof of concept.  A map screen fetches road signs (DATEX)
from a server over HTTP, HTTPS, or TLS 1.3 with IEEE 1609.2 certificates (RFC 8902, ISO 21177).  The
1609.2 part is an OpenSSL 3.1.1 fork: certificates, signatures and verifications are delegated to a
*security entity* reached over TCP.  A foreground service records the vehicle's positions.

Paths below are relative to `src/iso21177poc/common/src/main/`.

## 1. Inventory

| Component | State it keeps | Operations | Interacts with |
|---|---|---|---|
| Security-entity exchange (`cpp/openssl/ssl/ieee1609dot2.c`, 400-1135) | a socket and a receive buffer per request | connect, send request, read header and payload, parse, disconnect | security entity (TCP); called by the handshake |
| RFC 8902 handshake (`ieee1609dot2.c`, `statem/extensions_ieee1609dot2.c`, hooks in `statem_lib.c`, `statem_clnt.c`, `statem_srvr.c`, `ssl_cert.c`) | per SSL: supported and decided certificate types, own and peer PSID, SSP, hashes | enable, load certificate, four extension handlers, Certificate and CertificateVerify of both sides | peer, security entity |
| Native client (`cpp/rfc8902-client.cpp`) | globals: options, results of the last call | setters, `http_get`, getters | handshake, HTTP server |
| HTTP header collector (`cpp/http-headers.h`) | header lines, current line, complete flag | `add_data`, accessors | native client |
| Map screen and sign fetch (`MapActivity`, `DatexFetchHttp`, `MapHandler`) | static options, static last reply and count, widgets | refresh, reset, close, tap, results | native client, UI thread, background thread |
| Trip route (`TripSummary`, `OsmdroidUtils`) | list of points, drawn overlays | add position, reset, draw | service looper, UI thread |
| Event handler (`EventHandler`) | trip, UI fields, position count | one branch per message | location client, car properties, log |
| Log file (`FileLogger`) | writer, file, sequence number | log, rotate, close | every thread |
| Location service (`GeoFlowService`, `LocationClient`, `InitServiceBroadcastReceiver`) | handler, client, notification, registered callback | receive, create, start command, destroy | system, event handler |
| Start of the service (`MainActivity`; `GeoFlowCarAppService`, `RequestPermissionScreen`) | connection, `mBound`, pending request | life-cycle callbacks, permission answers | system, location service |
| Car properties (`CarPropertyClient`) | static manager, handler, callback | init, VIN and speed callbacks | car, event handler |
| UI fields (`UiFields`, `TollInfoScreen`) | one JSON string in the preferences, in memory and on disk | save, retrieve, show | event handlers, screens |
| Certificate chain report (`SSL_get_1609_cert_chain` in `ieee1609dot2.c`, its caller in `rfc8902-client.cpp`) | the caller's array of entries | recursive query, list | security entity |

What is hard here, and the properties that make each part correct:

* **Byte streams.** The entity's answer and the HTTP reply come in arbitrary pieces and may be cut.
  A caller must see a whole answer or none, inside the buffer.
* **A handshake of two peers and two entities.** Types must agree, nobody may send a certificate it
  does not have, and a connected side must really know its peer.
* **Many exits.** `http_get` has about twenty; each releases sockets and SSL objects by hand and
  leaves results in globals that are read later.
* **Unlocked state between threads.** Options and replies are statics; the route list is shared by
  reference; `closeLogFile` does not take the monitor of `logEvent`.
* **A system that delivers in any order.** Broadcasts, start commands, bindings, permission answers,
  kills and sticky restarts meet a service whose instances overlap: the looper of a destroyed one goes
  on and saves its fields over those of the next.
* **Issuers from outside.** The chain of certificates may have gaps or cycles, and any of its requests
  may fail half way.
* **Things that must end.** No read has a timeout and all fetches share one background thread.

`PROJECT.json` lists these hazards with the line where each bites and the properties aimed at it.

## 2. Modules

| Module | Models | Kind |
|---|---|---|
| `SecEntCall` | what a caller of `sec_ent_process` may rely on | abstract specification |
| `SecEntExchange` | one request to the entity over TCP | refines `SecEntCall` |
| `SecEntExchange_proofs` | - | TLAPS proofs |
| `Rfc8902Handshake`, `MCRfc8902Handshake` | both TLS endpoints | protocol |
| `Rfc8902Handshake_proofs` | - | TLAPS proofs |
| `HttpHeaders` | the header collector as a recursive function over the bytes, and a reference definition | algorithm |
| `Rfc8902Client`, `MCRfc8902Client` | `http_get` and its globals | sequential with failures; uses `HttpHeaders` |
| `Rfc8902Client_proofs` | - | TLAPS proofs (of `HttpHeaders`, too) |
| `DatexFetch`, `MCDatexFetch` | refresh button, AsyncTask, results on the screen | two threads |
| `TripRoute` | trip points, reset, drawing | two kinds of thread |
| `MapScreen_proofs` | - | TLAPS proofs (of `DatexFetch` and `TripRoute`) |
| `FileLogger` | the log file | threads and a monitor |
| `FileLogger_proofs` | - | TLAPS proofs |
| `GeoFlowService` | the service's life cycle and the Android system around it | shared component |
| `MobileStart` | the telephone application on a stack of activities | composes `GeoFlowService` |
| `CarStart` | the car application: service, session, permission screen | composes `GeoFlowService` |
| `GeoFlow_proofs` | - | TLAPS proofs (of `MobileStart` and `CarStart`) |
| `CarPropertyClient` | the car's callbacks over repeated starts | shared component |
| `UiFieldsStore` | event handlers, saved fields, screen | composes `CarPropertyClient` |
| `UiFieldsStore_proofs` | - | TLAPS proofs |
| `CertChain`, `MCCertChain` | the chain query, its dates, the list its caller makes | algorithm against a reference |
| `CertChain_proofs` | - | TLAPS proofs |

The layers rest on each other by their specifications: `Rfc8902Handshake` takes an entity request as
the single step `SecEntCall` allows (an answer or a failure); `Rfc8902Client` takes the handshake as
one step that yields a peer (`psid`, `ssp`) or fails; `DatexFetch` takes a call of the client as one
step that returns a text, returns nothing, aborts the process, or never happens; `CertChain` takes each
request to the entity as an answer or a failure.

Two proof modules extend two models each, which is why the names of `DatexFetch` (`FetchInit`,
`FetchNext`, `FetchSpec`, `fetchVars`) and of `CarStart` (`CarNext`, `CarSpec`, `carVars`) differ from
those of the other modules.  `DatexFetch` and `TripRoute`, the two halves of the map screen, share no
variable; `CarStart` and `MobileStart` share those of `GeoFlowService`.

### SecEntExchange (and SecEntCall)

`pc` is the position in `sec_ent_process`; `got`, `want` and `toWrite` are the byte counts of
`send_recv_server` and `read_N_bytes`.  `Read(k)` and `Write(k)` move any number of bytes at a time.
The announced length is any number; from `SSizeLimit` on it is negative, as on a 32-bit build.
`Parsed` is `SEC_ENT_MSG_new_from_recv_buffer`, `BodyRead` includes the treatment of a `FAILURE`
answer.  The entity is external: it answers with any type and length, in pieces, and may close at any
point.  `SecEntCall` knows only *idle*, *busy*, the entity's answer and the outcome: the whole answer,
a refusal, or NULL.

### Rfc8902Handshake

A record per side: `support` and `decided` types for either certificate, own PSID, the loaded
certificate, the progress `hs`, and what the side learnt (`hash`, `psidOther`, `sspLen`, `sspBytes`).
Messages are variables written once (TLS over TCP delivers in order).  Actions carry the names of the
functions.  The server is one that enabled RFC 8902, one of this code base that did not, or a foreign
stack that answers what it likes.  Every entity request can fail, and the hash taken from an answer
may be garbage because its length is not checked.  Cryptography is ideal: the entity verifies a
signature exactly when it was made for that hash.

### HttpHeaders and Rfc8902Client

`AddByte` is the loop body of `HttpHeaders::add_data`; `Loop` gives its state after each byte, and
`add_data` is the last of them.  `BodyStart` and
`HasBody` are the independent reference: where the first empty line ends.  In `Rfc8902Client` a call
steps through set-up (with the error code and the objects released at each exit, `Setup`, `Frees`),
`SSL_connect`, the PSID and SSP check (`StatusError`, `CommonBit`), the send loop, the header and body
loops on arbitrary pieces of the reply, and the two `SSL_shutdown`s.  A reply is a sequence of byte
classes (text, CR, LF) and a status that parses or not.

The wanted SSP is kept as the code keeps it: an array of `SspBuf` bytes (32) takes a prefix
(`optCertSsp`), the length is stored uncut (`optCertSspLen`), and the check reads that many bytes
(`SspRead`).  What lies behind the array is any byte.  The exit with error 1006 for a bad
`SSL_get_verify_result` is left out: the result is `X509_V_OK` for every peer that passed the 1609.2
checks before it.

### DatexFetch

`main` is the UI thread.  Its refresh handler is one step per write the background thread can see: PSID, SSP array
(published empty, filled later), `optProtocol` (first HTTP, then the selected one), `execute`.  An
option field is the history of its writes; a read without a lock returns any write since the last one
ordered before it by `execute`.  PSID and SSP values are abstracted to the click that wrote them.
`bg.used` remembers the write that each option was read from.  `Fetches` are all fetches not told yet,
and `Ahead` orders them by how far they have come on the way from the executor's queue to the screen.
`looper` is the main queue: an AsyncTask's `finish`, then `MSG_DATEX_OK` or `MSG_DATEX_ERROR` for the
handler of the activity that asked.  The manifest declares the activity `singleInstance` and
`noHistory`, so one instance at a time is on screen; results for an earlier one change the statics but
not the screen.  `isActive` is written and never read and is left out.

A reply may be defective: a null element, a sign without an id, an image that does not decode.
`onDatexOk` replaces the statics first and may throw later, before the old items are removed, between
two signs, or in the details of a sign; `MapHandler` catches that and the screen stays as far as it got.
The same exception on a tap is caught by nobody and ends the process.  `whole` remembers the newest
reply without a null element.

### TripRoute

`addPosition` is one step per use of the field `tripRoute` (`isEmpty`, the list, its size, `get`, `add`,
the test and the `remove` that trim); `drawRoute` one per use of the list.
Objects and lists are numbered, so that the aliasing by `TripSummary.clone` is explicit.
`newEventHandler` is a restarted service: a new summary, and an old looper that may still work.
`ArrayList` is not synchronised.  When two loopers work on one list a change can be lost, `add` can
throw, and a null can stay in the list (`torn`) or be seen while an element is being added
(`MaybeNull`); `get` after the other's `remove` is out of range.  Such a summary is recorded in
`shared`, and the properties of the route except it.  What osmdroid does with a null inside a line is
left out.

### FileLogger

One step per use of `activePrintWriter`, but for the uses that end a rotation (`Rotate`) and a line
(`LineEnd`).  `openLogFile` logs the file name by a nested `logEvent`, which goes through the same
steps; the calls that wait for it are on the thread's `stack`.  When `closeLogFile` takes the writer
away in between, the nested call opens the log again, and the file has two `FULL_FILENAME` lines.
`closeLogFile` is four steps without the monitor.

There are two clocks.  A file is named by the second of the wall clock (`now`), which the user, the
network or the end of summer time may set to any value; it is aged by `System.nanoTime` (`age`), which
only goes on.  `setBack` records that the wall clock fell behind.  One assumption is made: no file gets
older than the limit (four hours in the code) while `openLogFile` is at work on it.

### GeoFlowService, MobileStart and CarStart

All of it runs on the main thread; an action is a whole callback, and what interleaves is the order in
which the system delivers.  `req` is the system's record of the started service (commands that wait,
whether one was completed, the promise of `startForegroundService`), `svc` the instance, `updates` the
instances whose location callback is registered.  `onStartCommand` dereferences the extras of its
intent before its `try`: a command without extras or without intent ends the process.  From API 31 on
the notification's `PendingIntent` throws (no mutability flag) and the catch block leaves the promise
open.  The system (bringing services up and down, sticky restart, kills, broadcasts) and the user's
permission settings are external.  `MobileStart` adds `MainActivity`, which its permission answer
opens again on top of itself; `CarStart` adds the car service, its session and the permission screen,
where every grant binds once more.  On API 34 the car service's `registerReceiver`, which names no
exported flag, throws and the process ends (`onCreateCarThrows`).

### CarPropertyClient and UiFieldsStore

Each instance of the service has an `EventHandler` with its own queue, looper and copy of the fields;
`onDestroy` stops none of them.  After every message the whole copy is saved: in memory at once
(`pref`), on disk later (`flush`); `restart` is a death of the process.  Messages throw where the code
can: the log and the trip route, a VIN without value, a speed that is not a number (Gson refuses it).
The car's events go to the static handler that `CarPropertyClient` last stored; each step of its start
may fail.  The process starts with no saved fields or with those of an earlier one.

### CertChain

The recursion is a walk: `at` is the entry of the innermost call, `info` the array.  Certificates are
kind, issuer, length of the name and validity; all graphs of issuers are initial states.  A duration
counts up to `MaxCnt`, the largest `uint16`.  `ssl_time32_to_time_t` computes the seconds with the
widths of `int` and of `long` on a 32 and a 64 bit ABI, and `Day` the day that is printed; the first day
is that of `start` plus one second, as the code asks for it with a duration of zero microseconds.  Times
after 2038 are not told apart (`Later`), an overflow gives any (`Undefined`).  In a certificate whose
name was cut, and in an AT that has a name, the validity is looked for in the wrong place
(`Misplaced`) and the dates may be missing or anything.

## 3. Runs

| Run | Checks | States |
|---|---|---|
| `secent_exchange` | `NoOverrun`, `WholeAnswer`, refinement `ImplementsCall`, `AnsweredRequestReturns` | 6 400 |
| `handshake` | `NegotiationAgrees`, `CertificateAtHand`, `PeerAuthenticated`, `SspWithinBuffer`, `HandshakeEnds` | 187 000 |
| `handshake_full_ssp` (violation) | an SSP of exactly `MAX_SSP_LEN` bytes: length recorded, bytes not | |
| `client` | `SuccessIsWhole`, `RequestToAuthorisedPeer`, `ResultsAreFresh`, `AbortOnlyOnBadReply`, `LeaksOnlyOnDnsFailure`, `CallEnds` | 5 500 |
| `client_send_error` (violation) | a failed `SSL_write` is never reported | |
| `datex_fetch` | `FetchHonoursClick`, `ReportedOnceInOrder`, `MapShowsNewestReply`, `EveryFetchReported` | 134 000 |
| `trip_route` | `RouteWellFormed`, `ResetForgets`, `LostOnlyByReset`, `OneRouteOnMap` | 4 200 000 |
| `file_logger` | `FilesWellFormed`, `DamageOnlyByClose`, `FewLinesUnflushed`, `FilesKept` | 1 950 000 |
| `mobile_start` | `UpdatesOnlyWhileServed`, `BoundWhileOnScreen` | 1 430 000 |
| `car_start` | `PromiseKept`, `LeakOnlyByGrant`, `StartBringsUpdates`, `DeathKeepsStarts` | 67 000 |
| `ui_fields` | `OneSpeedCallback`, `SavedIsCopy`, `ScreenShowsSaved`, `OlderOnlyByAnotherHandler` | 4 300 000 |
| `cert_chain` | `ChainReported`, `DatesUntil2038`, `WalkEnds` | 722 000 |

The `TypeOK` of the exchange and of the handshake is proved (section 4); those of the client, fetch
(`FetchTypeOK`), route and log modules document the variables, and the inductive invariants of section 4
say the part of them that the proofs need.  Definitions marked `Mutant`
are plausible bugs; each property is known to fail for at least one of them.

What the passing runs show beyond "no error":

* `FetchHonoursClick` is as much as holds.  A fetch that waits for another one may run with the PSID,
  SSP or protocol of a later click, also of a click that was refused, may see an SSP that is not filled
  in, and may go out as plain HTTP although no click selected HTTP (`MapActivity.java:117`).  It never
  uses options older than its click, and without a later click exactly those of its own.
* `RequestToAuthorisedPeer` is weaker for an SSP of more than 32 bytes.  The check then compares bytes
  behind `optCertSsp` (`rfc8902-client.cpp:121`, `:280`), and a peer with a long SSP can pass with a bit
  nobody asked for.  Within the array the bit is a wanted one.
* `MapShowsNewestReply`: after a reply with a null element the map still shows the signs of the last
  reply without one, all of them; the details on screen may be old until the next whole reply.
* `DamageOnlyByClose` and `LostOnlyByReset` bound the damage of the missing locks: only
  `closeLogFile` costs log lines; a location is lost only to a reset or on a summary that the loopers
  of two services work on at once.
* `FilesKept`: rotation never truncates a file as long as the wall clock is not set back.  A log that
  is closed and opened again in the second it was opened in loses its lines, and so does any file whose
  name comes up again after the clock was set back or at the end of summer time.
* `LeaksOnlyOnDnsFailure`: of all exits of `http_get` only the one after `gethostbyname` leaks.
* `DeathKeepsStarts`: a death of the process, by a kill or an exception, loses no start of the receiver.
  A sticky restart delivers no intent and the process dies of it (`GeoFlowService.java:73`), so that what
  `START_STICKY` is meant for does not work; the property says that this costs nothing else.
  `StartBringsUpdates` holds before API 31 only.
* `LeakOnlyByGrant`: `onPermissionGranted` overwrites the connection it already has; each grant leaves
  one that only the end of the car service releases.
* `OlderOnlyByAnotherHandler` is as much as holds of the saved fields: the looper of a destroyed
  service brings back its position, VIN and count.  The count also goes back without another handler:
  one that took over a saved count writes its own with its first position, and that own count includes
  positions it was given and failed to save.  A stronger clause about the count held on the
  instance checked until then and was shown wrong by the attempt to prove it; `Earlier`, what an earlier
  process saved, has a count of 3 so that the run reaches the case.
* `DatesUntil2038`: later dates are wrong on a 32-bit ABI, and so is every validity in sixty-hour units
  above 9942 (the product is an `int`).  A certificate that starts in the last second of a day is listed
  as starting a day late (`ieee1609dot2.c:1633`).

### Bounds, and why they are enough

* `secent_exchange`: header 5, buffer 8, lengths to 12: below, at and above the buffer and across the
  signed limit 9.  The proofs remove the bounds.
* `handshake`: one certificate for the client; for the server a good one, one the entities reject and
  one whose SSP does not fit.  All 16 combinations of types per side, both PSIDs, a run per side.
* `client`: two calls in a row (stale results need two); peers that fail each check; an array of two
  bytes for the SSP, with wanted SSPs and peers' SSPs that fit and that do not; replies with both
  line ends, an empty body, a body starting with an empty line, an endless and an unparsable header;
  pieces of up to 3 bytes, so that the header ends inside, at the end of and between pieces.
* `datex_fetch`: two clicks, so that one fetch can overlap the next click; two activity instances;
  two signs, lit or blank, so that a sign can vanish from a reply, and a reply with each defect
  (`MCReplies` in `MCDatexFetch`).
* `trip_route`: cap 1 and three locations reach trimming, also while another looper reads the list; two
  services reach two loopers; two drawings
  and two screens reach a broken-off drawing followed by another.
* `file_logger`: two threads, three events, a flush every third line, two closes, age limit 1, a wall
  clock of three values set freely: rotation, reuse of a name, reopening and a close can overlap.
* `mobile_start`: an API level on each side of Android 12, two broadcasts and two commands under way,
  three activities, so that one can be opened on top of itself twice.  `car_start`: API levels 30, 33
  and 34, which differ in the notification and in the car service's receiver; two connections, so that
  a grant forgets one.
* `ui_fields`: two handlers of one process, a queue of one (a start adds up to two more), two locations
  or car events beyond those a start brings, all three kinds of speed, and saved fields of an earlier
  process with a count of 3, so that a restarted count shows.  With the count's exception taken out,
  `OlderOnlyByAnotherHandler` fails in this instance, so the case it excepts does happen.
* `cert_chain`: three hashes give every chain, gap and cycle of up to three; arrays of one to three
  entries are too short, exact and too long; names at and above 63, an AT with and without one;
  validities around both limits, a start in the last second of a day.

### Fairness

* `SecEntExchange`: weak fairness of the requesting side only.  It blocks in `read` and continues as
  soon as there is data or the end of the stream.  Nothing is assumed of the entity, so the property
  promises a return only after it answered or closed.
* `Rfc8902Handshake`: weak fairness of each side: blocking sockets, a process each.  That a request to
  an entity returns is the assumption behind treating it as one step.
* `Rfc8902Client`: weak fairness of the call, which includes that reads return; `CallEnds` is about
  what the loops do then.
* `DatexFetch`: weak fairness of the two threads.  Nothing makes a fetch return: `EveryFetchReported`
  excepts behaviours in which one hangs.
* `CarStart`: weak fairness of the four callbacks that handle what was delivered (one main thread, no
  blocking call).  Nothing is assumed of the system's decisions or of the driver.
* `CertChain`: weak fairness of the walk; that a request returns is `SecEntExchange`'s assumption.

`CHECK_DEADLOCK FALSE` where the modelled activity ends (handshake over, bounds on clicks used up).

## 4. Proofs

`SecEntExchange_proofs`, for all header and buffer sizes, lengths, types (assumption
`SecEntAssumption`: the header fits the buffer, the buffer is below the signed limit):

* `ExchangeTypeOK`, `ExchangeSafe` (`NoOverrun`, `WholeAnswer`, `SocketReleased`), `ExchangeWholeAnswer`: none is inductive
  alone.  `IInv` adds where a read stops (`want`) in each phase, that no more is received than was
  sent, and that the outcome is NULL until the payload is in.
* `ExchangeRefinesCall`: each step maps to a step of `SecEntCall` or leaves it alone.

`Rfc8902Handshake_proofs`, for all sets of certificates, PSIDs and supported types, against any of the
three kinds of server, from `HandshakeAssumption` (`NoCert` and the garbage of a short answer are no
certificates, an entity holds certificates, SSP lengths are numbers).  `HandshakeInv` has a layer per
question, each proved from the ones before it:

* `TypeOK` (`HandshakeTypeOK`);
* `NegInv` (`HandshakeNegotiation`: `NegotiationAgrees`).  That both sides agree follows only with
  what holds in between: the offer is the client's support while it waits, the answer is unsent until
  the server decides and equals its decision from then on, an undecided side has decided nothing;
* `CertInv` (`HandshakeCertificateAtHand`: `CertificateAtHand`): a side past its set-up that needs
  the entity has a certificate, before any type is decided;
* `AuthInv` and `SspInv` (`HandshakeAuthenticates`: `PeerAuthenticated`; `HandshakeSspWithinBuffer`:
  `SspWithinBuffer`).  A step of a side teaches it nothing, a hash, or a PSID (`PeerFrame`); a signature
  speaks for the signer's certificate, which no longer changes once it is sent; a server of this
  code base asked for the client's certificate; an empty list comes only from a client for which
  1609.2 was not agreed.

`Rfc8902Client_proofs`, for all sets of options, peers and replies and any number of calls
(`ClientAssumption`: a reply starts with a byte of text, an SSP is a sequence of sets of bits, and the
like), for every size of the SSP array:

* `LeaksOnlyOnDns`: `HeldInv` says what is held at each place of `http_get`; an exit releases that.
* `RequestAuthorised` (`PeerInv`; `ReadFacts`: what the check reads is the wanted byte within the array
  and any byte behind it) and `FreshResults` (`FreshInv`: nothing of a peer or a reply is shown
  before there is one, and a call under way has not returned).
* `SuccessWhole` and `AbortBadReply` are about the loops.  `LoopInv` relates the collector to the
  reference after every byte: before the first empty line the collector's line is empty exactly when the
  bytes end in an empty line so far; the loop returned at the end of the first empty line, and the
  surplus counts what came after it.  It is proved by
  induction over the bytes of a piece.  `WholeInv` carries it through `http_get`: after the header loop
  the response is the bytes from the body's start to the position read, whatever the pieces.

`FileLogger_proofs`, for every number of threads, events and closes, every age limit and whatever the
wall clock does (but for what `FilesKept` and the assumption in section 2 say of the clocks):

* `DamageByCloseOnly` (`MonitorInv`): the owner of the monitor is the only thread inside `logEvent`; a
  call that did not meet the unlocked end of `closeLogFile` finds the writer open from its first check
  on, but for the moment between rotation and reopening.
* `WellFormedFiles`, `FewUnflushed` (`ContentInv`): what file and buffer hold for each place of the call
  under way; a file is empty only during the nested call that prints its name, and nested calls are over
  before the third line; the length of the buffer is the remainder that decides about flushing.
* `LinesKept` (`RotateInv`): until the wall clock is set back the active file is as old by its name as by
  its age and no file has a later name; a file with its last line is older than the clock and not the
  writer's.

`MapScreen_proofs`, first the route, for every distance, cap, number of services and locations:

* `WellFormedRoute` (`ObjectInv`, `WellInv`): no two summaries have a list in common; what a looper has
  read of a list (`HasRead`: that it is empty, its size, its last point) still holds at its next use,
  or a reset has emptied it, unless another looper works on it, which `shared` records.
* `ForgottenByReset` (`ForgetInv`: no looper at work has a forgotten location either), `LostByReset`
  (`LostInv`: a looper that found a point, met no reset and has the summary for itself still finds one;
  a null is only in a shared list), `OneDrawing`
  (`MapInv`: `OsmdroidUtils` knows every overlay, and a drawing under way is alone on the map).

Then the fetch, for every number of clicks and screens and every set of signs and protocols:

* `FetchClick` (`ClickInv`): the task is told apart from what it may read.  Every write visible to a task
  that is queued or under way honours that task's click, and a click has completed the options it has
  come past, so that the task it enqueues starts out with complete ones.
* `ReportedInOrder` (`OrderInv`): the ids grow from the screen back to the executor's queue, place by
  place: reported, told to the handler, finished, under way, queued.
* `MapShowsNewest` (`NewestInv`): fetches of later clicks are of later screens.  Once a screen was shown
  a reply only its own fetches are on the way, so no earlier screen's can still replace the static; the
  signs are those of `whole`, wherever a later reply threw.

`GeoFlow_proofs`, for every number of activities, connections, broadcasts and commands:

* `UpdatesServed`, `PromisesKept` and, under the car application, `CarUpdatesServed`,
  `CarPromisesKept`: with the type of the service's record these are inductive (`ServedInv`,
  `PromiseInv`); the steps of the service are treated once for both applications, and of the
  applications it matters that they change the instance by `Settle` only and take no permission away.
* `BoundOnScreen` (`BoundInv`): an activity that has had a connection has been given every permission,
  which is what brings it back on screen with a new connection.
* `LeakByGrantOnly` (`LeakInv`): no connection outlives the car service; each grant forgets at most one.
* `CarKeepsStarts` (`StartsInv`: the commands that wait are the receiver's, with their extra, or without
  an intent after a completed one): `DeathKeepsStarts`.

`UiFieldsStore_proofs`, for every number of handlers, events and starts:

* `OneCallback` (`CallbackInv`: a registered callback is with a manager that is not null; otherwise
  `init` would skip the unregistration and register a second one).
* `SavedCopy`, `OlderByAnotherHandler` (`StoreInv`): locations wait in each queue in order and are newer
  than the handler's fields; what is saved is as old as its saver's fields or older, by field.
* `ScreenSaved` (`ScreenInv`).

`CertChain_proofs`, for every set of certificates, graph of issuers and length of the array:

* `ChainIsReported` (`ChainInv`): the entries so far lead from the peer from issuer to issuer
  (`WalkInv`), and the walk is on *every* chain that leads to a root (`FoundInv`), so that it ends
  without one only if there is none or a request failed.
* `RightDatesUntil2038` (`DatesInv`): with integer arithmetic about the product and the sum of
  `ssl_time32_to_time_t` and about the day of the next second.

Every safety invariant and action property of the passing runs is thereby stated by a theorem.  Only
model-checked are the liveness properties: `AnsweredRequestReturns`, `HandshakeEnds`, `CallEnds`,
`EveryFetchReported`, `StartBringsUpdates`, `WalkEnds`; reasoning about fairness is
outside the prover's reach.  The induction theorems of the library cannot be instantiated by the
installed provers either; where the proofs need induction over data (the bytes of a piece)
`NatSetInduction` states it about a set of numbers, and `Loop` is a recursive function, whose existence
is proved from it (`Rfc8902Client_proofs`).

## 5. Findings

1. `ieee1609dot2.c:1361` (`handshake_full_ssp`): the copy of the SSP excludes the length the check
   before it admits.
2. `rfc8902-client.cpp:157` (`client_send_error`): a failed `SSL_write` moves the position back and the
   loop never ends; the caller's error path and the application's text for it are dead.

Disagreements met while modelling that a reader sees from the lines alone, without a run of their own:

* `ieee1609dot2.c:526`: the log text says a message "must be 5 or more" bytes; the code refuses 5.
* `InitServiceBroadcastReceiver.java:33` has no branch for `BOOT_COMPLETED`, so nothing starts on boot;
  `MainActivity.java:45` says "so service can start on boot".
* `MainActivity.java:150` starts the service itself, without extras, which ends the process in
  `GeoFlowService.java:73`; the comment at `MainActivity.java:66` says the start should come from the
  receiver.
* `UiFields.java:40` stores the position in the preferences; the text in `InfoScreen.java:48` says no
  location information is stored.

## 6. Not modelled, and why

* The rest of OpenSSL 3.1.1 under `cpp/openssl`: third-party, and about 425 000 of the repository's
  431 000 source lines.  Of the project's own code (the Java packages, the JNI library and the 1609.2
  files added to OpenSSL) the map covers nearly half; what is left there is logging, declarations,
  text formats and accessors.
* The log upload thread is never started.  `Rfc8902.java` declares the native methods and a table of
  texts.  JNI samples, `CarHardwareUtils` and the conversions of a position are stateless.
* A permission the user has denied for good, which the system answers at once: `MainActivity` asks
  again without end; in the model the repeated request is a step back to the same state.
* Wording, colours, images, number formats, the display of X.509 chains.
* Ideal cryptography; no attacker is modelled beyond a peer or an entity that answers wrongly.

## 7. Plan

Done: every component with state of its own (section 1) is modelled and checked; every safety property
the runs check is proved, and the refinement of `SecEntCall`.  Next, in this order:

1. An abstract client (success with the whole body of an authorised peer, or an error) refined by
   `Rfc8902Client`.
2. The full `TypeOK` of the client, fetch, route and log modules as theorems.
