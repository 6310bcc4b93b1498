# TLA+ models of WebSocketDS

WebSocketDS is a gateway between the Tango control system and WebSocket clients. It is built
twice from the same sources: `WebSocketDS` (server mode) shows one configured device or group to
all clients, `WebSocketDS_cli` (client mode) lets every client name the devices it wants. Each
build is a Tango device with a handful of threads that share a connection table, on top of
websocketpp, whose server side is vendored with it. The modules here specify the threads, the
path of a message from the peer's bytes to Tango and back, and the text of the answers; TLC checks
the specifications on small instances and TLAPS proves the central results for instances of any
size.

Paths below are relative to the repository; files without a directory are in
`src/wstangoproc_common/`, `_cli/` or `_ser/`, those of websocketpp in `src/websocketpp/`.

## 1. Inventory

### 1.1 Parts, their state and their operations

| part | code | state | operations |
|---|---|---|---|
| **WSThread** (plain and TLS) | `WSThread*.cpp` | `m_connections`, `m_active_connections`, per connection `idCommandInfo` (requests in flight), `local_th_exit`; one lock, `m_connection_lock` | handlers `on_validate`, `on_open`, `on_message`, `on_close`, `on_fail` (asio thread); `checkActions` with `_forCheckActions`/`_checkRequests` (polling thread `actTh`); `send`, `send_all`, `closeConnections`, `stop` |
| **WSTangoConn**, **UserControl** | `WSTangoConn.cpp`, `UserControl.cpp`, `ConnectionData.h` | options; per connection login and `userCheckStatus` | the check at opening, login and change of user, permission checks, the action log |
| **ParsingInputJson**, **StringProc** | same names | none | a JSON message to a `ParsedInputJson`; precision options; texts of refusals and short answers |
| **TangoProcessor**, **MyAttributeData** and other records | same names | none | requests on Tango proxies; JSON of attributes, commands, pipes and events |
| **DeviceForWs**, **GroupForWs**, **GroupOrDeviceForWs** | same names | list of attributes and pipe with their options | what is read of a device or of each device of a group |
| **WSTangoConnSer** | `WSTangoConnSer.cpp` | `_numOfConnections`, `eventSubscr`, `do_update`, `local_th_exit`, `_connectionStatus` | constructor, destructor, `setNumOfConnections`, `update`, the thread `updateData`, `setFalsedConnectionStatus`, requests |
| **EventProcSer**, **WsEvCallBackSer** | same names | subscriptions of the gateway, `_wasException` | subscribe all, unsubscribe all, `push_event` |
| **WSTangoConnCli** | `WSTangoConnCli.cpp` | `eventProc`, one `DeviceProxy` per request | requests, `checkResponse`, `clientDisconnected` |
| **EventProcCli**, **WsEvCallBackCli** | same names | `usedDevices`, `eventSubs`, `eventTypes`, `listOfId`, `_wasException` | `eventreq_add_dev`, `_rem_dev`, `_check_dev`, `_off`, disconnection, `push_event` |
| **WebSocketDS**, **WebSocketDS_cli** | `server_mode/`, `client_mode/` | Tango state, `wsTangoConn` | `init_device`, `delete_device`, `UpdateData` |
| **websocketpp**: listening | `transport/asio/endpoint.hpp`, `roles/server_endpoint.hpp`, `security/*.hpp` | acceptor, one waiting connection, TLS contexts, transport timers | `init_asio`, `listen`, accept loop, TLS handshake and shutdown, `stop` |
| **websocketpp**: handshake | `http/`, `impl/connection_impl.hpp`, `processors/` | the request as far as it was read, `m_buf`, processor, response | reading, processing, answering; what comes behind the request |
| **websocketpp**: connection | `impl/connection_impl.hpp`, `transport/asio/connection.hpp` | `m_state`, `m_internal_state`, send queue and write flag, timers | `send`, `close`, reads, writes, `terminate` |
| **websocketpp**: frames | `processors/hybi13.hpp`, `hybi00.hpp`, `frame.hpp`, `close.hpp` | `m_state` of the reader, message and control message under way | `consume`, preparation of data, control and close frames |

### 1.2 How the parts interact

* The *Tango device thread* runs `init_device`/`delete_device`/`UpdateData`; it makes the
  WSTangoConn object, whose constructor starts everything else, and deletes it.
* The *asio thread* runs websocketpp and the WebSocket handlers, one handler after another.
  `on_open` and `on_close` hold `m_connection_lock` and call `setNumOfConnections` of the gateway;
  in server mode that call subscribes to events or deletes the subscription. `on_message` sends
  the Tango request with no lock held and only then takes the lock to register the request ids
  (`addActive`).
* The *polling thread* `actTh` waits on a condition variable until a connection is active, and
  then scans all active connections every millisecond with the lock held.
* Server mode has *updTh*, which broadcasts attribute values when `UpdateData` asks for it.
* *Tango's event thread* calls `push_event`, which sends to all clients (server mode) or to the
  subscribers (client mode) and closes those that cannot take the message.
* All of them call `send` and `close` of websocketpp connections, whose locks are its own.

### 1.3 What is hard

Requests are registered after they were sent, so a scan may take their connection out of the
active set in between. A send may raise in the middle of a scan, and the list of answered
requests is lost with the stack frame. Notifications are sent without the lock (`stop`,
`update`, the destructor). The subscription of the server mode is made under a lock that its own
callbacks want. Four maps must describe one and the same set of client-mode subscriptions. The
session of a client changes its user in the middle, with an authentication device that may refuse,
fail or be away. Keys of a message are looked up far from where they were checked. A text is put
together by functions that each write a part of its braces. Below, a connection can be ended by
its peer, by two threads, by failed writes and by four timers, and may be told only once; bytes
come in pieces of any size; and a control frame may interrupt a message. Each of these is an entry
of `hazards` in `PROJECT.json`, with its line and with the properties that would notice.

### 1.4 What makes each part correct

* **WSThread**: a handle that is looked up is there; an accepted request is answered once, or its
  connection closes; nobody else is answered; the count of connections is usable; `stop` returns.
* **WSTangoConn**: only a user AuthDS has confirmed is spoken for, nothing reaches Tango without a
  permission, the log and the client are told what was decided.
* **Requests**: every message is answered, by every device it was for, and no message ends the
  server.
* **Texts**: each is one JSON value, with what was read, in the precision asked for.
* **WSTangoConnCli**: no request is asked through a deleted proxy.
* **EventProcCli**: the four maps agree after any sequence of requests, lists that partly fail and
  disconnections; nothing leaks; an id that is told can be used.
* **WSTangoConnSer**: one event subscription exactly while clients are connected; what is
  remembered of an exception is what was told; the destructor ends.
* **websocketpp**: one connection is always waiting for the next client; whatever ends a
  connection is told once, and in the end; no frame is forgotten or follows a terminal close; the
  messages handed on are those the peer's frames mean; the answer to a handshake does not depend
  on how it was cut.

## 2. Modules

```
Requests <--refined by-- WSThread <--EXTENDS-- WSTangoConnCli
                            |  WSThreadRefinement      WSThreadProofs
EventProcCli                                           EventProcCliProofs
WSTangoConn                                            GatewayProofs
WSTangoConnSer                                         WSTangoConnSerProofs
ParsingInputJson <-- TangoProcessor <-- OnMessage      GatewayProofs
JsonText <-- StringProc <-- Responses                  ResponsesProofs
Listener, Connection                                   EndpointProofs
HttpParser <-- Handshake <-- Sending --> Frame         SendingProofs
Hybi13                                                 Hybi13Proofs
```

Each module with behaviour has an MC module that gives its instance, except that WSThread's is in
`MCWSThread` with the refinement, and that WSTangoConn and OnMessage, the two views of a connection's
gateway, are both in `MCGateway`. The seam between two modules is always something both name:
`OnMessage` ends where `WSThread` takes over the accepted requests; `Listener` ends and begins
again where a `Connection` starts reading and terminates; `Connection` leaves out contents, which
`Handshake`, `Hybi13` and `Sending` are about.

### WSThread

`connections`, `active` and `tasks` are the keys of `m_connections`, `m_active_connections` and
`idCommandInfo`; `sock` is what websocketpp knows of a connection ("validated" between
`on_validate` and `on_open`, "closing" from the first close to `on_close`); `asioPc`, `asioConn`,
`asioIds`, `asioErrs` are the place and the locals of a running `on_message`; `actPc` and the
`scan` variables those of `checkActions`, `_forCheckActions` and `_checkRequests`. `reply` is
Tango's side of an asynchronous request and `delivered` counts answers (history).

`m_connection_lock` is not a variable: it is held by `actTh` exactly in "window" (predicate
tested, not blocked yet) and during a scan (`LockFree`), and every other critical section is a
single action enabled when the lock is free. `on_message` is split where the lock is not held:
acceptance by Tango, `addActive`, notification, error messages of group requests, removal after a
failed send. Both builds are one module with the constant `ClientMode`: broadcast (`SendAll`) in
server mode, `sendMessage` (`EventSend`, `EventClose`) in client mode, which touches the active
set *without* the lock. The C++ standard gives that data race no meaning; the model lets the
running scan continue with any subset of what it had left, and leaves out that the process may
crash.

### Requests and WSThreadRefinement

`Requests` is the promise to the clients: a set of open connections, the requests each is owed
an answer for, and the answers it got; no threads, no lock. `WSThreadRefinement` maps the table
to it: an open socket is owed what is in `idCommandInfo` or carried to `addActive` and has not
been delivered.

### WSTangoConnCli

Extends WSThread by the `DeviceProxy` each asynchronous request of the client mode owns: made when
the request is sent, deleted by `checkResponse` with the answer, dropped with the TaskInfo. Every
step of WSThread is taken together with what it does to the proxies.

### WSTangoConn

Sessions and permissions, with UserControl. `typeOfIdent` and `toi` are the two copies of the kind
of identification that `initOptions` sets; `login`, `password`, `userCheckStatus` a connection's
data, the last of which no constructor sets, so its first value is a choice and `assigned` tells
the two apart. All handlers run on the asio thread and wait for AuthDS, so each is one action; what
AuthDS does (confirm, refuse, raise, be away) is chosen anew each time. `confirmed`, `told` and
`last` are history: whom AuthDS has confirmed, what the client was told, what became of the last
command.

### ParsingInputJson, TangoProcessor, OnMessage

One message on its way through `on_message`. A message is its `type_req` and the shape of the
value of each key (absent, empty, one value, array, object, nested...), because these are what
`_checkValidity` and the handlers distinguish. `ParsingInputJson` has the parser's conversions and
the validity of each type; `TangoProcessor` what becomes of the argument for each type of command
and attribute; `OnMessage` dispatches in both builds, asks the devices of a group one after the
other (`asked`, `left`), and counts what was `sent` and is `pending`. `raised` is an exception that
leaves `on_message`, which nothing up to `run_undetached` catches.

### JsonText, StringProc, Responses

What clients are told. A text is the sequence of tokens that reach the stream, and `IsJson` is a
reader for it. A value token carries which datum it shows and in which precision, so one text can
be judged for form, for contents and for precision. Strings are "plain", contain what needs
escaping, or are JSON themselves. Each way to build a text is one action: the periodic update of a
device or a group, answers to reads, writes, commands and pipes, events, refusals.
`about` records what the text was to say.

### EventProcCli

`subscribed`, `connList`, `eventSubId` are the contents of `eventSubs`; `eventTypes`, `listOfId`
and `usedDevices` are the maps of these names. Every request holds `m_eventproc_lock` from start
to end and is one action, with the whole loop over the attributes of a list, of which any subset
may fail to subscribe. `push_event` may find the lock taken (`busy`) and then drops its event;
events delivered by Tango from inside `subscribe_event` (the set `Bad` of `AddDev`) always do.
`answer` is what the last request told (history); `heard` and `behind` are, for each client and
subscription, whether the last it was told was an exception, and whether it missed the last event,
because it has joined since or because the event was dropped (history).

### WSTangoConnSer

The server-mode gateway with the device that owns it. `devPc` walks the device thread through
`init_device` (constructor, then ON), `UpdateData` and the destructor; `asioPc` walks the asio
thread through `setNumOfConnections`, where the pointer `eventSubscr` is tested in one step and
used in another, as the destructor does on its own thread; `updPc` is `updateData`; `evPc` is
Tango's event thread inside `push_event`. `subs` counts the EventProcSer objects, which the
pointer need not do. A deleted or null pointer that is used sets `crashed` and ends the behaviour.
The server may end with an exception at any moment between two handlers, as one that
leaves a handler ends it like a busy port does (`ServerFails`). Unsubscribing waits for a running
`push_event`, as Tango does it (an assumption about Tango). What
`WSThread` does besides (`actTh`, messages) is not repeated here; it only adds moments at which
the lock is busy.

### Listener

`thread` walks `run_undetached` from `init_asio` to the end of `run`; `conns` holds each
connection's transport: results of `async_handshake` and `async_shutdown` that wait for their
handler, and the two timers that race them. A timer that has run out has its handler queued and
cannot be cancelled any more, which is asio's rule and the reason for most of the states. `stop`
may come at any moment, as the device's destructor may.

### Connection

One connection from `start` to its last handler. `op` is what the chain of reads waits for;
`call[t]` is where each thread is within `send`, `close` or `send_close_ack`, whose critical
sections are steps of their own; `queue`, `current`, `writeFlag`, `posted` are the send queue and
who is going to write it; `timer` the two timers; `told` and `terminating` count the calls of the
handlers made and queued. Contents are left out: a frame is data, a close that awaits the peer's,
or a terminal close. `overtaken` (history) says that `terminate`, which takes no lock, ran while
another thread was inside `close`.

### Hybi13

`consume()` reading a peer's frames: one step per turn of its loop, the payload byte by byte, since
the masking key and the UTF-8 validator carry their state over buffers. The peer sends any frame,
right or wrong in each field; `sent`, `whole` and `part` are what its frames mean (history).

### HttpParser, Handshake, Frame, Sending

`HttpParser` reads lines, header fields and the lists in them from texts of symbols, where a
symbol is a character or a word the parser never sees a part of. `Handshake` cuts a request
anywhere into reads and does with them what `handle_read_handshake` and `process_handshake_request`
do, up to the response and to what is left in `m_buf`; version 0 frames are read here, those of
later versions are counted and belong to `Hybi13`. `Sending` continues an accepted connection:
messages, pongs, closes and their answers, laid out by `Frame` down to the bytes of a header.

## 3. Runs

| run | asks | distinct states |
|---|---|---|
| `wsthread_live` | is every accepted request answered or its connection closed, as `Requests` promises, and does `stop()` return (server mode) | 135 683 |
| `proxies` | do the tables agree, is nothing forgotten or answered twice, and are proxies alive when they are asked (client mode) | 185 961 |
| `events_safety` | do the four maps of EventProcCli agree, does nothing leak, are ids told rightly, does the flag that suppresses repeated exceptions know what each client was told | 17 900 |
| `server_clients` | one subscription, made and deleted with the clients; exceptions as told; the destructor ends | 151 475 |
| `gateway` | is each session's user confirmed, each command permitted, log and client told the truth; does every message get its answers, and which exceptions leave `on_message` | 266 118 |
| `responses` | is each text JSON, complete, and in the precision asked for | 32 702 |
| `listener` | does the server go on accepting, and does each transport begin and end once | 210 854 |
| `handshake` | is the answer to a request independent of its cuts, is no byte lost, is each frame written one that reads back, each close answered | 145 514 |
| `connection` | is each connection told once and in the end, is no frame forgotten or written after a terminal close | 195 237 |
| `frames` | are messages those the frames mean, are refusals justified, are texts UTF-8 | 556 508 |
| `server_tls` | violation: the TLS server waits for its own lock | |
| `events_repeated` | violation: a client is told of an exception twice in a row | |

The violations each check one sentence of a comment, which section 6 quotes.

Each property of the other runs has a mutant in `PROJECT.json`: an operator of the module (`NoLock`, `AlwaysSubscribe`,
`ReplacedHeader`, ...) that changes one definition as a plausible slip would, and breaks it.

**Deadlock** is checked in the runs of EventProcCli and in `proxies`, whose systems go on for ever.
The others end by design: a stopped WSThread (`wsthread_live`), a gateway that has crashed or whose
thread waits for itself (`server_clients`, `server_tls`), a connection that is over (`connection`,
`handshake`), a stopped server (`listener`), a peer that has sent all it may (`frames`), and a
message whose answers, or a text whose last token, is out (`gateway`, `responses`).

**Bounds.** `Conn`, `Id`, `Hdl`, `SubId` and `Client` are pools: a value that nothing refers to any
more is used again, so they bound what is alive together and not the length of a behaviour.

* *WSThread, WSTangoConnCli.* Two connections are enough for every pairing of handlers, scans and
  broadcasts the properties speak about (one in a scan, one in a handler). Three ids are needed for
  a request to be answered, forgotten and answered again: `proxies` has them, `wsthread_live`, whose
  properties need only one in flight and one being registered, has two. `MaxErr = 1` allows one
  device of a group to fail, which is all the code distinguishes. `MaxConn = 1` (server mode) makes
  the limit of connections matter; 0 is "no limit".
* *EventProcCli.* Two event types on one attribute make the overwritten record of `eventTypes`
  happen, two attributes the lists that fail in part; two subscription ids let a device lose one
  subscription and keep another, and are given anew. Of two clients one can hear an exception and the
  other miss it or join later.
* *WSTangoConnSer.* A second client can open while the first is subscribed. `Secure` may change at
  every Init, and the listened device may fail to initialise.
* *WSTangoConn.* Two connections, two logins and one password, the empty string and a missing key;
  all lists of up to the three options, and the three builds.
* *OnMessage.* A message has every combination of shapes of the keys its handler reads, each type
  of command argument and attribute is tried, and groups have up to two devices.
* *Responses.* Three names, two options, two devices; dimensions 0 to 2 and set values 0 to 2, an
  unassigned second dimension down to the least int, with `IntMax` 8 so that products overflow; pipes
  of up to three elements; seven configurations. Lists of two names and groups use three data and
  three pipes, which differ in what the commas between them depend on.
* *Listener.* Three connections: one ends, one is being opened, one waits. With and without TLS.
* *Connection.* One thread besides asio's, two data frames and three close frames: one frame under
  way and one behind it, and a close from each thread and from the protocol.
* *Hybi13.* The limits are scaled down (`Basic` 1 for 125, `Extended` 2 for 65 535, size_t modulo
  8, messages up to 3 bytes) so that each is met from both sides; three frames and four bytes make
  a message of two fragments with a control frame between. The theorems hold for all limits.
* *Handshake, Sending.* 76 requests: one that is right, and each of the others with one thing wrong
  or unusual. `MaxHeader` is 120 symbols and the body limit 4, so that requests lie on both sides;
  three reads cut a request at any two places. Two of them are followed by two things sent or
  received, with sizes 0, 123 to 126, 65 535 and 65 536 and codes at the edges of each range.

**Fairness.**

* *WSThread* (`ServerSpec`, the steps of the server-mode build): weak fairness of `actTh` and of the lock-free steps of `on_message`, since threads
  are scheduled. Strong fairness of the steps that wait for `m_connection_lock` (`AddActive`,
  `DropActive`): `actTh` releases the lock and sleeps a millisecond between two scans
  (`WSThread.cpp:388`), so a waiting thread does get it. Strong fairness of `OnClose`, which
  websocketpp runs for a closing connection once the asio thread is free (`EndsTold` of Connection
  is the reason); weak fairness of Tango's replies, as a timeout is a reply too. Nothing is assumed
  of clients, of broadcasts or of spurious wakeups.
* *WSTangoConnSer*: weak fairness of every thread and of `UpdateData`, which has a polling period
  (`server_mode/WebSocketDSClass.cpp:704`). Strong fairness of `Broadcast`, which in the TLS build
  waits for the lock that `on_open` and `on_close` release at their ends, and of the steps that
  unsubscribe, for which Tango's events leave gaps; a `push_event` that runs ends. None of clients,
  events and Init.
* *Connection*: what asio has queued runs, timers run out, the transport's initialisation and
  shutdown end (both have timers of their own, see Listener), and a thread inside `send` or `close`
  goes on. Neither the peer nor a write need ever finish.
* *Listener*: queued handlers and the clock. Peers owe nothing.

**What the liveness properties show.** `RequestsAnswered`: what is owed is not owed for ever, and it
stops being owed by an answer or a closing alone (`ImplementsRequests`). No wakeup is lost between
`addActive` and the wait, because `actTh` tests its predicate under the lock `addActive` takes. `StopCompletes`
and `DestructorCompletes` name the exceptions the code leaves: a notification in the window between
predicate and wait (flag and notification are sent without the lock), clients that keep some
connection active for ever, an asio thread that waits for itself. `EndsTold` and `TransportEnds`
need the timers: with a peer that is silent nothing else ends a connection.

## 4. Proofs

All proofs are checked by TLAPS, about 10 700 obligations by the count of `tlapm --summary`, for arbitrary constants that satisfy the
named assumptions of the modules (what a constant is, which values differ, which limits are in
order). The theorems a reader should know of are listed in `PROJECT.json`.

**WSThreadProofs** proves `TypeOK`, `Registered`, `PendingWatched`, `AnsweredOnce` and
`NumConnUsable` (the count of connections, which no run states). None is inductive alone; the
invariant `IInv` adds

* `SockInTable`: a handle is in the table exactly from `on_open` to `on_close`;
* `AsioLocals`, `ScanLocals`, `EventLocals`: what each thread's locals may hold at each place;
* `OneOwner`: a request id belongs to one connection, in `tasks` or on its way there;
* `AnsweredLeaves`: an answered request of an open connection is in `_del` of the running scan. When
  `_del` is lost, the send that raised has closed the connection, which is why its requests are
  not answered again;
* `SentDelivered`: what `_del` holds has been delivered.

`NextInv` has one step per action; the argument for `EventClose` is the interesting one, since it
changes the active set in the middle of a scan: it only removes connections that are closing.
`ServerBuild` says that in server mode the behaviours are those of `ServerSpec`, which leaves
`EventSend` and `EventClose` out and which `wsthread_live` checks.

`Implements == Spec => ImplementsRequests` follows from `IInv`, with one mapping lemma per kind of
step (opening, closing, acceptance, answer, retirement) and every other action a stutter.

`ProxiesUsable` proves `OpenTasksLive` of WSTangoConnCli. Each step there is a step of WSThread, so
`IInv` holds along with it. `ProxyInv` adds that no request on its way to `addActive` has a deleted
proxy.

**EventProcCliProofs** proves `TypeOK`, `BackRefs`, `IdsMatch` and `NoneLeaked` (which is
`LiveIsHeld` for subscriptions and `DevicesInUse` for proxies); their conjunction is inductive as
it stands, because each request holds the lock throughout. The lemma on `Unsubscribe` carries
removal, `eventreq_off` and disconnection. `ToldUsableId`, an action property, follows from it:
`AddDevUsable` says of each attribute of a list whether its id was stored or joined. `KnownToListeners`
has one lemma for each action that changes the flag, the listeners or what they have heard
(`UnsubscribeKnown`, `AddDevKnown`, `PushEventKnown`); its invariant `KInv` adds that `heard` and
`behind` speak of listeners only, and the flag of live subscriptions.

**WSTangoConnSerProofs** proves the four safety properties of the server-mode gateway:
`SubscribedWhileConnected`, `OneOwner`, `ExceptionAsTold`, and `NoSelfWait` for the plain build
(under `TRUE \notin Secure`; `server_tls` shows that the hypothesis is needed). The invariant has a
part for each thing that is kept in two places: which gateway objects exist at which place of the
device thread (`Gateways`, `HaveServer`), the clients and the number `setNumOfConnections` was given
(`Counted`), the configuration a gateway was made with (`Configured`), what the asio thread's place
in `setNumOfConnections` says about `eventSubscr` and `subs` (`Effects`), which of the two ways to a
bad pointer was taken (`Crashes`), what `_wasException` remembers (`Told`), and that only the TLS
build waits for a lock it holds (`TlsWaits`).

**GatewayProofs** is about the gateway of a connection. Of *WSTangoConn* it proves `TypeOK`,
`AuthenticatedAsLogin`, the action property `AuthorisedSends`, `DecisionKept` and `ToldIsUser`. The
first is inductive with the types: a change of user is made only after `check_user`, so login and
confirmation change in one step. The second follows from it for the step that sends. The third rests
on the configuration never changing, the last on a refused change leaving the login alone. Of
*OnMessage* it proves `KnownEscapes` and `Answered` for every function from keys to shapes of
values, where the run enumerates those a handler reads. The strengthening `Needs` says which keys a
valid request of each type has; `ValidHasKeys` derives it from `_checkValidity`, and each handler's
`at()` uses it. `AnswerInv` is for `Answered`: nothing is counted before the request is handled, and
while the devices of a group are asked, each that was asked has its answer or a reply to come.

**ResponsesProofs** proves `WellFormed`, `DataIsRead` and `PrecisionAsAsked` for any attributes,
options, commands, data, pipes and groups that are what `DevAssumption`, `DatumAssumption`,
`CommandAssumption`, `PipeAssumption`, `AskedAssumption`, `ConfigAssumption` and `OptionAssumption`
say (a datum of an image has two dimensions whose product is an int, a scalar at most one set value,
a precision option is told from other options). The texts are made, and read back, by recursive functions and the folds of
the library, so these proofs begin with induction: the recursions of `FlattenSeq`, `FoldLeft` and
the extraction of pipes are shown to have a solution (`FlattenFunction`, `TableExists`,
`ExtractionExists`), and what it computes is proved over sets of natural numbers (`Induction`,
from the well-foundedness of <), since a theorem about an operator cannot be instantiated here.
* For `WellFormed`, `Takes(t, a, b)` says that text t takes a reader from the expectations a to b,
  whatever else is expected; texts one behind the other compose (`TakesCat`), and each generator has
  a lemma on what it takes (`IsValue`, `IsMember`, `IsTail`, `IsRun`).
* For the other two, `Shows(t, fit, data, want)` says that t writes values only in precisions that
  `want` allows and, if nothing kept the data from being written, shows exactly `data`, in order;
  most parts are `Silent`. The lemmas that carry it are `KeptIsRead` (the cut of a list to its
  dimensions loses nothing unless the datum is `Doubtful`), `PipeIsShown` (what is extracted of a
  pipe stays in step with what is to be shown, up to the first element that is not supported),
  `FirstOption` and `RemembersMore` (of several options for a name the first is kept), and
  `ListAsPromised` and `ObjectAsked` (a request's precisions).
* The invariant is `RInv`: the configuration is one the properties can give, and each precision the
  gateway was made with is one they ask for (`Configured`), which no handler changes.

**EndpointProofs** is about the connections of a server. Of *Connection* it proves the types,
`HandlersOnce`, `NothingAfterTerminal`, `NoFrameStuck` and `NeverReopened`, for any number of
threads, frames and closes. The steps that touch the send queue are few, so the others are collected
(`QuietStep`). `Writing` adds that `m_write_flag` stays set from a terminal frame on. `StateTold`
says which handlers have been called when `m_state` stands where it does, and `CallsOpened` that a
thread inside `send` or `close` found the connection open. Of *Listener* it proves the types,
`AcceptArmed` and `CallbacksOnce` for any number of connections. `OneWaits` says who re-arms the
accept loop. `Front` and `Back` say of one connection that the timer of its handshake, and that of
its shutdown, runs until the callback was called, and that a cancelled timer leaves no handler of
the operation it guarded; the helpers of the code each have a lemma about them (`PostInit`,
`TransportInit`, `Terminated`).

**SendingProofs** proves `WireReadsBack` and `CloseAnswered` for every size and every code, where the
run has seven and fourteen. `SendingAssumption` says what types the code gives them: a size fits
the eight bytes of size_t, a code two. The layout comes first: `JumboReadsBack` is ntohll of htonll,
byte by byte; `HeaderReadsBack` that a header of each of the three forms is read with the size, the
opcode and the length it was written with; `DataFrame`, `PongFrame`, `CloseFrame` and `CloseFrame00`
that a frame which is not refused says what it was meant to (`Good`), and `PeerClose` what
`extract_code` makes of a peer's close. The invariant is about the order: nothing is written before
the handshake is over and no close while the connection is open (`Phases`), closes come last
(`ClosesLast`), each but one is the refusal of a wrong one that came late (`ClosesCounted`, by
induction over the steps with the cardinalities of both sets), and the first answers the close that
found the connection open (`OpenAnswered`). Of the handshake only which phase follows which is
needed (`HandshakeStep`).

**Hybi13Proofs** proves `Reassembled`, `RefusedRightly` and `TextsValid` for all limits and any
number of frames and bytes. The invariant says for each state of the reader what it holds
(`InHeader`, `InExtended`, `InPayload`, `InReady`): the message under way is what the frames so far
mean (`Holds`), unmasked with the key in the position it was left in (`Keyed`), its validator in the
state its text leaves it in, also while a control frame is read in between (`Between`). There is one
lemma per turn of the loop.

**Only model-checked**: liveness (fairness and ENABLED are out of the prover's reach); `OutcomeAsWhole`
and `NothingLost` of Handshake, which compare what nested loops over lines, lists and quoted strings
make of any cut of a text with what the instance says the text means, so that a theorem would first
need that meaning for every text; and the violations.

## 5. What is not modelled, and why

* **Generated POGO classes and `main.cpp`**: tables and factories. The reading of device properties
  (`get_device_property`), which is generated too, and the client-mode device, which only makes and
  deletes its gateway.
* **Parsing of JSON**: done by Boost. A message is its keys and the shapes of their values; a text
  that is no JSON is one case.
* **Array arguments** of commands and attributes: their insertion into Tango's types is a long case
  distinction without state; only whether they are accepted is modelled.
* **WSTangoConnCli**: the destructor, and the proxies of group requests, which belong to a Tango
  group.
* **Tango** is what the code sees of it: calls that may fail, replies that come once, subscriptions
  that may fail and deliver a first event from inside `subscribe_event`, an unsubscription that
  waits for a running `push_event`. The subscriptions of one EventProcSer are one in the model.
* **websocketpp**: the client role, proxies, deferred HTTP responses and the HTTP handler, pings of
  the application with their pong timer, pausing of reads and `stop_listening`, which nothing here
  uses; what a size_t of 32 bits would change (`hybi13.hpp:945`), and a `start_accept` that cannot make
  a connection (`server_endpoint.hpp:130`), as `on_tls_init` always returns a context; the iostream,
  debug and stub transports; `permessage_deflate`, which the configuration does
  not enable; the hash functions, which stand as injective marks. In the handshake: request lines
  with an empty method and numbers of several words.
* **Logging**, except the action log.
* **The composition** of WSThread with EventProcCli and with several Connections: their seams are
  named above, their product is too large for TLC.
* The process crash that a data race may cause (WSThread, section 2).

## 6. Disagreements and doubtful behaviour

Two runs each show a disagreement with a comment of the code, quoted in `PROJECT.json`, `findings`:

* `server_tls`: `send_all` of the TLS server locks `m_connection_lock` unconditionally
  (`WSThread_tls.cpp:96`). When the first client opens, `on_open` holds that lock while
  `setNumOfConnections` subscribes to events, which sends on the same thread: the thread waits for
  itself. `WSThread_plain.cpp:86` describes this very deadlock as the reason for its `try_lock`.
* `events_repeated`: a normal event that was dropped because the lock was taken
  (`EventProcCli.cpp:58`) clears `_wasException` all the same (`WsEvCallBackCli.cpp:37`), so that the
  clients are told of two exceptions in a row, which the comment at `:18` means to avoid.

The following are behaviours of the models, or differences met while writing them, for which no
violation run is kept. Where a property would be untrue because of one of these or of the above, its
definition names the exception.

Connections and requests
* `maxnconn` is tested in `on_validate` (`WSThread_plain.cpp:36`) and the connection is counted in
  `on_open`: handshakes that overlap exceed the limit of `README.md:50`.
* A connection whose send has failed may come back to the active set by `addActive`
  (`WSThread.cpp:234`) before `on_close`; its TaskInfos hold proxies `checkResponse` has deleted
  (`WSTangoConnCli.cpp:157`), and they are asked again.
* Proxies leak when the device of a request refuses it (`WSTangoConnCli.cpp:267`) and when a
  connection closes with requests in flight (`WSThread.cpp:217`).
* `stoi` of `dimX` or `dimY` (`TangoProcessor.cpp:1266`) raises what nobody catches up to
  `run_undetached`: one message ends the server for all clients. Any exception there is reported as
  a busy port (`WSThread_plain.cpp:65`), also a DevFailed of `read_pipe` in client mode.
  For a spectrum `client_mode/README.md:277` says that `dimX` is set from the data; the key is read
  all the same.
* A group request for which no device could be asked (`TangoProcessor.cpp:157`) and a subscription
  to no attribute (`EventProcCli.cpp:510`) are never answered.
* `group_request` makes a command of a device in the group go to all of it
  (`TangoProcessor.cpp:125`), after a permission for that device only.
* A missing `device_name` is answered `not_supp_in_curr` (`ParsingInputJson.cpp:335`). A DEV_UCHAR
  argument is dropped (`TangoProcessor.cpp:1196`).
* A `stop()` before the server thread's `init_asio` uses a null io_service
  (`WSThread_plain.cpp:231`, `transport/asio/endpoint.hpp:653`).

Sessions
* `userCheckStatus` is not initialised (`ConnectionData.h:57`): in the modes that do not assign it,
  memory decides whether a user counts as checked.
* A change to the same login with a new password is confirmed and the password dropped
  (`WSTangoConn.cpp:297`); later permissions are asked with the old one (`README.md:98`).
* After an exception of AuthDS the log gets `isAuth` and `isGroup` swapped (`UserControl.cpp:70`,
  against the order of `README.md:116`).

Events
* One attribute under two event types: `eventreq_off` and the disconnection leave the first
  subscription (`EventProcCli.cpp:477`, against `client_mode/README.md:107`).
* Joining an existing subscription answers with an uninitialised `event_sub_id`
  (`EventProcCli.cpp:475`), which is to be of use for unsubscribing (`client_mode/README.md:103`).
* A client that joins a subscription in the state of an exception is not told of it before the state
  changes: repeats are suppressed for all clients together (`WsEvCallBackCli.cpp:19`).
* An exception event that was dropped because a lock was taken counts as sent
  (`EventProcCli.cpp:58`, `WsEvCallBackSer.cpp:28`): the next one is suppressed as a repeat.
* `from_event_sub` (`README.md:180`) does not reach a client of the plain server: it is sent inside
  `on_open`, so `send_all` finds the lock taken (`EventProcSer.cpp:89`).
* When the listened device fails to initialise, the first client makes EventProcSer subscribe
  through a null pointer (`EventProcSer.cpp:65`). `subscribe_event` is given the attribute with its
  options ("name;prec=3").
* Callbacks keep a WSThread that the destructor has deleted (`WsEvCallBackSer.cpp:43`, when the
  asio thread subscribes behind the destructor's test; `WSTangoConnCli.cpp:176`, whose destructor
  does not delete `eventProc` at all).

The device
* FAULT of a busy port is overwritten by ON (`server_mode/WebSocketDS.cpp:211`).
* `do_update` is cleared after the broadcast (`WSTangoConnSer.cpp:356`): an `UpdateData` meanwhile
  is lost; the next poll makes up for it.
* `wsTangoConn` dangles when Init runs again and the constructor raises, and is not initialised the
  first time (`server_mode/WebSocketDS.cpp:145`). A property that was deleted and has no default
  keeps its old value over Init.

Texts
* Strings are not escaped and non-finite numbers are written as they print: no JSON. An event of a
  "json" attribute whose data is no string has `"data":` with no value. A DEV_STATE element behind
  an unsupported one leaves a pipe's object half written.
* `dim_y` of a spectrum is not initialised (`MyAttributeData.cpp:24`), though the values are cut to
  `dim_x * dim_y` (`TangoProcessor.h:132`, against the comment above it): what is shown of a spectrum
  with set values depends on memory. The product may overflow too, which the standard leaves
  undefined; the model lets it wrap. A list of DEV_UCHAR is lost when it is negative.
* `__all_attrs__` reads nothing (`GroupOrDeviceForWs.cpp:80`, against `server_mode/README.md:15`),
  and together with names that have options writes through `end()` (`:95`). `; prec = 10` of
  `README.md:125` is not recognised with its spaces.
* An unavailable device of a group is a null `DeviceProxy` that is used (`GroupForWs.cpp:49`).

websocketpp
* `terminate` takes no lock: when it overtakes a `close` of another thread, that writes "closing"
  over "closed", and the close handler runs twice (`impl/connection_impl.hpp:1717`, against
  `connection.hpp:66`).
* `send` tests the state before it pushes (`impl/connection_impl.hpp:112`): a data frame may stand
  behind a close frame in the queue.
* A text in fragments may end inside a code point (`hybi13.hpp:537` asks for the last frame's
  opcode, against the comment above it), and the size of a message in fragments is summed in size_t
  and may wrap (`:457`). A non-minimal length is closed with `internal_endpoint_error`, as `to_ws` has no
  case for it (`processors/base.hpp`).
* A second, wrong close frame while closing is acknowledged with a second close frame
  (`impl/connection_impl.hpp:1993`). A local reason longer than 123 bytes is cut without regard to
  characters (`:311`, `close.hpp:322`).
* The limit of the head counts three bytes more for each line and each read
  (`http/impl/request.hpp:66`, against `http/constants.hpp:64`). The body of an upgrade request is
  read although a comment says it is not. Errors in the list of subprotocols are ignored.
* Version 0: the third key must come in the same read as the end of the request
  (`impl/connection_impl.hpp:875`); texts are not validated; a peer's close is a protocol violation
  (`hybi00.hpp:252`).
* A TLS context is made when a connection begins to wait, so a new certificate serves one
  connection later, and a bad one is only logged (`WSThread_tls.cpp:250`). `handle_pre_init` goes on
  after an error (`transport/asio/connection.hpp:474`). When the accept loop cannot be restarted,
  the wrong error is logged (`roles/server_endpoint.hpp:188`).

## 7. What could follow

1. **An abstract gateway**: "subscribed while connected" as a specification of its own, which
   WSTangoConnSer implements as long as the destructor and the asio thread do not meet. `Effects`
   and `Counted` are the mapping's invariant.
2. **Composition**: WSThread with EventProcCli (the order in which threads take `m_connection_lock`
   and `m_eventproc_lock`), and an abstract connection, implemented by Connection, in place of
   WSThread's `sock`.
3. **The client-mode device**: the destructor of WSTangoConnCli and the event thread that outlives
   it; proxies of group requests; device properties over Init.
