# Verification of the RS-485 / MKO / PKU control system

The repository is a desktop GUI (Qt) and three gRPC microservices between it and
the drivers of three devices:

```
                      +-> rs  : Rs485Service (C++)  --> rs485 driver (C++ fake)
  gui (Qt, C++) ------+-> mko : mko-service  (Go)   --> mko driver   (Go fake)
                      +-> pku : pku service  (Py)   --> pku driver   (C++ plug)
```

Every arrow is gRPC.  Unary calls carry commands; server-streaming calls carry
what a device receives on its own (`Subscribe`, `SubscribeExchangeResults`,
`SubscribeOuCommands`).  The streaming paths are where the concurrency is: each
one passes its results through at least two threads or goroutines with a queue, a
channel or an event loop between them, and is stopped from another thread.  The
command paths are where the conversions are: what an operator typed goes through a
form, a text or a request, a validation and a driver, and comes back as one word on
the screen, with processes that may be lost on the way.  Section 1 is the inventory,
section 2 describes the modules, 3 the runs, 4 the proofs, 5 what is left out, 6
what a next step would be.

## 1. Inventory

### RS-485 service (`src/rs`)

| part | state | operations | what is hard about it |
|---|---|---|---|
| `Rs485ServiceImpl::Subscribe` (service/rs485_service.cpp) | per call: result queue, mutex, condition variable, `accepting_results` | start the subscriber, loop (`wait_for` 100 ms, pop, `Write`), stop the subscriber | one thread per call, all calls share one subscriber; locals are captured by reference by the worker's callback |
| `Rs485Subscriber` (client/rs485_subscriber.cpp) | `running_`, `context_`, `stub_`, `callback_`, `worker_`; no mutex | `start`, `stop`, `receiveLoop`, `notify` | a test-and-set of `running_` in two steps; `stop` joins; everything is written by handlers and read by the worker |
| `Rs485ServiceImpl::SendData` | none | validate, one request on a driver stream of its own, no deadline, map the response and the status | a response and a status that disagree; a driver that dies between them |
| `Rs485DriverClient` | channel, stub, the subscriber | `connect` once, `startSubscribe`, `stopSubscribe`, `sendData` | shared by all handlers |
| common, config, file reader | none | pure functions, one read of a file | the parser and the file reader are called by no program |

What makes it correct: one subscription at a time reuses the subscriber cleanly
(no undefined behaviour, no thread left); every packet reaches its client once and
in order; a call ends when its client leaves or its driver is lost; bytes to send are
transmitted at most once, and the caller is told what became of them.

### GUI (`src/gui`, and `src/rs/client` for RS-485)

| part | state | operations | what is hard about it |
|---|---|---|---|
| RS-485 tab `QtViewRS485` | `subscribed`, button text, status line, log; channel, typed bytes, chosen file | click on subscribe, typing, browsing, send, destructor | events posted by the subscribe thread are handled later than what the operator does; bytes and file exclude each other |
| `Rs485MicroserviceClient` | `subscribed_`, `stop_requested_`, `subscribe_context_`, callbacks, `subscribe_thread_`, `subscribe_mutex_` | `startSubscribe`, `stopSubscribe`, `subscribeLoop` | joins on the GUI thread a thread blocked in `Read` that posts to the GUI |
| MKO tab, `GrpcMkoClient` | OU subscription thread and its context; number boxes, tables of words, their files | KK and OU commands, load, save and reset of tables, OU subscription | like RS-485, with different rules of stopping; five conversions between a text and a word |
| PKU tab | fields, lists, what it displays | eight buttons, each a blocking call that carries one text | the text is cut at ";" on the other side, and so is the answer |
| application, factories, main window | object graph | construction | none |

What makes it correct: the GUI thread never freezes and never meets
`std::terminate`; the button and the status line tell the truth about the
subscription; results are shown in order and completely; what is reported as done is
what was on the screen.

### MKO service (`src/mko`)

| part | state | operations | what is hard about it |
|---|---|---|---|
| streaming handlers (transport/kk-server.go, ou-server.go) | the channel they range over, the call's context | `SubscribeExchangeResults`, `SubscribeOuCommands` | three concurrent stages per call with unbuffered channels; cancellation can hit any of them |
| logging decorator (logging/) | a goroutine and a channel per call | forwards items | must close its channel on every path |
| driver clients (transport/mko-driver-client.go, clients/) | a goroutine and a channel per call | receive from the driver | swallow the error of `Recv`; the KK one pushes without watching the context |
| unary commands, usecases, error mapping | none | validate, call the driver with a timeout, map errors | completeness of the mapping |
| `cmd/mko-service/main.go` | the server | serve, `GracefulStop` on a signal | waits for streaming calls that do not end by themselves |

What makes it correct: items are handed on once and in order; the end of the
stream does not overtake them; a cancelled call returns and leaves nothing; a
signal stops the process.

### PKU service and driver (`src/pku`)

| part | state | operations | what is hard about it |
|---|---|---|---|
| `CallingPkuService.SendCommand` (Python) | none | picks an executor by the number of the command, cuts the parameter at ";", converts, calls the driver, converts the answer | numbers that do not fit, pieces too few or too many |
| `ConnectingDriverCaller` | a channel made once | waits three seconds for the driver at start, decorates each call | a driver that is not there at start, or goes away in a call |
| `PkuDriverPlug` (C++) | durations and modes of 64 PKUs, durations of the RKs, main information | eight RPCs, carried out side by side | indices are not checked, nothing is locked, all is lost with the process |

What makes it correct: what the tab reports as done is what the operator meant, what
it displays is what was written, every button gives the GUI back, an index the
documentation allows has a place.

### The rest

Fake drivers, test clients, mocks, tests and documents are the environment and the
reference of the models (`PROJECT.json` lists each of them).

## 2. Modules

Each component has a module with its state and actions (`X.tla`), a module with
its properties (`XProps.tla`), a module that instantiates it for TLC (`MCX.tla`)
and a module with its proofs (`XProofs.tla`).  `PROJECT.json`
maps every definition to the lines it stands for.  Definitions whose comment begins
with "Mutant:" are not part of any specification: each is a plausible mistake in one
action, kept to show that the properties would notice it.

**`ResultPipe`** is the abstract specification that all the streaming paths share:
for every subscriber a source produces items, and the subscriber is given the next
item it has not had, until a final one.  It knows nothing of threads, queues,
channels and events.  `Rs485SubscribeProps`, `Rs485GuiProps`, `MkoStreamProps` and
`MkoGuiProps` instantiate it with a refinement mapping (`Pipe == INSTANCE ResultPipe
WITH ...`), and `PipeSpec` says that the detailed path implements it.  The first
three are properties of a run and theorems, that of the MKO tab is a theorem only.
Two more instances put a path and its client in series (section 4).

**`Rs485Subscribe`**: the gRPC handlers of `Subscribe`, the shared `Rs485Subscriber`
and its worker thread.

| code | model |
|---|---|
| `running_`, `stub_` | `running`, `stub` (set or not) |
| `callback_` | `callback`: the handler whose locals it captures |
| `context_` | `context`: the handler whose `start()` made it; `called`, `tried`: a call was made with it, `TryCancel` was called on it |
| `worker_`, a thread inside `worker_.join()` | `thread`: the handler whose `start()` made the thread; `joiner` |
| the threads themselves, in `receiveLoop` and `notify` | `worker[h]`: the place of the thread that h made; `uses[h]`: the context of its call; `target[h]`: whose callback it executes; `held[h]`: the result in its hand |
| handler thread in `Subscribe`, `start`, `stop` | `pc[h]` |
| `result_queue`, `accepting_results` | `queue[h]`, `accepting[h]` |
| the driver's stream, what `Read` consumed, what `Write` wrote | `source[h]`, `read[h]`, `sent[h]` |
| `ServerContext::IsCancelled` | `cancelled[h]` |
| undefined behaviour and `std::terminate` | `fault`: nothing happens once it is set |

The subscriber has no mutex.  What one statement of `start`, `stop`, `receiveLoop` or
`notify` does to one shared member is one step, and other threads run between two of
them: the test of `running_`, that of `joinable()`, the join, the four assignments, the
creation of the thread and its assignment to `worker_` are steps of their own, and so
are the test of `context_`, `TryCancel` and each of the three resets.  So a `start()`
may join the worker of a call that completed its own `start()` after the first one had
tested `running_`.  The inside of such a step is atomic: the assignment of a
`unique_ptr` or a `std::function`, the test of `callback_` and its call, each by itself,
the waiting in `join` and the end of it.  Where two of them are inside one member at
once the code has a data race, and the model has the orders of the two, no torn value.
Replacing or resetting `context_` under the call made with it is undefined behaviour,
which the model makes a cancelled call or the fault `freed_context`.  Operations under the
mutex of the queue (push, pop) are one step.  A `wait_for` that expires changes nothing
and is a stuttering step.  A second `join` of one thread throws `std::system_error`: the
model takes the exception, which is what the standard library of the platform does
when the thread was joined already; the case of two threads that are inside `join`
at once is treated alike.  Creating the thread may fail.  The driver may send any
result of `Results`, close with any status of `Statuses`, or do neither.  `Callers`
says who calls: `serial` (the next call arrives when the last has returned),
`one_client` (one GUI: it calls again when it has cancelled its last call) and
`many`.

**`Rs485Gui`**: the subscribe button of the RS-485 tab, `Rs485MicroserviceClient` and
its subscribe thread, and the event queue of Qt.  `gui` and `thread` are the program
counters of the two threads; `posted` is the event queue, `shown` what the log shows.
`context` stands for `subscribe_context_` and the two callbacks, which are set and
cleared together under `subscribe_mutex_`.  Qt usually dispatches posted events
before it looks for the next click, but does not promise it: `prompt`, chosen in the
initial state, says whether it does, and the one property that depends on it says so.

**`MkoStream`**: the two streaming calls of the MKO service.  A call is a chain: the
goroutine of the driver client (`reader`), the goroutine of the logging decorator
(`logger`) and the handler.  The channels between them are unbuffered, so a send and
its receive are one step of the model (`LoggerTakes`, `HandlerTakes`), and a stage
holds its item until then.  Items are their positions in the driver's stream:
`read[c]` is the last one the reader received, `logged[c]` and `sending[c]` are what
the next stages hold.  The layers between (usecase, service) hand the channel on.
`Signal` and `GracefulStop` are the shutdown of `main`.  Once the process has ended
nothing moves.  A write to the client of a call whose context is done fails.

**`MkoGui`**: the OU subscription of the MKO tab.  It differs from the RS-485 tab in
what matters here: `unsubscribe_ou_commands()` serves the stop, the start (which first
ends what was there) and the destructor, so `purpose` says what follows it; whether
the end of a stream is an error is decided by one read of the atomic
`subscribe_active` (`ThreadChecks`) after the read loop and before `Finish`; the OK
end of a stream calls nobody.  `active`, `context` and `thread` are the members of
`GrpcMkoClient`, `posted` the event queue of Qt, `shown` the log, `prompt` as in
`Rs485Gui`.

**`MkoCommands`**: the eleven unary calls of the MKO service.  A call goes from its
handler (`Reject`, `NotImplemented`, `Forward`) over the normalisation of the OU
service to one driver call with a deadline, or two for `GetStatus` (`stage`), and
comes back through the error mapping of its client and of `toGRPCStatus` (`OuCode`,
`KKCode`).  The two `Clear...Buffer` are one method.  A request carries the index, the
address, the subaddress and the number of words, those that nothing checks too.  Time advances in ticks of 500 ms from the start
of each driver call, so the deadlines are 4 (`unaryTimeout`) and 3
(`defaultKKCommandTimeout`) and the wait of the driver for its board is 3; `prompt`
says whether the network delivers within the tick and the driver keeps to its wait.
Calls share no state of the service and one call is an instance of the whole.
`applied` says whether the driver carried the request out, which the caller of an
expired call does not learn.

**`MkoTab`** composes `MkoCommands` with the form in front of it.  The calls in
`mine` are made by the tab, one after the other (the GUI thread is inside the
synchronous call), the rest by other clients.  `box` are the number boxes: they take
every int, because `create_spin_box` ignores its range, and `Cast` wraps a negative
one where the request has an unsigned field.  `table` holds the cells of the three groups that have words
(`ConfigureExchange`, `WriteOuSubaddress`, `SendRawOuData`) as texts, told apart by the base they are
written in, which is all that `WordValueValidator`, `toUInt` with base 0,
`parse_word_line` and `format_word` look at.  A table is typed into, reset, loaded
from and saved to a text or a binary file.  `Press` collects the words and makes
the call; `Show` logs the outcome.  The service may be lost in a call
(`ServiceLost`).

**`Rs485Send`**: the form of the RS-485 tab with its client, the service's `SendData`,
its driver client and the driver.  Every call opens a stream of its own to the driver
and writes one request; `wire` follows it: sent, transmitted by the board, answered
(a response was read), ended (with a status) or lost.  `reply` is what the driver
client has, `response` what the caller gets; `STATUS` stands for a call that ended
without a response, for which the GUI's client throws.  Service and driver may die
and start again at any step, and a request that was on its way when the service died
may still be transmitted.  The driver answers as the fake one does, or with any of
`OddAnswers`.

**`PkuDriver`**, **`PkuService`**, **`PkuTab`**: the first two are the pure parts.
`PkuDriver` says what the driver stores and what each handler makes of it (`Effects`)
and answers (`Answer`); `PkuService` converts a command number and the pieces of a
parameter to the driver's request (`SendCommand`) and an answer to the pieces of the
result (`Result`).  `PkuTab` is the state machine over them: the buttons, the one call
each client has in progress (`stage`: service, driver, inside, answer), the service
that starts once and may come up without its port (`deaf`), a driver that carries
calls out side by side, crashes, and starts again from its factory data.  `meant` is
what the operator asked for, `carried` and `saw` are history.  A text is one model
value per piece it is cut into, in the fields of an RK as in those of the main
information: no field keeps a ";" out.  A conversion of the driver gives the set of what
may be stored (`Converted`): a malformed text becomes bytes too few or of the full
size, and those, like a well-formed address with the byte 0x3B, are cut again where the
block is read, into `MaxPieces` pieces at most.  What a write outside the vectors or a data race does
is undefined: `spoiled` is set and nothing is claimed until the driver starts again.

| code | model |
|---|---|
| `parameter.split(";")` and its inverse in the GUI | sequences of pieces |
| `int(...)`, the check of the sign, the assignment to a uint32 | `Parse` |
| an RPC in the driver, between its start and its end | `stage = "inside"` |
| a request of a call whose service has died | `late` |

## 3. Runs

All "pass" runs check deadlock.  Where the system may really stop, because a process
is dead, closed or stopped or every call is over, the specification has a step of its
own for it that changes nothing.

| run | question | bounds |
|---|---|---|
| `rs485_serial` | is the shared subscriber reused cleanly, does the path implement `ResultPipe`, does a call end when it should | 2 calls, 1 data result per stream, then any status or none |
| `rs485_overlap` | what survives when two calls interleave on the unprotected subscriber | 2 calls, 1 element per stream: the end, UNAVAILABLE or INTERNAL, which becomes a result |
| `rs485_stream_end` | (violation) does the end of the driver's stream end the call | 1 call |
| `rs485_starved` | (violation) does an accepted call get packets | 2 calls of one client |
| `rs485_send` | is the operator told what became of the bytes, are they transmitted at most once, does the press return | 1 tab and 1 other caller, 2 edits of the form, 1 death |
| `gui_subscription` | ownership of the thread, truth of the button and the status line, order and completeness, no freeze, quiet after a stop | 2 subscriptions, 4 clicks, 2 results and an end per stream |
| `mko_stream` | order, completeness, ends and leaks of one streaming call of either kind; does `GracefulStop` return | 1 call, 3 items |
| `mko_stream_lost` | (violation) is the loss of the driver reported as `Unavailable` | 1 call, 1 item |
| `mko_gui` | is a stop ever reported as an error, ownership of the thread, truth of the button, no freeze | 2 subscriptions, 4 clicks, 2 commands and an end per stream |
| `mko_commands` | what is checked before the driver has it, what the caller is told, who gives up first, does every call return; what the success in the log of the tab means, is what was saved loaded again | 1 call, of the tab or of another client; 2 rows, 3 edits; both sides of every bound, every kind of answer |
| `pku` | is a success true, is what was written displayed, does the GUI come back | 1 tab and 1 other client, 3 PKUs and RKs, numbers up to 4, 2 pieces per field, 1 crash or stop |
| `pku_rk` | (violation) has every RK of the documentation a place in the driver | as `pku` |

Why the bounds are enough.  Two serial calls show every hand-over of the subscriber
(the second meets whatever the first left); two overlapping calls reach each kind of
`fault`, and one element on each stream is what could be handed out twice.  A stream of
one result and its end has the result in the hand of the worker, in the queue or
delivered while the end of the stream is on its way.  The MKO chain has three stages, so three items fill it.  Calls of the MKO
service share nothing but `GracefulStop`, so one call is enough for everything else.
In `gui_subscription` and `mko_gui` four clicks are start, stop, start, stop.  The
requests of `mko_commands` are the values on both sides of each comparison in the code;
two rows of a table show a word that slips to its neighbour, and three edits are a
load, a change and a save.  `Uint32` is scaled to 64, which leaves the addresses of
the bus (up to 30) exact and lets a negative number wrap.  In `rs485_send` two edits
are a file after typed bytes, or a channel after either.  The inputs of `pku` are
main information that is good, malformed, incomplete, with a ";" of its own in a
text, and with the byte of one in an address (that of another client too), RKs with the
first and the last number, with a duration that does not fit, with a ";" of their own and
with a field left empty, and selections of none, one and two PKUs out of order.  One crash of
the driver or stop of the service at any step meets a call at every stage.  For the
properties with a theorem in section 4 the bounds do not matter: they are proved for
all values.

### What the runs show

*RS-485 service.*  With serial calls no step meets undefined behaviour, the
subscriber is clean after every call however it ended, no result is lost, doubled or
reordered, and calls end on cancellation and on the loss of the driver.  With
overlapping calls the model reaches `std::terminate`, a null stub, a destroyed
context, a call made twice with one context and a callback into a handler that has
returned (so `NoFault` is stated for serial calls only); what survives is that no result is handed out twice and that
cancelling every call ends every call.  Two disagreements with what the repository
says: the end of the driver's stream with OK or INTERNAL does not end the call
(`rs485_stream_end`), and a call that arrives while another is still stopping is
accepted and never fed (`rs485_starved`), which one GUI achieves by stopping and
starting at once.

*RS-485 sending.*  "Sent" means that the driver transmitted exactly the bytes and the
channel of the form, once, and accepted them.  A failure is no false alarm while
nothing dies, because the service looks at the status before the response.  When the
driver dies the outcome is unknown to the caller, but nothing is ever repeated.  Two
things the model makes visible: a driver that answers with the default values gives a
failure with the code NO_ERROR, and `INVALID_CHANNEL_ID` is never produced.

*RS-485 tab.*  Stopping and closing never freeze the GUI thread, the thread and its
context are owned, errors are not masked, results are shown in order and completely,
and nothing is posted after a stop.  The status line may stop reporting the stop: a
result posted while `stopSubscribe()` waited is handled after it.  The button can be
stale when Qt lets a click overtake a posted end (`ButtonTellsTruth` assumes `prompt`).

*MKO service.*  The chain keeps order and completeness, the end of the stream never
overtakes an item, a cancelled call returns, a signal stops the process.  An OU call
leaves no goroutine; the KK reader, which pushes without watching the context, can
stay blocked for ever (`LeavesNothing` excludes exactly it).  A driver lost in the
middle of a stream is reported as OK, not as `Unavailable` (`mko_stream_lost`).

*MKO tab.*  An explicit stop is never reported as an error, whatever the moment at
which the stream ends, an error always gives the button back, the GUI thread never
freezes.  Two limits are written into `ButtonTellsTruth`: a stream that the service
ends with OK leaves the button offering to stop it, and, as in the RS-485 tab, the
button is right only when Qt lets no click overtake a posted event.  The form: the two
index boxes never show the same number, a success in the log means that the words and
numbers on the screen were carried out, and a table comes back from either file as it
was.  The properties name two exceptions.  A cell with a leading zero is validated as
decimal and sent as octal (`Unambiguous`; `010` is sent as 8, `09` as 0).  And a negative
subaddress in the group of `SendRawOuData`, which the service does not check, wraps:
-1 is logged as a success while 4294967295 was sent.
The boxes being different does not make the boards different: an index of 0 or less
is normalised to 1.  A line of a text file without a word is skipped and moves the
rest up, whereas a word of a binary file that is too large keeps its row as 0.

*MKO commands.*  What the service checks it checks before the driver has it
(`OuInputIsChecked`): the index of `ConfigureOu` and `SetOuResponseWord`, the address of
`ConfigureOu`, the subaddress of `ReadOuSubaddress` and `WriteOuSubaddress`, the number
of words of `WriteOuSubaddress`.  Everything else reaches the driver as it came, and
the property claims nothing of it: `SendRawOuData`, which is meant to be raw, the
address of `SetOuResponseWord`, and every KK call, whose index, address and number of
words may be any int of the form (`ConfigureKK`, `ConfigureExchange`).  OK means done, every call returns, and an OU call never gives up before a
driver that keeps to its wait.  The KK calls do give up at the same moment as the
driver, since both wait 1500 ms (`DriverIsHeard` excludes them).  `KKCode` also shows
that a KK call answers a lost driver, a driver that timed out and a method the driver
lacks with `FailedPrecondition`, where the table of `mko.proto` has a code for each;
the OU calls follow the table.

*PKU.*  A success means that the driver carried out the command with the values the
operator meant, for every button and whatever crashes; what is displayed as read is
what was last written; the GUI comes back from every button.  Neither of the first two
holds without exception, and these are the exceptions, each named in its property:
a ";" typed into a field of the main information or of an RK shifts what follows it,
unrefused ("1;2" and "5" are sent as RK 1 with the duration 2 and reported as done);
the byte 0x3B in a stored MAC or address is a ";" when the block is read and shifts
the fields behind it, which a malformed text of the full size can hold too (the IP
59.1.1.1.7); a malformed text has no value of its own to be displayed, and one stored too
short makes the main information incomplete; a description that is not ASCII is read
back as Latin-1, where `execution.tex:43` and `:64` promise UTF-8; durations come, and
are displayed, by the number of the PKU, where `pku_driver.proto:46-49` documents them
in the order of the indices asked for.  `pku_rk` is a defect: the
vector of RK durations is made with braces and has two elements, so every RK from 3 on
is written outside it.  The model also shows, without a property: a service that was
started before its driver never opens its port; a restarted driver has forgotten modes
and durations; the list offers one PKU too few; a number that does not fit a uint32 is
answered as an unknown command; a version is displayed without a look at success; a
lost driver is worded differently from what the documentation of the messages
promises.

### Fairness

`Rs485Subscribe`: weak fairness of every handler and of the worker, because the
operating system schedules every thread that can run.  No client has to call or
cancel, no driver has to send or to end.  `SendingSpec` of `MCRs485Subscribe` adds a
driver that keeps sending, for the one property that speaks of it.
`Rs485Gui`: weak fairness of the GUI thread (it goes through its handler and then
its event loop) and of the subscribe thread; none of the operator and the service.
`MkoStream`: weak fairness of the three stages of a call and of `GracefulStop`; none
of the driver, the clients and the signal.
`MkoGui`: as `Rs485Gui`.
`MkoCommands`, `MkoTab`: weak fairness of the service, of time, of the deadline that
gRPC enforces and of the handler that shows an answer; of the driver only where
`prompt` assumes that it keeps to its wait.
`Rs485Send`, `PkuTab`: weak fairness of the service or driver that has the call, and of
the tab's handler.  None of these calls but the first of the PKU tab has a deadline,
so they return only if who has the call works or dies; that a driver which hangs keeps
the GUI for ever is what the code does, and is not hidden: it is this assumption.  No
process has to start again after it died.

## 4. Proofs

TLAPS checks these for every value of the constants, under the named assumptions of
the modules: bounds are naturals, the kinds of results and statuses are those of the
code (`ConstantsAssumption`), tabs and other clients are different, requests hold
numbers (`RequestsAssumption`, `RawAssumption`), a box holds an int (`TabAssumption`),
what is selected was offered (`SelectionsAssumption`), a text has at least one piece
(`InformationsAssumption`, `RkInputsAssumption`), and the driver ends the stream of an answer with a status
(`AnswersAssumption`; gRPC delivers one, or UNAVAILABLE).

| module | theorem | statement |
|---|---|---|
| `Rs485SubscribeProofs` | `TypeCorrect` | `Spec => []TypeOK`, overlapping calls included |
| | `SerialNoFault`, `SerialReturnsClean`, `SerialWaitingCallIsFed` | the three invariants, for any number of serial calls |
| | `SerialStopIsBounded` | the `join` of `stop()` never waits for the driver, and for ten steps of the worker at most |
| | `OverlapAtMostOnce` | no result is handed out twice, for any number of overlapping calls |
| | `OverlapInOrder` | results of one stream given to one client come in its order, for any overlap |
| | `OverlapNeverStuck` | when all their clients have left, overlapping calls never wait for each other in a circle, whichever `stop()` or `start()` joins whose worker |
| `Rs485FlowProofs` | `SerialNothingLost` | written, queued and held are what was read, in order |
| | `SerialEndIsTold` | a call that its client did not end leaves its loop only after the client was given the whole stream and its end |
| | `SerialEndIsBounded` | a call that was cancelled or lost its driver never waits in vain, and has boundedly many steps left |
| | `SerialImplementsPipe` | `Spec => PipeSpec`: the path refines `ResultPipe` |
| | `SerialEndToEnd` | the path and a client that is a pipe itself are one `ResultPipe` |
| `Rs485GuiProofs` | `TypeCorrect`, `ThreadAlwaysOwned` | types; ownership of the thread |
| | `AlwaysQuietAfterStop`, `ButtonAlwaysTellsTruth`, `ErrorNeverMasked` | quiet after a stop; the button; the status line |
| | `TabImplementsPipe` | `Spec => PipeSpec`: the log shows the service's results, whatever is clicked when |
| | `WaitIsBounded` | the GUI thread never waits for the service, and for seven steps of the thread at most |
| `Rs485SendProofs` | `TypeCorrect`, `AlwaysOncePerPress` | types; nothing is transmitted twice or unasked |
| | `FailureIsAlwaysTrue`, `SentIsAlwaysTrue` | what a failure means; what "sent" means |
| | `PressIsBounded` | somebody can always go on with a call, for six steps at most |
| `MkoStreamProofs` | `TypeCorrect`, `StreamNothingLost` | types; order while a call is served |
| | `OkIsComplete` | an uncancelled call returns OK only when the driver ended its stream and the client has all of it |
| | `EndIsBounded` | after its end the three stages of a call never wait in a circle, and stop after boundedly many steps |
| | `StreamImplementsPipe` | `Spec => PipeSpec`, cancelled or not |
| | `StreamEndToEnd` | the chain and a client that is a pipe itself are one `ResultPipe` |
| `MkoGuiProofs` | `TypeCorrect`, `ThreadAlwaysOwned` | types; ownership of the thread |
| | `StopNeverAnError`, `ButtonAlwaysTellsTruth` | no stop is an error; the button |
| | `TabImplementsPipe` | `Spec => PipeSpec`: the log shows the service's commands |
| | `WaitIsBounded` | a click and the destructor never wait for the service, and for six steps of the thread at most |
| `MkoTabProofs` | `TypeCorrect` | the unary calls: types |
| | `OuInputAlwaysChecked`, `AlwaysToldTheTruth`, `DriverAlwaysHeard` | what the service checks of an OU call before the driver has it; what OK means; who gives up first |
| | `TabCallsAreSafe` | the three when the calls come from the form |
| | `AlwaysApart`, `OkIsAlwaysWhatWasShown` | the index boxes; what the success in the log means |
| | `SavedIsAlwaysLoaded` | a table comes back from either file, for tables of any length |
| | `CallIsBounded` | a call has an answer or a deadline not yet passed, and twenty steps at most |
| `PkuProofs` | `TypeCorrect`, `SuccessAlwaysTrue` | types; a success is what the operator meant, carried out, if no field had a ";" of its own |
| | `AlwaysReadsWhatWasWritten` | what is displayed as read is what was last written, up to the first field that may hold the byte 0x3B |
| | `CallIsBounded` | a call is never with a process that is gone, and has four steps at most |

*Serial calls.*  None of the three invariants is inductive: whether the worker may
be joined, or the context destroyed, depends on where the one call in flight is.
`SafeInv` adds, for every place of the handler, the condition of the shared
subscriber (`Shape`): which members are set yet, or still, from the first assignment of
`start` to the last reset of `stop`, that there is nothing to join in `start`, and that
worker, context and callback are those of the call; when no call is in flight everything
is clean.  The second call then meets exactly the initial
condition.

*Overlapping calls.*  Nothing of `SafeInv` holds then.  `OnceInv` does: each stream is
read by one worker up to its status, every result that is anywhere was read, and the
outputs, the queues and the hand of the worker are pairwise distinct.  That is enough
for `AtMostOnce`, whatever the callback points to.  `AllInOrder` adds the order: what a
client was given, what its queue holds and what the worker of the stream holds are,
stream by stream, ascending, so a callback that points to another handler can divert
a result but never bring it before an earlier one.  `OverlapNeverStuck` is about the joins,
where the `stop()` of one call, or a `start()` that tested `running_` before, may wait for
the worker of another: `WillCancel` says that
as long as the call to the driver is live some handler has its `TryCancel` before it,
and `JoinsWorker` that one handler at a time joins, and joins a worker that exists.

*The end of a call.*  `Told` follows the last element: a handler leaves its loop, with
its client still there, only through the empty queue after the loss was queued, so by
`FlowInv` the whole stream was written.  `EndsWell` says the same of the MKO chain, where
each stage ends only behind the one before it.  These two are the safety halves of
`DriverLossEndsCall`, `EverythingDelivered` and `EndIsDelivered`: a call that does end
ended completely.

*Flow.*  `FlowInv` says where the results are: the n-th element a handler wrote is
the n-th of its driver's stream, the queue continues where the output stops, the
worker holds the last one read.  The three lengths add up to `read[h]`.  With it
each step of the path is a `Produce`, a `Give` or a stuttering step of `ResultPipe`.

*In series.*  `SerialEndToEnd` and `StreamEndToEnd` are about the path and a client behind
it that reads what the handler wrote into a `log`.  The client is any behaviour of
`ResultPipe` from that output (`Client!Spec`), which is what `TabImplementsPipe` proves of
either tab from its own input; `Interleaved` says that a step moves the path or the
client, not both.  Then the driver's stream and the log are one pipe.  Both are
hypotheses: the tabs and the services are not composed in one module, and the item of a
tab is the result translated to data or failure.

*The tabs' subscriptions.*  `ThreadIsOwned` needs the type invariant with `Numbered`
(only a start spawns, and it leaves room for the number it takes) and the places of
the GUI thread in which a thread may exist (`Owned` in the MKO tab).  `StopIsNoError`
rests on `Blamed`: whoever cancels has cleared `subscribe_active` before, and only a
start of the next subscription, after the join, sets it again, so a thread that
leaves its loop and finds the flag set was left by its service.  The button of the
RS-485 tab rests on `Subscribing` (the flag is set only between a start and the
thread's report, a stop is requested only during a stop) and `ButtonInv` (with
`prompt`, an end that is posted means a thread that no longer lives, and without one the
button says whether it lives); that of the MKO tab on `Served`.  `ErrorInv` follows an
error from the thread over the posted events to the status line: it is shown or will
be, and only ends follow it.

For `TabImplementsPipe` the log, the posted events and what the thread holds are, per
subscription, consecutive positions of the service's stream, and the events are ordered
by subscription, because a subscription starts only after the last one was joined.  An
error line comes last, so the results shown are a sequence, and each event handled
appends the next one.

*Waiting.*  `GuiNeverFreezes` and `CancelEndsCall` are liveness, but what the code
does for them is safety and proved (`WaitIsBounded`, `SerialStopIsBounded`): a thread that
is joined has a cancelled call or only its report left, so nothing it does waits for
the other process, and every step it takes lowers `StepsLeft`.  The calls are treated
alike.  `SerialEndIsBounded` covers a whole RS-485 call, from its loop to its return: with
`OnceInv` a worker that reads has the loss of the driver still before it, and by
`ReadToEnd` one that ended left it in the queue, so the handler never polls in vain.
`PressIsBounded` and the `CallIsBounded` of the PKU tab say that a call is never
with a process that is gone, because the loss of either leaves a status; that of the MKO
tab, that without an answer the deadline is still to come.  `EndIsBounded` (for
`EndIsDelivered`, `CancelEndsCall` and `LeavesNothing` of the MKO streams) needs the most:
the reader waits for the decorator, that for the handler, and after the end some stage
is found that waits for none of the others.  A KK reader that pushes is excepted, its send
having no alternative (section 3).  What TLC adds in each case is that who can step does.

*Sending.*  `SendInv` has for every call where its request is (`OnTheWire`), that
nothing comes back as a success before it was transmitted (`NotYet`) and which verdict
the caller got (`Verdict`), and for every tab that the form stays what its call
carries until the answer is shown (`FormInv`).

*MKO streams.*  Items are numbered, so the invariant `Order` is one of counting: if the
client was given n items the handler holds the next one, the decorator the one
after, the reader the last.  While the context is live a stage ends only after it
handed on everything; once it is done items may be dropped, but what is written
stays a prefix.

*MKO commands.*  `CommandsInv` says for every call what it left behind so far: nothing
before it reached the service (`Untouched`), a checked and normalised request on its
way (`Passed`), an answer that comes from the driver (`Honest`), and a clock that is
that of the driver's work on a prompt network (`Timed`).  `TabInv` adds that every cell
of the form passed the validation or a conversion (`FormOK`), and that between the
press and the answer the form is the one the call was made from (`AskedInv`).  Three lemmas
carry the arithmetic: `CastIsExact` (a wrapped number is no address of the bus),
`OctalIsSmall` and `CollectedIsShown`.  For the files, `SavedInv` keeps with each file the
table it was saved from, which was valid: every row then has its line, so the n-th line
with a word is row n (`NthOfAll`), and a word reads back from its hexadecimal text as itself.

*PKU.*  `Meant` says that the service makes of what a button asks what the operator
meant, or refuses it, if no text of it had a ";" of its own (`Uncut`).  It is proved for each button from the conversions themselves:
for the main information from `SixPieces`, by which six non-empty fields that arrive
as eight pieces are one piece each and in their order, and for an RK from `SendRkMeant`,
which has the same of two fields and three pieces.  `CallInv` carries it along the
call: a request on its way is that conversion, and a success was carried out.
For the way back, `StoreInv` says that the driver's main information is the conversion
of what was last written (`StoredAs`) and that no handler changes a duration, and
`AnswerInv` that an answer was made from the store of that moment.  A stored field has one
piece or more (`ConvertedPieces`), and in the block each field begins in its place as
long as those before it are one piece (`BlockInOrder`), so the tab shows it there.

Every invariant and every action property of a passing run, and each refinement, is a
theorem.  Out of the prover's reach, and left to TLC, are the leads-to properties, which
need fairness and `ENABLED`: `CancelEndsCall`, `DriverLossEndsCall`, `EverythingDelivered`,
`AllCancelledReturn`, `GuiNeverFreezes`, `EndReachesButton`, `EndIsDelivered`,
`LeavesNothing`, `StopCompletes`, `ErrorReachesButton`, `CallReturns`, `TabComesBack` and
`PressReturns`.  What a recursive definition computes for every input would be out of
reach too; no module that is proved about has one.

## 5. Abstractions, and what is not modelled

* A result is its kind and its position, not its words; `CodeOf` maps kinds to the
  codes of the service.
* Data races on the non-atomic fields of the RS-485 subscriber are reads and writes
  of whole members in some order: torn values, and two resets of one pointer that both
  free it, are not modelled.  With overlapping calls these are undefined behaviour like
  the faults that are modelled, after which nothing is claimed.
* The destructor of the subscriber calls `stop()` when the process ends; the service
  has no way to end while it serves, so that call is left out.
* `connect` of the driver client is done once before the server starts, so
  `Rs485Subscribe` begins connected.
* `Finish` that races with a cancellation may return either status.
* A `Subscribe` request that is refused before the subscriber is reached is left out.
* `Rs485Send`: a typed word is a byte or is not one; the file path is read-only in
  the form, typing clears it and browsing clears the bytes, so the form never shows
  both.  The log has no bytes when the client throws.  Error texts are left out.
* `MkoTab`: a failed write of a file is left out; the tab cannot cancel its call.
* `PkuTab`: no data are followed after a write outside the vectors or a race; the
  driver's 64, 48 and 151 are constants or pieces; operator texts are model values.
* Not modelled: configuration files and their loaders (read once, no state
  afterwards), the construction and layout of the main window, `rs485_file_reader` and
  the parser of `rs485_utils` (called by no program of the repository), error texts
  and logging, what fake drivers make up, test clients beyond the calls any client may
  make, mocks, tests and documents.

## 6. What is left

Every component that keeps state or decides something is modelled.  Worth doing next:
one end-to-end composition of `Rs485Gui` with `Rs485Subscribe`, whose theorems are the
hypotheses of `SerialEndToEnd`: a module with both, where the tab's `source` is what
the handler wrote and its cancellation is the handler's.
