# Specifications of dmitigr_fcgi

TLA+ modules, TLC runs and TLAPS proofs about the server library of this
repository: the C++ FastCGI server in `src/fcgi`, with what it uses of
`src/net` and `src/math`.  `PROJECT.json` maps every definition to the lines it
models and lists the runs, the mutants that show each property can fail, the
findings, the hazards and the theorems.

## 1. The system

| component | source | state | operations |
|---|---|---|---|
| stream buffer, input side | `fcgi/streambuf.cpp` 204-312, 439-654 | get area, `buffer_end_`, `unread_content_length_`, `unread_padding_length_`, `is_content_must_be_discarded_`, `is_end_of_stream_`, `type_`; per call `header`, `read_header_length` | `underflow()`, `process_header()`, `reset_reader()` |
| stream buffer, output side | `fcgi/streambuf.cpp` 98-202, 314-437 | put area, `is_end_records_must_be_transmitted_`, `is_put_area_at_least_once_consumed_`, `is_end_of_stream_` | `overflow()`, `sync()`, `setbuf()`, `close()`, destructor |
| istream and ostream | `fcgi/streams.cpp` | the iostate | the constructor of `server_Istream` reads the parameters and goes on to stdin |
| server connection | `fcgi/server_connection*.cpp` | three stream buffers and their arrays, request id, role, parameters | `close()`, the destructor, parameter access |
| protocol records | `fcgi/basics.cpp` | none | `Header`, begin, end and unknown-type records, `Names_values` |
| FastCGI listener | `fcgi/listener.cpp`, `listener_options.cpp` | a network listener | `listen()`, `wait()`, `accept()`, `close()` |
| network listener | `net/listener.hpp` | socket, options | `listen()`, `wait()`, `accept()`, `close()`, destructor |
| descriptor | `net/descriptor.hpp` | socket | `read()`, `write()`, `close()`, `graceful_shutdown()` |
| named pipes (Windows) | `net/listener.hpp` 355-495, `net/descriptor.hpp` 209-275, `os/windows.hpp` | `is_listening_`, `pipe_` and the guards of handles | `listen()`, `wait()`, `accept()`, `close()` |
| byte order | `net/conversions.hpp`, `util/endianness.hpp` | none | `copy()`, `conv()` |
| addresses and endpoints | `net/address.hpp`, `net/endpoint.hpp`, `net/client.hpp`, `fcgi/listener_options.cpp` | an address, or a path | from a text to what `bind()` and `connect()` take |
| sockets | `net/socket.hpp` | the file descriptor | wrappers of system calls |
| alignment | `math/alignment.hpp` | none | `padding()`, `aligned()`, `is_power_of_two()` |
| the rest | `math`, `rnd`, `os`, `fs`, `util`, `base` | none of the server's | see PROJECT.json |

How they interact.  An application thread calls `Listener::accept()`.  It accepts
a socket, reads the begin-request record from it and builds a connection, whose
`in()` reads all the parameters before the constructor returns.  From then on one
thread owns the connection: it reads `in()` (stdin and, for a Filter, data) and
writes `out()` and `err()`, each an iostream over a `server_Streambuf` that calls
`io_->read()` and `io_->write()` of the descriptor.  The buffers know the
connection and through it each other: `close()` of an output looks at the buffer
of `in()`, and `underflow()` writes answers to the client by itself.  Reading is
re-entrant: a get-values record makes `underflow()` construct an istream over its
own buffer.  Threads share only the listener, and the process' descriptor numbers.
Processes share addresses and the paths of Unix sockets, which `listen()` takes and
only a destructor gives back.

What is hard in this code:

* `recv()` cuts headers, content and padding anywhere, and four counters carry
  the place from one call of `underflow()` to the next;
* the header under construction is a local of `underflow()`, the counters are
  not: `continue`, exceptions and the recursion each treat them differently;
* the end of a stream is a record, an iostate and a change of `type_`, and a
  Filter sees eof of stdin when the buffer is already on data;
* errors: an exception of `read()` or `write()` leaves the buffer in the middle
  of a record, and an iostream turns it into badbit and can be cleared;
* `close()` of three buffers in an order that matters, from the application,
  from the destructor of the connection and from the destructors of the buffers;
* several threads call `accept()` of one listener while another may close it, and
  the kernel uses descriptor numbers again; each of the many exceptions of
  `accept()` has to answer the client and give the number back;
* servers crash and come again, and meet what is left of them and each other: a
  path in the file system, connections in TIME_WAIT, a socket bound to the address;
* `DMITIGR_ASSERT` ends the process, so each of them is a claim of safety.

PROJECT.json lists the hazards one by one, each at its line.

## 2. The modules

`StreambufReader` is the input side.  Positions are absolute: `gptr = n` says
that `n` bytes of the connection lie before `gptr()`, so that compaction and
buffer addresses need not be modelled; `fetched` is the position of `buffer_end_`.
`wire` is everything the client has written, one token per byte that names its
record and its offset in it.  A header is whatever bytes stand where the reader looks
for one: at the first byte of a record they say what the record is, anywhere else
(`Readings`) what the client pleases, since it has chosen those bytes, and
`check_validity()` asks for the version alone (`Valid`).  That is more than a client
can do where such bytes reach into a real header, whose own bytes are given.
`underflow()` is one action per source block:

| code | action |
|---|---|
| entry, 204-213 | `Underflow` |
| `io_->read()`, 215-222 | `Read`, `ReadFails` |
| content, 227-243 | `Content`, `Discard` |
| padding, 245-257 | `Padding` |
| header, 259-275 | `Header` |
| `process_header()`, 501-637, and the switch, 287-310 | `ProcessInvalid`, `ProcessDiscarded`, `ProcessUnknown`, `ProcessGetValues`, `ProcessContent`, `ProcessEnd`, `ProcessUnexpected` |
| the nested `Names_values`, 561-608 | `NestedConsume`, `ValuesTruncated`, `ValuesUnread`, `ValuesOverflow`, `ValuesAnswered` |
| a failing `io_->write()` | `AnswerFails` |

Only `io_->read()` can block, so the client runs between any two steps.
`discard` and the header kept across `continue` are exactly those of the code:
`Loop` goes back to the block without clearing `hdrLen` or `header`.  `frames` holds the
headers of suspended calls.  The application's side are `Consume`, `Underflow`
when the get area is empty, `ParametersRead` and `ConstructorThrows`
(`server_Istream`, streams.cpp 36-54) and `Clear`.  The client's are `ClientSends`,
`ClientEndsStream`, `ClientSendsForeign` and, where it meets `Listener`,
`ClientPadsBegin`: the padding of the begin-request record, which `Listener::accept()`
leaves to the reader.  `AnswerRoom` says how many bytes of variables a get-values
record may ask for until the assertion at 590 may fail.

`RequestInput` is what the input side promises, with neither records nor
buffers: streams read one after the other, each in order, without a gap, to the
end the client gave it.  `StreambufReader` instantiates it as `Input`, the
refinement mapping reads off `wire`, `delivered`, `type` and `eos`.

`StreambufReaderProofs` and `ConformingClientProofs` hold the theorems about the reader
(section 4).

`ServerConnection` is the output side: the put areas of `out()` and `err()`, and
the order in which a connection closes and destroys its buffers.  The k-th byte
written to a stream is the number k, a byte of padding is 0.  `overflow()` is
`Overflow` (a byte that finds the put area full), `Flush` (`sync()`), and the
steps of `close()`: `CloseContent`, `CloseEnd`.  After `close()` has failed on
the way the flag 113 sets is still there and a flush goes on to the end records:
mode `"flush"`.  A stream that has been closed is used no more, except by `close()` and the
destructors: it is "unusable anymore" (streams.hpp:40), and a byte put into it or a flush
of it fails the assertion at 316.  What `close()` looks at of `in()` is `inType`, `inUnread` and
`inClosed`, driven by `InputAdvances` and `InputRefuses`; `SyncInput` is `in().sync()`,
which ends in `overflow()` of a reader.  A failed write and a short one are steps of their
own (`ContentThrows`, `ContentTerminates`, and in `CloseEnd`).  `MCServerConnection` holds its bounds.

`Response` is what the output side promises, with neither records nor put areas:
each stream arrives in order and from its first byte, its end is told once and only
when the client has all of it, and the end of the response once and last; the
client may leave at any time.  `ServerConnection` instantiates it as `Output`; the
mapping counts in `sent` the records that tell an end.  That `out()` and `err()` are
two buffers, closed in the order of `CloseOrder`, possibly by destructors, is not to
be seen in it.  `ServerConnectionProofs` and `ResponseProofs` hold the theorems.

`Listener` is a pool of threads over one `fcgi::Listener`: the owner's `listen()`
and `close()`, and per thread what goes on from `accept()` to the end of the
descriptor.

| code | action |
|---|---|
| `socket_Listener::listen()`, 236-273 | `ListenCreates`, `ListenStarts`, `ListenThrows` |
| `socket_Listener::close()`, 310-314 | `CloseListener` |
| `socket_Listener::accept()`, 291-308 | `AcceptCalled`, `AcceptBlocks`, `AcceptFails`, `Accepts` |
| `Listener::accept()`, listener.cpp 51-88 | `ReadHeader`, `ReadBody`, `ReadParams`, `ReadFails`, `Refuse` |
| the application and the end of the connection | `ServeReads`, `ServeEnds` |
| `~socket_Descriptor()`, `graceful_shutdown()`, `Socket_guard` | `Drain`, `DrainEnds`, `CloseSocket` |
| clients | `Connects`, `Sends`, `Ends`, `Aborts` |

Bytes are only counted here, and `says` is what a client's first record stands
for.  `table` is the kernel's: which socket or connection is behind a number; a
thread blocked in `::accept()` keeps the socket it found (`inside`), closed or
not, and a number is free once it is closed.  `AcceptCalled` reads `socket_`,
`AcceptBlocks` uses the number: the listener may be closed, and its number taken
by another thread's connection, in between.  `io` is the client the thread has
accepted, to compare with what the table says.  A closed connection is
forgotten and its client may connect again, so that the runs have no last
client; what is true of a connection when it is closed is stated by action
properties (`RefusalsAreTold`, `RequestsAreServed`, `NoReset`).
`Pool` is what the threads promise their clients, with neither sockets, numbers nor bytes:
a client waits, or is with one thread, which answers it at most once and as it has asked;
those who wait may be lost with the listener, who is with a thread is not.  `Listener`
instantiates it as `Promise`: who waits is who is in a queue (`Waiting`), whom a thread has
is `io` while it has a descriptor (`Accepted`).  The connection's
protocol behind the parameters is `StreambufReader` and `ServerConnection`.
`ListenerProofs` holds the theorems about it.

`PipeListener` is the listener of named pipes, used by one thread, and the
descriptors of its connections.  `PipeListenerProofs` holds the theorems about it.

| code | action |
|---|---|
| `listen()`, `close()`, net/listener.hpp 380-383, 455-462 | `Listen`, `Close` |
| `wait()` up to the connect, 388-404 | `Calls`, `CallsReady`, `Creates`, `CreateFails` |
| `ConnectNamedPipe()` and its answers, 406-416, 436-439 | `ConnectFinds`, `ConnectPends`, `ConnectFails` |
| the overlapped wait, 416-434 | `Connected`, `TimesOut`, `Cancels`, `WaitFails`, `WaitThrows` |
| `accept()` behind `wait()`, 448-453 | `Takes` |
| `pipe_Descriptor`, net/descriptor.hpp 209-275 | `Writes`, `Ends`, `Flushes`, `Disconnects`, `Closes` |
| clients | `Connects`, `Reads`, `Leaves` |

An instance of the pipe and its handle are one: `local`, `pipe` and `server` say
which guard has it, and `instance` what Windows thinks of it.  Between
`TimesOut` and `Cancels`, and between `WaitFails` and `WaitThrows`, a client may still
connect.  `events` counts the event
objects, which `wait()` creates and nobody closes.  `ReadFile()` leaves this state
alone, and a call that fails on a client that has gone only ends the connection.

`Endpoints` is where listeners listen.  Processes make a listener of some options,
let it listen, close and destroy it and crash; clients look for the endpoint.

| code | action |
|---|---|
| `Listener_options`, `Listener::make()`, net/listener.hpp 42-137, 208-224 | `Make` |
| `socket_Listener::listen()`, 236-273: to `bind()`, `::listen()`, the exceptions | `ListenBinds`, `ListenStarts`, `ListenThrows` |
| `close()`, 310-314 | `Close` |
| `~socket_Listener()`, `net_deinitialize()`, 211-215, 342-348 | `DestroyCloses`, `DestroyUnlinks` |
| the end of a process, of TIME_WAIT | `Crash`, `LingerEnds` |

`Address` is the way from the options' text through `Endpoint`, `Ip_address` and
`Socket_address`; `make_tcp_connection` is the same way taken by a client.  The
destructor closes and unlinks in two steps, `listen()` binds and listens in two,
and other processes run in between.  `files` is what is at each path: nothing, a
stale socket, or that of a process.  What the kernel does at `bind()` is in
`InetNames` and `Bindable`.  `EndpointsProofs` holds the theorems,
`MCEndpoints` the bounds.

`Codecs` is the bytes: a record, or a number, goes from the library to the client
or back (`LibraryWrites`, `ClientReads`, `ClientWrites`, `LibraryReads`), and a
stream of any bytes is read by `Names_values` (`ClientStreams`, `ReadLength`,
`ReadData` and the ways it ends: `StreamEnds`, `LengthMissing`, `DataMissing`).
Records are headers, end-request records with any application status and protocol
status, and unknown-type records.
The client's side is written from the protocol, not from the code: a number is
the digits whose weighted sum it is (`Weigh`, `Digits`), a status the two's
complement, a pair any of the forms its lengths may have (`Forms`).
`CodecsProofs` holds the theorems about it.

`Alignment` is `math::padding()` on the values the library passes.

## 3. The runs

| run | question | result |
|---|---|---|
| `reader_conforming` | a Filter, a client that keeps to one request, every split of every record: is every stream delivered whole, in order, ended exactly, no record refused, no assertion failed, no call stuck; does the reader implement `RequestInput`? | holds |
| `reader_any_record` | records of every other kind, paddings that may be taken for headers, interrupted `recv()`, a client that leaves: is anything delivered that is of another request before a padding that nobody skips, anything twice, is the recursion bounded? | holds |
| `connection_response` | a Filter that writes, flushes, reads, closes and destroys in any order, and leaves alone what it has closed: is the response complete, aligned, ended once and after its streams (does it implement `Response`), does an assertion fail, does destruction end? | holds |
| `connection_failures` | writes that throw or are short and are tried again, `pubsetbuf()`, a client that violates the protocol: is a byte sent twice, a record of a stream behind its end, or anything of the response behind the end of the request? | holds |
| `listener_pool` | two threads, two clients that come again, leave or abort, a listener closed and opened under the threads: has every number one owner, does every client get what its first record deserves, is it told, is none reset or forgotten; does the listener implement `Pool`? | holds |
| `pipe_listener` | two clients, three instances of a named pipe, timeouts that race a client, failures: has every handle one owner, is a client that was waited for accepted, does it read all of the response before it is disconnected, do calls return? | holds |
| `codecs` | all headers, bodies and numbers of two digits, all streams of up to seven bytes: do both sides mean the same, are the pairs those that the bytes encode, does the first value of a name stand? | holds |
| `endpoints` | two servers that share addresses, a wildcard and a path, one with IPv6, a name of a host and a port that is too long, and that start, crash, close and destroy in any order: is who listens with proper options reached by its clients, and nobody else by them, does `listen()` fail without need, do clients come to find somebody again? | holds |
| `stale_header`, `unknown_type_content`, `content_exceeds_buffer`, `listening_reported` | one finding each | violated |

Bounds.  `HeaderSize = 2` and `BufferSize = 3` stand for 8 and 16384: a header
may be cut inside and on both sides, a record is longer than the buffer, a
buffer holds the end of one record and the beginning of the next, and a record
that fits the buffer whole (`MaxContent = 2`, `MaxPadding = 1`) may be cut in all
its parts.  `MaxWire = 14` lets a Filter's client write and end all three streams
with content and padding in some.  In `reader_any_record` `Foreign` is full, and a padding
is as long as a header (`MaxPadding = 2`, `EndPaddings = BeginPaddings = {0, 2}`), so that
one which nobody skips is read as a header of any record; `MaxWire = 7` leaves room for such
a padding and a record with content behind it, or for three records.  `MaxAnswers` bounds
the records written back (1 there: every kind of answer is the first of some behaviour),
`AnswerRoom = 1` lets an answer outgrow its record; `MCMaxBytes` and `MCFewBytes` bound the
bytes the application writes.  `BufferSize = 16` is the smallest buffer the library's invariant allows
for output: a record holds 8 bytes, so that `out()` fills more than one and the
rest has to be padded.
`listener_pool` has two numbers (`MaxFd = 1`): with a listener and a connection
there is none left, so that `::accept()` fails for the other thread, and once the
listener is closed both threads serve at once, one with the number that has been
the listener's.  Two sockets let `listen()` meet the address of a closed one that
a blocked thread keeps.  A request is three parts, and each client may send one
byte more at any time, also behind `shutdown()`; `TrashSize = 2` makes draining
take two turns.  Clients beyond two and more bytes add interleavings of the same
steps: no action looks at more than one thread, one client and the listener.
`pipe_listener` has one instance more than clients, so that one is being waited for
while both are served, and five event objects, after which `wait()` fails: every
answer of `ConnectNamedPipe()` can be met before.  `MaxUnread` bounds what a client
leaves unread.
`codecs` has bytes of four values (`Radix = 4`), two of which begin a longer length
of one more byte (`High = 2`, `Lead = 1`; 256, 128 and 3 in the code): seven
bytes are up to three pairs, lengths in both forms, and every cut.  The sum of two lengths
wraps as int does; such pairs are longer than the streams, and refused either way.
`endpoints` has two processes, which is what a conflict takes.  Both may have the same address
and port, any host at that port, and the same path.  One has a path and a port of its own, the
other a path that is too long, another address of the machine at the same port, an address of
IPv6, the name of a host (bound to a port that the system chooses, which may be the first's), and
a port of more than 16 bits that is cut to that of the first.  Options that have to be refused
are tried.  Three stops of their own or crashes (`MaxStops = 3`) let each go and one come back
and go again, so that a path is left behind, found, unlinked and bound again while the other
runs.  Both kinds of systems are checked: those that make a Unix socket of protocol TCP and
those, like Linux, that do not (`UnixTcp`).  A stopped listener is always made again, so that
`ListenedAgain`, said of a process that is given the same options from some time on, does not
end with the stops.

Switches.  `RetryAfterError` lets the application clear badbit and go on;
`Signals` lets `recv()` and `send()` be interrupted.  They are off in the runs
whose properties the code does not keep then, and on in the others; where a
property fails with a switch on, the hazard in PROJECT.json says so.
`reader_any_record` runs without `RetryAfterError`: after a refused record its
content is still announced by `unread_content_length_`, and an application that
clears badbit is handed it.  `SetsBuffers` and `SyncsInput` let an application call
`pubsetbuf()` and `in().sync()`; they are off in `connection_response`.

Fairness.  `FairSpec` of `StreambufReader` has `WF_vars(Reader)`: a thread inside
`underflow()` is scheduled, and `recv()` returns when there are bytes or the
client is gone.  Nothing is assumed of the client or of the application.
`CallReturns` therefore speaks of calls after the client has written everything
or has left.  `FairSpec` of `ServerConnection` has `WF_vars(Teardown)`: `close()`
and the destructors, once entered, run on; `send()` returns or throws.

`FairSpec` of `Listener` has weak fairness of each worker: its calls return, the
application ends its requests and accepts again.  For a client it assumes that,
once connected, it sends its request or goes, which the code cannot enforce:
`accept()` has no timeout.  `MaxLater` also means that no client sends for ever,
without which `graceful_shutdown()` need not end.

`FairSpec` of `PipeListener`: calls run on, the application ends the connections it
serves, clients connect to a pipe that is listened to and read what they are sent.
`FlushFileBuffers()` waits for a client that does not read, for ever; the code has
no timeout there.

`FairSpec` of `Endpoints` has weak fairness of `Goes` per process: a listener that is
gone is made again and told to listen, and what has thrown is destroyed, as a
supervisor does that restarts its server.  Nothing makes a process stop, and nothing
ends TIME_WAIT.  `ListenedAgain` is kept without strong fairness because nobody but
the owner of an address keeps others from it.

Deadlock is not checked: an application may stop, a connection that is gone has
no further step, and the bounds end every behaviour.

## 4. The proofs

`StreambufReaderProofs` holds for every value of the constants the assumptions
admit: any buffer and header size, any role, any client, with read errors,
signals and retries.

* `TypeCorrect`: `Spec => []TypeOK`.  `TypeOK` says that no position lies beyond
  the bytes fetched.  It is not inductive: leaving a suspended call restores the
  position of its header, which must still lie within the bytes fetched, and a
  complete header must lie within them for `process_header()` to look at it.
  `TypeInv` adds both (`HeaderInv` and `RecursionConsumes`) and is inductive; one
  lemma per action, `StepTypeInv` combines them.
* `RecursionIsBounded`: `Spec => []RecursionConsumes`, the second part of
  `TypeInv`: a suspended call's header lies behind those of the calls it was
  made from, so that each level of the recursion has used up a header.
* `DeliveryIsInOrder`: `Spec => InOrderOnce`.  The invariant is `DeliveredBehind`:
  everything delivered lies at or before `gptr()`, and `StepForward` shows that
  no step moves `gptr()` back.
* `DeliveredIsOwn`: `Spec => []OnlyOwnRequest`, assuming that the application does not
  go on after an error, for every client.  `OnlyOwnRequest` says nothing of what
  is still to come, so `OwnInv` adds where a call of the application stands.  Until the
  reader has gone over a padding that nobody skips (`Astray`), a header begins where a record
  does, or such a padding (`Boundary`); what `unread_content_length_` counts is the rest of a
  content the application may read (`Announced`, `Fresh`), or the header is one that
  `continue` has left in place (`Repeated`), and then the record it is of is none of the
  stream's and everything up to an exception is discarded.  Behind such a padding nothing is
  claimed: the bytes a client has put there announce what it likes.  Calls nested in a
  get-values record need nothing but that their headers are those of such records
  (`Suspended`): they return or throw, and hand nothing over.

`ConformingClientProofs` assumes `ConformingClient`: no foreign records, content
that fits the buffer, no padding behind end records, no interrupted `recv()` and
no retry after an error.  Buffer, header, padding and wire lengths and the role
are arbitrary.  The first four assumptions are each necessary: sections 3 and 5
name the run, or the counterexample, that the property fails without.

* `DeliveryIsExact`: `Spec => []DeliveredExactly`,
  `NothingRefused`: `Spec => []NeverRefused`,
  `NoAssertionFails`: `Spec => []NeverTerminated`,
  `EofIsExact`: `Spec => []EofExact`.

The four share one inductive invariant, `Inv`, `TypeInv` and the following.
`Layout`, `Ordered` and `EndIsLast` say what the client has written: whole
records, in the order of their streams, nothing behind an end.  `Cursor` says
where the reader is in it: `RecordEnd`, which is `gptr()` and the two unread
counters taken together (and less a header that is not complete), lies between
two records, and the stream that goes on there is `type_`.  This is what makes
the split of a record by `recv()` harmless, and none of the four holds without
it.  `Undisturbed` excludes what a foreign record would lead to, `Ends` ties eof
to an end record directly behind the reader, and `GetAreaOwn` says that the get
area holds content of `type_` only, which `Consume` then turns into
`DeliveredExactly`.  There is one lemma per action; `StepInv` combines them.

The same module proves `ReaderImplements`, `Spec => Input!Spec` under the same
assumptions: with `Inv`, `Consume` is `Receives`, `ProcessEnd` is `ReportsEnd`,
the client's records are `ClientWrites` and `ClientCloses`, and all other steps
leave the mapped state alone.  `RoleInv` adds that only streams of the role
are met.

`ListenerProofs`, for any threads, clients, sockets, descriptor numbers, backlog
and sizes, with requests in pieces or not:

* `TypeCorrect`: `Spec => []TypeOK`,
  `DescriptorsHaveOneOwner`: `Spec => []DescriptorsOwned`.

`IInv` is both together with `Holds`, which says what a thread has in the places
where it uses it: a number while it calls, a socket while it blocks, a number and
a client afterwards.  Without `Holds` a thread could be at `"header"` with no
descriptor; without the types `Peer` would be no client.

About what the listener does for its clients the same module proves:

* `ServedClientsHaveBegun`: `Spec => []ServedHasBegun`,
  `NothingIsReset`: `Spec => NoReset`;

and when clients send their requests in one piece (`Fragments = FALSE`; with
`Fragments = TRUE` and `HeaderSize = 2` TLC finds `RequestsAreServed` violated):

* `EveryRefusalIsTold`: `Spec => RefusalsAreTold`,
  `EveryRequestIsServed`: `Spec => RequestsAreServed`.

The argument is that a connection is at one place, `OnePlace`: in one queue,
once, or with one thread, and in none while its client is new.  A step of a thread
then leaves all other threads' clients alone (`WorksOthers`), a step of a client
concerns one thread at most (`AloneOthers`), and what is forgotten with a socket
nobody refers to concerns none (`Carries`).  `ServiceInv` adds what a thread knows
of its client (`Read`: what decided its place cannot change any more; `Drained`),
and `AnswerInv` how far it has come with the answer (`Answering`): it ends
`Settled`.  `EndedBy` shows that nothing but the thread that has accepted a
connection ends it, so that the three action properties follow from what
`ServiceInv` and `AnswerInv` say of a thread that is about to close.

* `ListenerImplements`: `Spec => ImplementsPool`, with requests in pieces or not.
  `AskedInv` says that a thread which may still answer has not, that it refuses only what
  it has read of, and that what has been answered has been read: a client cannot change
  any more what it asks.  `Connects` is then `Arrives`, `Sends` is `Asks` until the answer
  and nothing afterwards, `Refuse` is `Refuses`, `ReadParams` `Serves` when it is the last,
  `Accepts` `Takes`, `CloseSocket` `Ends`; a socket to which nothing refers any more is
  `Drops`.  All other steps leave the mapped state alone.

`ServerConnectionProofs`, for any role, buffer, number of bytes and failure, with
retries, set buffers and clients that violate the protocol:

* `TypeCorrect`: `Spec => []TypeOK`, by `Types`, which is inductive once it knows
  that the put area fits behind the header, `PutType`;
* `RecordsAreAligned`: `Spec => []RecordsAligned`.  The lemmas about `padding()` are
  where the assumption that the buffer is a multiple of the alignment is used: a
  record that fills it needs none.
* `BytesAreInOrder`: `Spec => []InOrderOnce`.  A failed write leaves padding and the
  byte of `overflow()` in the put area, so that neither is what was written.
  `OrderInv` says what remains true: leaving out padding, what was received, what is
  in the put area and what is still to be written ascend.

`ResponseProofs`:

* `EndIsLast`: `Spec => []EndRequestLast`, without assumptions.  `Plan` says how far
  the closing has come: what is left to close is an end of `CloseOrder`, err() is done
  before out() may end, and a flush that ends a stream has an end that is due.
  Without it the end of a request could be followed by the end of err().  `EndInv` says
  that out() has ended when the request has, `StreamInv` the same of each stream and the
  empty record that ends it: a record is made only for a stream that has not ended.
* `AssertionsHold`: `Spec => []NeverTerminated` and
  `DestroyedConnectionsHaveEnded`: `Spec => []GoneMeansEnded`, assuming `Careful`: no
  signals, no call taken again after an error, no `in().sync()`; each is necessary
  (section 5).  `Calls` says that calls then fail only because the client has
  left, and `Reached` that closing a stream with the client there has told it.
* `OutputImplements`: `Spec => ImplementsResponse`, assuming `Gentle`: `Careful`, a
  client that keeps to the protocol and no `pubsetbuf()`.  `WholeInv` says that what was
  received and the put area together are what was written, `CountInv` relates the
  records that tell an end to the flags of the buffers; with them every action is a
  `Transfers`, `Ends` or `Finishes` of `Response`, or leaves the mapped state alone.

`EndpointsProofs`, for any number of processes, options, stops and crashes:

* `TypeCorrect`: `Spec => []TypeOK`;
* `ListenersAreFound`: `Spec => []ListeningIsReachable`, without assumptions: the property
  says itself which options are proper, and section 5 what becomes of the others.  The
  invariant is `Places`: a socket is bound to the address its process' options stand for, a
  path that only one is given is in use by that process, and no two sockets listen at one
  address, whatever their options.
* `ListenFailsIfTaken`: `Spec => ThrowsOnlyIfTaken`, likewise.  With `Places` the address that
  `listen()` of proper options asks for is one, of IPv4; what keeps a socket from it is a
  process bound where a client of either address would get to the other (`InUseBy`), and
  a file in the way is at the path of the options.

`PipeListenerProofs`, for any number of clients and instances of the pipe:

* `TypeCorrect`: `Spec => []TypeOK`, `HandlesAreOwned`: `Spec => []HandlesOwned`,
  `NoClientIsDropped`: `Spec => OnlyLateAreDropped`,
  `ResponsesAreRead`: `Spec => ResponseIsRead`, and `AcceptHasPipe`, that the assertion of
  `accept()` behind `wait()` holds.  All follow from `PipeInv`: `Guards` says what `wait()`'s
  own guard and `pipe_` hold at each place of the call, above all that `pipe_` is empty
  while a new instance is made, `Owned` that a handle is open exactly while it is in a guard
  and in one alone, and `Served` that a connection whose buffers are flushed has been read.

`CodecsProofs`, for bytes of any even number of values, any type codes, and lengths and
statuses of any number of bytes:

* `TypeCorrect`: `Spec => []TypeOK`,
  `RecordsAreUnderstood`: `Spec => []RecordsCarryValues`, by `CodecsInv`, which adds
  `Carried`: what the other side will make of the bytes on the way is what was meant.
  The lemmas under it say what the digits of a number are (`PlacesValue`, `PlacesKeep`),
  that a client who knows only the weighted sum finds the digits the library reads
  (`ClientDigits`), and each record's bytes (`HeaderRead`, `BeginRead`, `EndWritten`,
  where a negative status is its two's complement);
* `FirstValuesStand`: `Spec => FirstValueStands`;
* `PairsAreTaken`: `Spec => []PairsAreTheStream`, assuming `MaxStream <= IntMax`.  The
  invariant is that some `start` is `Taken`: the pairs are what the bytes before it encode,
  the lengths read so far are those behind it, and a refused stream has no whole pair there.
  That the bytes of a length have one reading is shown, not assumed (`FormAt`, `FormOnly`).
  The assumption is necessary: the sum of the lengths
  of a pair is an `int` (basics.cpp:418), so that a stream longer than `INT_MAX` may hold a
  pair that is refused.

What `Codecs` computes digit by digit or pair by pair is a recursive function.  The library's
induction theorems take an operator and cannot be cited here; `CodecsProofs` uses sets: a
set of numbers that is not empty has a least one (`Least`, from the well-founded order of
the numbers), so a set with 0 and with every successor is `Nat` (`Induction`), and there is
a function for every first value and every step (`Iterates`).

Only model-checked: liveness (`CallReturns`, `DestructionEnds`, `EveryoneIsHandled`,
`CallsReturn`, `ListenedAgain`), which with ENABLED is out of the prover's reach.
Every other property of the passing runs is a theorem.

## 5. Findings

Each is a run that TLC finds violated; PROJECT.json quotes the lines.

1. `stale_header`: the header of a discarded record is processed again in place
   of the next one (streambuf.cpp:211, 263-273).
2. `unknown_type_content`: the content of an unknown management record becomes
   input of the application (609-619).
3. `content_exceeds_buffer`: a record with more content than the buffer of
   `in()` ends the process (460, 634).
4. `listening_reported`: behind a failed `bind()` or `::listen()` `is_listening()` is true,
   and `listen()` tried again returns at once (net/listener.hpp:233, 238).

Seen while reading, without a run of their own.

Input (streambuf.cpp): reading the variables of a get-values record swallows the content of
the stream behind it (561-567), though basics.cpp:65 admits such a record at any
time; a record that asks for more than its answer has room for ends the process (590;
in the model `ValuesOverflow`); padding behind an end record is forgotten by
`reset_reader()` (with `EndPaddings = {0, 1}` TLC finds `NeverRefused` violated), and that of
the begin-request record is not skipped (listener.cpp:65-73; the same with
`BeginPaddings = {0, 1}`); where such a padding holds a header, with version 1 and the id and
type of the stream, what it announces is handed to the application as content, whatever it is
(basics.cpp:150-154; without its last disjunct TLC finds `OnlyOwnRequest` violated in
`reader_any_record`); a Filter that has read nothing of stdin, or stops between two
records, may close (111).

Output (streambuf.cpp): a request refused while reading is ended again by `close()` (542, 393-405);
`pubsetbuf()` drops the put area (171-173); `in().sync()` fails an assertion (316; with
`SyncsInput = TRUE` TLC finds `NeverTerminated` violated); after a failed write the
padding is left in the put area and sent as content (343-364); a `close()` that fails, a
successful flush and another `close()` fail the assertion at 118.

Listeners: a request whose first header, or begin-request body, is not received whole by one
`recv()` is rejected as a protocol violation (basics.cpp:122, 225; `Fragments = TRUE` in
`Listener`); `AF_UNIX` sockets are created with `IPPROTO_TCP` (net/listener.hpp:262),
which Linux refuses, so that no Unix path is ever listened to there; the path is removed
only with the listener, not by `close()`, and the destructor removes whatever is at
it, also another server's socket (347; without `Unshared` TLC finds
`ListeningIsReachable` violated in `endpoints`); `poll()` writes outside its set for numbers of
`FD_SETSIZE` and more (net/socket.hpp:363).

Addresses: the socket is always one of IPv4 (net/listener.hpp:244), so that an address of
IPv6, of which listener_options.hpp:64 speaks, is never listened to; a port of more than 16 bits
is accepted and cut (net/address.hpp:243), so that 65616 is bound to port 80; of a text that is no
numeric address there is a zeroed address, with which `bind()` succeeds for any host at a port of
the system's choice (255).  Without `Proper` TLC finds `ListeningIsReachable` violated in
`endpoints` by each of the last two.

Windows: `wait()` of a named pipe leaks its event object (net/listener.hpp:400), two threads in
`accept()` of one pipe race on `pipe_` (396, 444, 451), and the name of the options does not get
into the pipe's (361-366).

Bytes: `conv()` of data shorter than the type asked for is the number in network order only, on a
little-endian host it does not convert back (net/conversions.hpp:85); the sum of two lengths
of `Names_values` is an int (basics.cpp:418); `add(name, value)` copies neither (467-474).

## 6. What is left

Done: all components the server runs through; `RequestInput`, `Response` and `Pool` as what
both sides of a connection and the listener promise; and proofs about the reader, the
output side, the two listeners, the endpoints and the bytes.  Left, in this order:

1. A theorem that relates the parts: what `Listener` counts as a request is what
   `StreambufReader` begins with, which so far only the README says.
2. `aligned()` and `is_power_of_two()` against reference definitions, though no part of
   the server calls them.

Not modelled and not planned: intervals and statistics, random values, files, the
environment and the wording of errors, which no server code depends on; the version
and the library's glue, which the build makes; the content of the test servers'
responses.  Two threads in one `pipe_Listener` are not modelled, since nothing in
the repository makes the class safe for that; numbers beyond `FD_SETSIZE` are not,
since what `FD_SET` then writes is not determined by this code.  A failing `::close()`, behind
which a guard keeps its number (net/socket.hpp:256-259), is not, since systems differ in whether
the number is then still open; nor is the use of a closed stream, nor a text of IPv6 that
stands for an address of IPv4.
