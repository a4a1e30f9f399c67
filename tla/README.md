# TLA+ models of dev-cpp

dev-cpp is a small collection of C++ libraries and experiments: a cyclic
buffer, a compact TCP/IP library built on it, an octree, an endian coder, an
ElGamal coder, and three experiments (a frame dumper, an HTTP sniffer, a
lock-step counter). This directory holds TLA+ modules translated from that code,
TLC configurations that check them on small instances, and proofs checked by
TLAPS. Paths below are relative to the repository.

`tlc -config X.cfg M` runs a configuration, `tlapm MProofs.tla` checks the proofs.
PROJECT.json lists the runs, the map from definitions to lines of code, the
mutants (a deliberately wrong variant of a definition for each property, kept
next to the definition and marked `Mutant:`), the hazards, the findings and
the theorems.

## Inventory

| component | state | operations | talks to | what makes it correct |
|---|---|---|---|---|
| `cycbuf` (`lib/datastruct/cycbuf`) | `mpHead`, `mpTail`, `mBuf` | `readcopy`, `writecopy`, `getReadHead`/`pushReadHead`, `getWriteTail`/`pushWriteTail`, `reset` | used by `netdataraw` | it is a bounded FIFO of bytes; a pointer it hands out stays good until it is given back |
| `netdataraw` (`tcplib/netcommon`) | `mSendBuf`, `mRecvBuf`, socket | `send`, `recv`, buffer access | sockets, server callbacks, client | what comes out at one end is what went in at the other; `recv` leaves nothing unnoticed |
| `server` | `mClients`, `mUserReadFds`, `mfdAll`, `mfdMax`, `mSocket`, `mCliLock`, callbacks | `init`, `term`, `disconnectClient`, `disconnectAllClients`, `captureUserReadFd` | select loop, callbacks, application | records, descriptor set and open connections agree |
| `serverasync`, `serversync` | the select loop: thread or caller's thread, `sessionStop` | `waitForClients`, `selectLoop`, `selectProcess`, `term` | `server`, kernel | everyone is accepted, read and let go of; the loop ends with `term` and only then; `term` returns |
| `doubletime` (`inc/helpers.h`) | none | pure function | select loop | grows to its limits and stays there |
| `client`, `netnode`, `netaddress` | socket, address lists, the selected entry | `init`, `connect`, `setLocal`, `term`, `selectInfo` | system calls | a working address is found if there is one; nothing is left open |
| `tcplib/test/main.cpp` | the two applications | callbacks, console loops | `server`, `client`, `netdataraw` | it is where the calling sequences come from |
| `logger` | file, indentation | log lines | everyone | formatting only |
| `octree` | bounds, items, children | `Add`, `promote`, `Query` | none | a query finds the items around a point |
| `becode` | byte order | IEEE 754 encoders and decoders, swaps | none | decoding undoes encoding |
| `elgamal` | key pair | `encode`, `decode`, `doModulo` | none | decoding undoes encoding, arithmetic does not wrap |
| `ethframe` | `gEthFrames`, `gmtxFrm`, `gcvFrm`, `gStop` | receive and push, log and pop, `end` | two threads | every frame is printed once, in order; `end` returns |
| `simplecount` | `gCount`, two flags, two locks, two condition variables | count, print | two threads | counts and prints alternate |
| `pcaphttpsniffer` | upper-layer buffers, one HTTP buffer | packet callback, `goQuick` | libpcap | messages of different connections are not mixed |

The components interact so: a `serverasync` (or `serversync`) loop selects on
the listening socket, the accepted sockets and the user's descriptors, accepts
connections and makes a `clientrec` of each, whose transfer class (a
`netdataraw`, two `cycbuf`s) the application's callback creates. The loop calls
the application for data and for console input; the application calls back into
the server (`disconnectClient`) from there, or from another thread (`term`).

The hard parts are the iteration over `mClients` while its callbacks change it,
the part of it that is not under `mCliLock`, `term` against a running loop, the
regions of a cyclic buffer held across calls of the other side, `send` and
`recv` over a wrapped buffer, and the condition variables of the experiments.
PROJECT.json `hazards` has each at its line, with the properties that cover it.

## Modules

| module | models | kind |
|---|---|---|
| `CycBufOps` | the methods of `cycbuf` as operators on `[head, tail, buf]` | operators |
| `ByteFifo` | what a cyclic buffer promises: a bounded queue of bytes | abstract specification |
| `CycBuf` | one buffer and a producer and a consumer that use every method | state machine, refines `ByteFifo` |
| `CycBufProofs` | the theorems about `CycBuf` | proofs |
| `ServerOps` | class `server`'s data and the bodies of its methods | operators |
| `Server` | the select loop, the application, the clients and the kernel | state machine |
| `MCServer` | `Server` with three clients, and the behaviours each of its runs is about | TLC |
| `OpsProofs` | lemmas on `CycBufOps` and `ServerOps`, for the four modules of proofs about buffers and servers | proofs |
| `ServerProofs` | the theorems about `Server`, and about the timeouts of its loop (instance `Wait` of `Algorithms`) | proofs |
| `NetData` | two `netdataraw`s over a connection; uses `CycBufOps` | state machine |
| `NetDataProofs` | the theorems about `NetData` | proofs |
| `EthQueue` | the frame queue of `ethframe` and its two threads | state machine |
| `NetAddress` | class `netaddress`: what a name was resolved to and the address in use | operators |
| `Endpoints` | set-up and tear-down of `client` and of the two servers, with failing system calls; uses `ServerOps`, `NetAddress` | state machine |
| `MCEndpoints` | what names are resolved to | TLC |
| `EndpointsProofs` | the theorems about `Endpoints` | proofs |
| `QuickHttp` | `goQuick` of the sniffer, over an explicit heap | operators |
| `Sniffer` | the sniffer: packet callback, endpoints, upper-layer buffers; uses `QuickHttp` | state machine |
| `MCSniffer` | payloads, interchangeable connections | TLC |
| `SnifferProofs` | the theorems about `Sniffer` and `goQuick` | proofs |
| `Octree` | class `Octree`: `Add`, `promote`, `Query`, `Reset` and the cubes | state machine over recursive operators |
| `MCOctree` | a cube and items of all sorts | TLC |
| `BeCode`, `ElGamal`, `DoubleTime` | class `becode`; class `CElGamal`; `doubletime` of `helpers.h` | operators |
| `Algorithms` | these three over ranges of inputs | state machine |
| `MCAlgorithms` | keys and limits | TLC |
| `SimpleCount` | the two threads of `simplecount` | state machine |
| `EthQueueProofs`, `SimpleCountProofs` | the theorems about `EthQueue` and `SimpleCount` | proofs |

### CycBuf

Pointers are offsets from `mpStart`; `mpEnd` is `Size - 1`. As in the code the
cell under the tail and the cell at the end never hold data, so a buffer of
`Size` bytes holds `Size - 1` when its data does not wrap and `Size - 2` when it
does. This asymmetry is why `ByteFifo!Write` may stop one byte short. The ready checks
move a pointer that reached the end back to the start; they are part of every
method that calls them. `readcopy` and `writecopy` are recursive in the code; the
model makes two chunks, and `TwoCallsSuffice` checks that the third call would
find nothing. The direct access calls are two actions with the pointer the
caller keeps in between (`rd`, `wr`) and the bytes it has put there (`fill`), and
the other side may do anything meanwhile.

### Server

A vector is its memory and its size, because the range-for over `mClients` goes
on to the end it took before an `erase`, and reads what is left there. A record
is its `mSocket` and the socket its transfer class was given. Descriptors are
numbers, the lowest free one is taken, and a closed one is reused, as in the
kernel.

`threaded` tells `serverasync` from `serversync`; their loops are the same but
for the lock around the registration of a new client and for what `term` waits
for. Steps of the loop are cut where another thread can be seen: copying the
set, entering and leaving `select`, `accept`, registering, `push_back`, each
record of the walk, the callback, `disconnectClient`. `term` is cut into taking
the lock, the walk of `disconnectAllClients` that ends with the lock's release,
closing the listener (which may fail), clearing the rest, and the wait. The
callbacks are those of `test/main.cpp`, reduced to what they do to sockets and
records: `onClientData` reads until there is nothing left, and calls `disconnectClient` when the client
has hung up. With `AcceptedBlock` it waits on a socket with nothing to read, as on Linux, where the sockets `accept` gives
block whatever the listener does; without it `recv` comes back. The callback for the user's descriptor stands for any
application's that reads its input and leaves the server alone. `select` fails for a closed descriptor only: the program
installs no signal handler and its timeouts are proper.

Undefined behaviour (a `push_back` while another thread walks the list, the
erasure of `end()`) leads to the location `undefined`, which has no step. The
variable `raced` is TRUE once a `term()` met such a step or a connection that was being accepted; the
properties that cannot hold then name it.

### NetData

The bytes are numbered, so the received stream can be compared with what was
given. The sender is the loop of `climain`: `getSendBuf`, a block, `commitSendBuf`,
`send`, and on after `ndstate::fail`. `send` is cut into its regions and each
region into the `::send`s the socket takes. The receiver is `onClientData` and
`onClientDisconnect`: `recv`, then `getRecvBuf`/`clearRecvBuf` until nothing is left,
then `recv` again if the buffer was full. `recv` is cut into its two `recvnow`s,
with the sender at work in between.

### EthQueue

Each access of either thread to the queue, to `gStop` or to the mutex is a
step; `wait` releases the mutex, may wake for no reason, and takes the mutex
again. `start` may fail, and then `main` returns with a thread that was not
joined (`aborted`).

### Endpoints, NetAddress

`Server` starts from a server that listens; `Endpoints` is how it gets there and back, and how a
client does. The application calls `setLocal`, `init`, `connect`, `term` (client), `init`,
`waitForClients`, `captureUserReadFd` to add and to release any descriptor, `term` (server) in any order, over any number of
lives of the objects. One action is one call: the methods run in one thread and share nothing.
Within a call every system call may fail: `getaddrinfo`, `socket`, `inet_ntop` on a family
that has no text, `bind`, `listen`, `fcntl`, `close`. `ServerInit` names the step that fails (`Steps`) and
takes back what `server::init` and the `init` around it take back at that point.

The server's record is that of `ServerOps`, so `Listening`, `Captured`, `Closed`, `AllDisconnected` and
`Forgotten` are the same operators that the select loop's module uses. Before `init` or `term` cleared it, `mfdAll` holds anything.
`socket()` may return any number that is not the socket of an object, captured numbers included, because the application
opens and closes descriptors of its own. `fdt` is the process's table of
sockets. An address is its family, a list of addresses a sequence of families. `aborted` is
`std::terminate`: `serverasync::term` joins a thread that was never started or was joined before.

### QuickHttp, Sniffer

A packet is its connection, the side that sent it and its payload, a sequence of units that are
numbered per connection and carry what the HTTP parser makes of a buffer that begins with
them (`kind`) and whether they end in an empty line (`end`). Blocks of memory are explicit: the heap, and the
pointers of the keyword list, of every upper-layer buffer and of `goQuick`'s buffer. `Capture` is the whole
callback: `getEndpoints` with the change of direction, `getULBuffer`, the hand-over of a finished
turn to `goQuick`, which may parse and free it, and `extendULBuf`, with at most one failing allocation.
`Start` and `Stop` are `main` on either side of `pcap_loop`.

### Octree

A node is its bounds, its items or its eight children; `Add` and `Promote` are mutually recursive as
in the code. Coordinates are whole multiples of `1/Scale`. The borders of the trees are powers of two, so that a float's
halves are exact; the `FLT_MIN` that is taken off the upper border of a child matters to a float at 0 only, where it is one
unit. `isItemInBoundsPartial` counts in `int` over the corners: `Loops` has the points it comes to (`Trunc` takes
the fraction off at each step), and whether a step is 0. A call that never returns leaves the tree `Hung`. The
program of the model makes one of two trees, adds items in any order and may reset the tree.

### BeCode, ElGamal, DoubleTime, Algorithms

Pure functions; the loop of `doModulo` is a recursive function. A word is its bits; memory is its octets; a machine is its byte order and whether its
`char` is signed. `CElGamal`'s types are their width and sign, and `rand()` is a parameter, so that
`CipherIsInverted` is about every random number; messages are below the prime, as `encode` asserts. The
encoders' buffers are there and large enough. `Algorithms` walks through floats, messages and
the timeouts of a select loop that idles or is busy.

### SimpleCount

Each access to a flag, each lock and unlock, each half of `wait` is a step, as the two threads set their flags
under neither of the locks. Wake-ups may be spurious, and a notification nobody waits for is lost.

## Runs

| run | configuration | what it shows | bounds |
|---|---|---|---|
| `cycbuf` | `CycBuf.cfg` | the buffer implements `ByteFifo`; held regions stay good; an empty buffer has room, a full one has data; free cells are zero; two chunks finish a copy | 5 cells: data wraps with 0, 1 and 2 cells on either side of the end; 2 byte values; requests longer than the buffer |
| `mcserver` | `MCServer.cfg` | records, set and connections agree; the loop ends only with `term`; a `term` that was not raced leaves nothing open; nobody is dropped early | 3 clients, the smallest number with a stale slot in front of a client not visited yet, symmetric; user descriptor 4, with sockets below and above it |
| `server` | `Server.cfg` | everyone is accepted, read and let go of, as long as callbacks return; `term` returns when nobody races it and clients leave some day | 3 clients, blocking sockets |
| `netdata` | `NetData.cfg` | the stream is exact; without gaps after a retried failure; `recv` leaves nothing unnoticed; all is delivered | buffers of 3 usable cells, 6 bytes (two times round), a socket of 3, one failure to be retried, a break at any time |
| `ethqueue` | `EthQueue.cfg` | printed in order, once; no front of an empty queue; all printed before `end`; `end` returns outside its window | 4 frames |
| `endpoints` | `Endpoints.cfg` | no call, however it fails, loses a socket; sockets, addresses and watched descriptors agree; a failed `init` changes no socket | 3 resolved lists (one address, two, one without a text); sockets 3 and 4, user descriptors 0 and 4, so that a captured number may be a socket's |
| `sniffer` | `Sniffer.cfg` | every block has one owner; connections and turns are not mixed; what was stored is handed on once, in order | 2 connections, 4 payloads, up to 2 keywords, 4 packets, 1 failing allocation, sizes modulo 3 |
| `octree` | `Octree.cfg` | leaves list their items; the order of additions leaves no trace; queries are sound | 2 trees, (-2 .. 2)^3 and (-4 .. 0)^3; 3 of 11 items, one of each way to lie in a cube, three with fractional corners and a flat one; 64 points |
| `algorithms` | `Algorithms.cfg` | decoding undoes encoding (floats, ciphers); the timeout grows to a limit in one unit and stays | numbers up to 3000/16, zero included; 4 keys, every message and random number; 8 limits, timeouts up to 1000 s |
| `simplecount` | `SimpleCount.cfg` | the threads stay within one round of each other | 8 numbers |
| `server_thread`, `sniffer_quick` | `ServerThread.cfg`, `SnifferQuick.cfg` | findings, each a counterexample | as small as shows it |

`MaxUnread`, `MaxFrames`, `MaxFails`, `Total`, `WireRoom`, `MaxRequest`, `MaxPackets`, `MaxKeywords`, `MaxItems`,
`MaxNumber`, `MaxCount`, the 1000 seconds of `Timeout` and `Tiny` are bounds of the model, not of the program. `Wrap` is 2^16 in
the program and 3 in the run, so that a buffer's size wraps after a few units. The sizes suffice
because the cases are small: the smallest list with a slot behind its end needs two clients and a
third to be missed; two connections are enough to be mixed, and a turn, an answer and a turn of the other
connection are three packets; an item that splits a leaf, one that was there before and one that
comes later are three; the rounds of `simplecount` repeat, so a thread that gains a round
does so within two or three. Deadlock is not checked where the program may stop:
a server after `term`, both ends of a connection, `ethframe` after `end`, a process that was
aborted, a sniffer that has exited, inputs that were all tried, and `simplecount`, whose
threads may really wait for each other for ever (below).

### Fairness

- `Server`: weak fairness of the loop, because `select` always has a timeout and
  the thread runs; of `term` once it was called. Clients need not do anything,
  `term` need not be called. `Unraced` of `MCServer` is the same without a raced `term`, which both properties let go
  of, and without console input, which no step of another kind looks at.
- `NetData`: weak fairness of `send` between its regions, of `::send` when the socket
  has room, of the receiver. The application need not give more, sends need not fail.
- `EthQueue`: weak fairness of both threads but not of `recv`; strong fairness of
  taking the mutex, as both threads release it again and again. No fairness for
  spurious wake-ups.
- `Endpoints`, `Sniffer`, `Octree`, `Algorithms` and `SimpleCount` have safety properties only and state no fairness. The
  first four are driven by an application or a network that need not do anything; `simplecount` promises
  progress but both threads may wait for good, under any scheduling (below).

### Conditions in the properties

- `TermReturns` and `NothingLeft` exclude a `term` during whose work a connection was
  being accepted, or undefined behaviour happened (`raced`), and `TermReturns` also
  a `serversync` whose loop returned at its first line. The first is the finding `server_thread` and one of the
  divergences below; for the last `sessionStop` is never set.
- `TermReturns` supposes that no client stays connected for good (`ClientsLeave`): accepted sockets block, and `term` reads
  each to its end. Without it the property is false (`test/main.cpp:331` below).
- `Serves` supposes that `onClientData` returns each time (`CallbacksReturn`), which is what `readme.txt` asks of callbacks:
  "one rule of thumb is to never use blocking functions". The callback of `test/main.cpp` breaks it when it is called for a
  socket with nothing to read (`serverasync.cpp:263` below).
- `mcserver` runs with `AcceptedBlock` FALSE, which has every step of TRUE and those of a `recv` that comes back; its
  safety properties therefore hold of both, and `ServerProofs` proves them for both.
- `EndReturns` excludes the logger standing between its test of `gStop` and its wait
  when `gStop` is announced: `end` sets it without the mutex and the notification
  is lost, after which both threads wait for good.
- `StreamIsExact` is about sends that do not fail; `StreamHasNoGap` about those
  that fail and are retried.
- `WatchesWhatItHas` bounds what is watched and `mfdMax` always; that nothing is left out it promises unless a descriptor
  was captured with no listening socket, the application released the number of the listening socket, or that socket's
  `close` failed, after which `server::term` returns before it clears the set (`strayed`).
- `NothingLost` excludes a connection whose buffer's 16-bit size has wrapped.
- `FloatsSurvive` is about zero and numbers from 1 on; on a machine with a signed `char` only about those whose second byte
  begins with a 0, which 1.0 is not among. The rest is false (`becode.cpp` below).
- `WaitGrowsToTheLimit` is about limits in one unit, as the loops pass them (`maxsec` only), and microseconds below a second;
  with both the time stops short of the limit (`helpers.h:82` below).
- `LeavesHoldTheirItems` is about the points the code tries, and about corners for items whose corners are whole numbers;
  of other corners it is false. `QueryIsSound` promises a result at the corners of such items where some leaf contains
  the point; at a border of the tree that is 0 none may. A tree that hangs is left alone (`octree.cpp` below for all three).

## Findings

| run | where | documents say | code does |
|---|---|---|---|
| `server_thread` | `serverasync.cpp:240` | `serverasync.cpp:116`: the thread "should finish because the socket was closed" | a client accepted during `term` raises `mfdMax` again; the loop, and `term`'s join, go on for ever |
| `sniffer_quick` | `http.cpp:455` | `http.cpp:437`: "the provided buffer will need to be appended to the existing one" | the bytes are appended but `mSize` stays: after one transmission that does not end in an empty line nothing is parsed any more |

### Known divergences

Met while the modules were written; the models follow the code in each, except where it says so, and no run is kept for
them. Those marked * were stated as the document has it and TLC found the counterexample the last column describes; the ones of
the octree were also seen in the compiled `octree.cpp`.

| where | documents or intent | code |
|---|---|---|
| `server/server.cpp:399` * | `readme.txt:48`: "Whenever input is detected from user descriptors, the callback is called." | `updateFdMax` forgets the user's descriptors: one above the others is no longer selected on after a client leaves |
| `serverasync.cpp:263` * | `serverasync.cpp:260`: "see if data has been received and if so, call the onClientData callback" | after an erase in the walk the slot behind the new end is visited: a client that was just read is called again, and its blocking `recv` stops the loop |
| `test/main.cpp:331` * | `test/main.cpp:210`: "Destroy server (clients will receive a connection reset)." | `term` reads a blocking socket to its end with the lock held, and waits as long as the client stays |
| `server/server.cpp:192` * | `server/server.cpp:361`: "specify additional file descriptors that need to be waited (through select) on" | `init` clears the set and not the vector: what was captured before is not waited on |
| `serverasync.cpp:253`, `server.cpp:350` | readme: "The client list on the server is protected by a mutex" | `push_back` and the walk are outside it; a client that hangs up while `term` runs makes `disconnectClient` erase `end()` (location `undefined`) |
| `serverasync.cpp:121`, `:142` | `term` ends the server | without a running thread the join ends the process (`aborted`); `call_once` starts no loop in a second life |
| `server/server.cpp:155`, `:211` | | `mAddress` names the address that was tried, also when `init` fails; a failing `close` leaves set and user descriptors (`strayed`) |
| `client/client.cpp:134` | loop over the addresses until one opens | `mSocket` (0) is tested instead of the socket just opened: only the first address is ever tried |
| `ethframe/main.cpp:161` | `main.cpp:160`, `165`: "Wait for all packets to be logged and removed", "EthFrames should be empty by now" | the logger leaves as soon as `gStop` is set |
| `ethframe/main.cpp:161` * | the same | `gStop` is set without the mutex: its notification is lost when the logger stands between its test and its wait, and both threads wait for good |
| `netdataraw.cpp:173` | `netdataraw.cpp:144`: "The buffer will not be altered however in any situation where an error has occurred" | the first region is given back before the second is sent |
| `simplecount/main.cpp:83` * | `main.cpp:5`: "Printing waits for the next count to occur and counting waits for the next print to occur." | a number may be printed twice or not at all; and when a flag is taken back, or a notification lost, before the other thread waits, both wait for good; `InStep` is what is left |
| `octree.cpp:441` * | `octree.cpp:432`: "If at least one corner of the item's cube is within the search area, then [...] the search area [...] owns this object id." | the loops count in `int`, and the corners lose their fraction: of (0.5 .. 2)^3 the points 0, 1 and 2 are tried |
| `octree.cpp:441` * | `octree/readme.txt:36`: "All objects will be added accordingly" | for an item that is flat, or thinner than 1, a loop steps on the spot: `Add` does not return |
| `octree.cpp:326` * | `octree.cpp:163`: items "which enclose or touch the input point will be returned" | an upper border of the tree at 0 is in no child cube: a query there returns nothing after the first split |
| `octree.cpp:441` | readme: an item is added "to all child octrees that enclose any part of the space occupied" | a cube in which the item has no corner and that it does not enclose is left out: a bar right through it |
| `octree.cpp`, `Query`, `Reset` | | a query stops at the first leaf with a result; `Reset` forgets the bounds |
| `becode.cpp:246` * | `becode/readme.txt:7`: "encodes and decodes floating point data [...] in line with the IEEE 754 Standard" | a signed `char` is shifted: 1.0 and 83.25 are not decoded, which `becode/main.cpp:76` expects to "match" |
| `becode.cpp:180`, `:233` * | the same | numbers below 1 are not normalised: 0.5 has the bytes of 1.5; 0 is told by the first byte alone, and an exponent of 8 bits wraps, far from 1 |
| `CElGamal.cpp:98` | decoding undoes encoding | a negative value becomes a 16-bit one, and its remainder comes back |
| `helpers.h:82` * | `helpers.h:56`: "Doubles the time in pt up until it reaches maxsec and maxusec." | `maxusec` is ignored when `maxsec` is given: with (5, 10) the time stays at (5, 0) |
| `helpers.h:78` | | a `maxusec` of a second or more is stored as it is, which is no proper `timeval` (line 64 clamps it for the comparison only) |
| `pcapsniff.cpp:755` * | `pcapsniff.cpp:628`: "group a whole transmission between sender and receiver, parse and process it and then get a whole separate transmission" | all connections share one HTTP buffer: a transmission is put behind another connection's incomplete one (and not looked at, because of `sniffer_quick`) |
| `http.cpp:96` | | `gunzip` goes on for ever when the stream is truncated (`Z_BUF_ERROR` is no case of its loop); `QuickHttp`'s returns |
| `pcapsniff.cpp` | | `freeKeywords` comes after `termDevice` has cleared everything and frees nothing (and would free only one node of the list); the list is never given to the part that looks for keywords; sizes have 16 bits |

## Proofs

Every safety property that a run checks of `CycBuf`, `NetData`, `Server`, `Endpoints`, `Sniffer`, `EthQueue` and
`SimpleCount` is a theorem, invariants and action properties alike, and so is the one of `Algorithms` about timeouts: the
run shows it on a small instance, the theorem for every value of the constants. What is assumed are the named
`ASSUME`s on constants below, which every run of the module evaluates; an `ASSUME` is no fact in an instance, so
`WaitSpecGrows`, which speaks of `Algorithms` through an instance, repeats its one as a hypothesis. `OpsProofs` holds the lemmas on
both libraries of operators, so what extends it sees the constants of both; no theorem about a buffer uses what is assumed
of descriptors, nor the other way round. In each module the
types come first (`SpecTypeOK`, or a part of the invariant), then the inductive invariant `Inv`, with one lemma for
each action or group of actions, and the theorems follow from `Inv`. Each `Inv` was an invariant of a TLC run
before it was proved.

### CycBufProofs

For every `Size >= 3`, every set of bytes with 0 in it and every
`MaxRequest` (`SizeAssumption`, `ByteAssumption`, `MaxRequestAssumption`; the smallest instantiation in the code
has 16 cells):

- `SpecTypeOK`, `SpecWriterKeepsRegion`, `SpecReaderKeepsRegion`, from the inductive invariant
  `Inv == TypeOK /\ WriterKeepsRegion /\ ReaderKeepsRegion`. They need each other: that a
  push moves the tail over exactly the cells its caller filled follows only from the
  region being still there, and that the region is still there follows from the head
  never passing the data. `ReaderKeepsRegion` and `WriterKeepsRegion` speak of the
  contiguous room and data (`WriteAvail`, `ReadAvail`), not of cells, which is what makes
  them inductive under the other side's wrap.
- `SpecEmptyHasRoom`, `SpecFullHasData`: consequences of `TypeOK` and of the two cells that
  never hold data. `SpecTwoCallsSuffice` likewise: a chunk that stops short has reached the end of the memory
  or the end of the data or room, and the second chunk has no end of the memory in front of it.
- `SpecFreeCellsAreZero`: with `Inv`, the property is inductive. Every method either clears exactly the cells it releases
  or takes cells that were free (`CleansUp` in `OpsProofs` states this of each), and a byte that was placed and not
  pushed is in the producer's region, which `WriterKeepsRegion` keeps free.
- `SpecRefinesByteFifo`: the refinement `q <- Contents(c)`. `Init` maps to `Init`, and every action to
  an action of the queue. `OpsProofs` has the lemmas: the ready checks do not change the
  contents; a chunk read is a prefix of the contents and leaves the rest; a chunk written
  appends; two chunks of a copy make one `Read` or `Write`, with the bound on how short a
  `Write` may stop.

### NetDataProofs

For every size of the buffers, every `Total`, `WireRoom` and `MaxFails` (`NetDataAssumption`: the bytes are the numbers
up to `Total`): `SpecTypeOK`, `SpecStreamIsExact`, `SpecStreamHasNoGap`, `SpecNothingLeftBehind`, and the action
property `SpecRecvTakesAll`. None of them is inductive. `Inv` adds

- `Holds`: the sender's buffer has the last bytes given, so that a byte's place tells its number;
- `RegionHeld`: while `send` works on a region, the buffer still shows it at its head, and some of it is not sent;
- `Order`: with `Passed` for the last byte `::send` has taken in the present attempt, the stream has no gap and has come to
  `Passed` or further, and is exactly the numbers up to `Passed` when nothing failed. After a failed
  `send` `Passed` goes back and the stream does not, which is why it is "or further";
- `Received`: what a receiver holds are bytes that were given;
- `SecondAtEnd`: `recv` makes its second `recvnow` only from the end of the memory or with no room left. This is what
  `RecvTakesAll` rests on: a region filled after that leaves no room (`FilledRegion`).

A step of `::send` puts the numbers after `Passed` behind the stream (`RunExtends`); `recv` and the clearing of its
buffer move bytes along it and change nothing (`SplitAt`, `Associate`). That the block copied to the tail and committed is the
chunk `writecopy` would write (`PlacedIsWriteChunk`) brings in the lemmas about cyclic buffers.

### ServerProofs

For every finite set of descriptors with 0 in it, every set of clients, every `MaxUnread` and both values of
`AcceptedBlock` (`FdAssumption`, `ServerAssumption`), for `serverasync` and `serversync`: `SpecTypeOK`, `SpecRecordsAreConnections`,
`SpecWatchedAreOpen`, `SpecLoopEndsAtTerm`, `SpecNothingLeft`, and the action property `SpecOnlyFinishedAreDropped`.
`Inv` says, whatever happened, that a record's transfer class has the record's socket (`Agree`) and how far `term`
is (`Phase`); and, unless `raced`:

- `Listens`: one socket listens, the user's descriptors stay;
- `Lists`: the records are the connections, each once, until `term` dropped them, and then neither is left;
- `Accepting`: between `accept` and `push_back`, and only there, one connection is not listed yet;
- `Watches`: the set, its maximum and the copy `select` gets agree with what is open;
- `HungUp`: when the loop is at `disconnectClient`, the slot it looks at, stale or not, is the record of a client that
  has hung up and was read.

`SpecOnlyFinishedAreDropped` is `HungUp` with `Lists`: the slot names a descriptor that is held, and the erase finds that one.
`OpsProofs` states what each method of class `server` does to the list, the set and the maximum.

The timeout of the loop, for every limit in one unit and with less than a second of microseconds: `WaitSpecGrows`
proves `WaitGrowsToTheLimit` of `Algorithms`. It is not inductive: half a second would be doubled to 1000000 microseconds, which
is no `timeval`. `Waits` excludes it and the times it would come from (`Halves`); a timer that starts at zero has powers of two.

### EndpointsProofs

For every finite set of descriptors with 0 in it, everything `getaddrinfo` may return but an empty list, and any set of
user descriptors, those the sockets get included (`FdAssumption`, `EndpointsAssumption`): `SpecTypeOK`, `SpecNoSocketLost`,
`SpecSocketHasAddress`, `SpecWatchesWhatItHas`, and the action property `SpecFailedInitHasNoEffect`.
`Inv` adds `SocketsAreFds` (a socket is above 2) and `UsersListed` (a user's
descriptor is listed once, so that releasing it removes it). That `mfdMax` is among what
the server has after a release rests on `FdMax`, of the listening socket and the clients, being one of them (`OpsProofs`).

### SnifferProofs

For any connections, every payload, every modulus of the sizes, any number of packets and of failing allocations
(`SnifferAssumption`): `SpecEveryBlockHasOneOwner`, `SpecBufferIsOneTurn`, `SpecNothingLost`. While the
capture runs `Inv` is `Sound`, which has

- `OneOwner`: the pointers of the keyword list, of the upper-layer buffers and of `goQuick`'s buffer are
  pairwise different unless null, point to blocks that are allocated, and no block is without one;
- `EndsOK`, `BufsOK`: the two lists are blank or have an entry for each of pairwise different connections, and no two
  buffers belong to the same endpoints; the list is searched from its start, and finds the one there is;
- `EndsAgree`: an entry's addresses and its `inv` tell the side that sent last. This is why a change of direction is
  noticed at the packet it happens at, and only there;
- `BufsAgree`: what counts of a buffer is of its connection and its turn, numbered upwards, and follows what
  was handed over without a gap, until the size has wrapped;
- `QuickOK`: `goQuick` counts no more than its buffer holds.

None of these is inductive without the others: that the block written to is no other buffer's needs `OneOwner`, and
that the packet is written to the buffer of its own connection needs both lists. `Absorbed` states of `goQuick` what its
caller relies on: of the block handed over and the one it had, at most one is left, it is `goQuick`'s, and no
other block changes, whether the block is kept, appended, parsed or dropped when `realloc` fails.
`GetEndpointsFinds`, `GetULBufferFinds` and `ExtendULBufExtends` do the same for the other parts of the callback, and
`TurnGoesOn`, `TurnIsHanded`, `FullSound` and `ExtendSound` put them together, in the order of `cbProcessTCP`.
For the proof `FreshBlock` lost its bound on the number of blocks: there is always one that is not in use.

### EthQueueProofs

For every number of frames (`MaxFramesAssumption`): `SpecTypeOK`, `SpecPrintedInOrder`, `SpecNeverEmptyFront`. `Inv` adds
`LockIsHeld` (who has the mutex is told by where the threads are), `AwakeHasFrame` (a logger past its wait has a frame or was
asked to end, as no other thread pops) and `ShownIsPushed`.

### SimpleCountProofs

For every number of counts (`MaxCountAssumption`): `SpecTypeOK`, `SpecInStep`. The locks guard nothing in common and play
no role in the proof. `Inv` adds `MainWaits` and `LockstepWaits`: a thread clears its own flag once in a round, so a flag it
finds set was set in a round of the other thread that it did not see before.

### Only model-checked

- Liveness, which is beyond the prover: `Serves`, `TermReturns`, `Delivered`, `FramesArePrinted`, `EndReturns`.
- `Octree`, for every property: it reaches RECURSIVE operators (the code recurses in `Add` and `promote`), and what
  these compute for every tree is induction over data.
- `FloatsSurvive` and `CipherIsInverted`: that the bits of a number give the number, and that a power in a
  group of prime order is undone by the complementary one, are inductions over bits and exponents.

The modules with a `TypeOK` that no run lists (`Server`, `NetData`, `EthQueue`, `Endpoints`, `SimpleCount`) keep it for the proofs.
The proofs also made two guards explicit: `Server`'s `init` and the `socket()` calls of `Endpoints` succeed only when a
descriptor is free (`FreeFds`), which TLC's sets of descriptors always granted or granted by their size.

## Not modelled

- `logger`, the text of addresses and frames, the header fields `ethframe` prints, `printGenerators`, `toString`
  and `printf`: formatting that no other component reads.
- Of `server`: `disconnectClient` and `disconnectAllClients` called by the application at any time. From the
  callback and from `term` they are modelled.
- Of the test application: sending console input to every client (`svrSendBufToAll`) and the client's
  receiving thread.
- Of the sniffer: the command line, the fields of the headers, and `findKeywords`, whose list is never set.
- `Octree::findPos`, which nobody calls; trees whose halves a float must round.
- Accessors that change nothing (`port`, `selectInfo` by index, the translations of `netaddress`), options set on sockets, `FD_SETSIZE`.
- The data races on `mfdMax` and `sessionStop` other than by their interleavings (the makefiles build
  without optimisation).

## Plan

Written, in this order: `CycBuf` with `ByteFifo` and the proofs, because every transfer goes through
it; `Server`, where the concurrency is; `EthQueue`; `NetData`, which composes two buffers with a
connection; `Endpoints` on the operators of `Server`; `Sniffer`; `Octree`; `Algorithms`; `SimpleCount`.

Of the model, this is left: calls of the application's thread on a serving server other than `term`, sending console input
to every client, and the client's receiving thread. Each would multiply the states of `Server` and
belongs in a module that starts from a server with its clients connected.

Of the proofs nothing is left that the prover can reach; what it cannot is listed under "Only model-checked".
