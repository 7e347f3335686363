# A TLA+ model of peamodbus

peamodbus is a Modbus library in Go: a register bank that servers share with
the application (`peamodbus.go`), the encoding of requests and responses
(`tx.go`, `definitions.go`), a client and a server for serial lines
(`modbusrtu`) and a server for TCP (`modbustcp`).  This directory models its
state machines, checks them with TLC and proves the central ones with TLAPS.

## The system

| Part | State | Operations | What is hard about it |
|---|---|---|---|
| Data bank (`BlockedModel`, `readFromModel`, `writeToModel`) | coils, inputs, registers | Get/Set, request reads and writes | range checks in uint16, partial effects |
| Concurrency-safe model (`lockedDataModel`, `lockDataModel`) | a mutex and the bank | the same, by many goroutines | torn reads, lost updates, nested locking |
| Data interpreter | none | typed gets and puts, byte slices | several registers per call, word order, odd lengths |
| Length inference (`tx.go`) | none | requests, responses | RTU framing has nothing else to go by |
| Requests and responses (`tx.go`) | none | build, decode, answer | bounds taken from request fields |
| RTU receive path (`connState`) | rxbuf, dataStart, dataEnd | `TryRx`, `read`, `resetRxBuf` | fragments, buffer limits, losing sync |
| RTU client | a connState, muTx | three register calls, `transaction`, `SetTransport` | deadlines, late and lost answers |
| RTU server | a connState, the bank | `HandleNext`, `handleException` | exceptions, packets for others |
| TCP server | connection, listener, closeErr, lastMBAP | `Accept`, `HandleNext`, `CloseConn` | checks and stores under different locks, clients that leave in mid-request |

The server takes a request off its transport, decodes it, reads or writes the
bank through `lockDataModel`, and writes the answer.  The client writes a
request and polls `TryRx` until a matching answer, its deadline or the fifth
error.

## Modules

- `Definitions`: function codes, exceptions, uint16.
- `DataBank`: the bank, and an operation on it as a walk over consecutive
  elements that stops at the first one refused.  `Check` is the range check of
  requests; `Reached`, `Outcome`, `Effect` and `Values` say what the walk does
  when nobody interferes.
- `AtomicModel`: what `ConcurrencySafeDataModel` promises.  An operation
  happens in one instant between its call and its return.
- `DataModel`: goroutines that run operations on a wrapped bank, one access
  or one mutex operation per action.  `mem` is the bank, `mu` the mutex, the
  rest the locals of each goroutine.
- `Interpreter`: numbers of several words on top of `DataModel`, in both word
  orders (`putUintReg`, `uintReg`).
- `PacketLength`: `InferRequestPacketLength`, `InferResponsePacketLength`.
- `RtuRx`: `TryRx`.  Each action runs from one return of `port.Read` to the
  next call of it or to the return of `TryRx`.  `buf` is
  `rxbuf[dataStart:dataEnd]`.
- `RtuStream`: one `connState` that receives packets which the port cuts up.
- `Crc`: `generateCRC` on sixteen bits.
- `Pdu`: building, decoding and answering requests, as bytes.  `PutResponse`
  uses the walk of `DataBank` as one step; the refinement of `AtomicModel`
  justifies that.
- `RtuLink`: a client and a server at the two ends of a line, made of two
  instances of `RtuRx`, `Pdu` and the loops of `transaction` and `HandleNext`.
  The code takes any `io.ReadWriter` for a port, so the kind is a parameter:
  `Blocking`, the client's `port.Read` waits for a byte, as `io.Pipe` does, or
  returns none after a time of its own; `WholeRequests`, the server's returns
  all it is asked for, as `io.Pipe` does with what one `Write` wrote, or as much
  as has come, as a UART does.
- `OneConnection`: what "Servers can only maintain one connection" promises: a
  connection gets one turn, and is written to only in its turn.
- `TcpServer`: goroutines in `Accept`, one in `HandleNext`, and clients.  An
  action runs from one blocking call, or hold of the mutex, to the next.
  `closeErr`, `conn` and `lastMBAP` are the fields of `serverState`; `port`
  stands for its `listener` and those that calls of `Accept` still hold; `in`
  and `out` are the bytes on the wire.  Requests are answered by `Pdu`.
- `MCDataModel`, `MCRtuStream`, `MCRtuBus`, `MCRtuLink`, `MCTcpServer`: the
  instances TLC checks.
- `DataModelProofs`, `InterpreterProofs`, `PduProofs`, `RtuStreamProofs`,
  `RtuLinkAnswers`, `RtuLinkProofs`, `TcpServerProofs`, `TcpContentProofs`: the
  proofs.  `PduProofs` and `RtuLinkAnswers` hold lemmas only, about what requests
  and answers consist of and what `PutResponse` makes of a request.

Operators named `X_Something` and commented "Mutant" are wrong variants of `X`
that show a property can fail.  No specification uses them.

## Runs

| Run | Result | What it shows |
|---|---|---|
| `data_model` | holds | requests and application calls on a wrapped model are atomic (`Linearizable`), a read in progress is a snapshot, a write request is all or nothing, what a request is granted lies in its block although the check before it wraps around (`AnsweredInRange`), a number of several words is got as it was put (`NumbersAreWhole`), every call returns |
| `last_register` | violated | holding register 124 cannot be written by a request: `writeToModel` computes one past the last address |
| `rx_response` | holds | a client's `TryRx` delivers every answer once, whole and in order, never reads past a packet nor past the buffer |
| `rx_request` | holds | the same for a server, if requests arrive in the pieces it asks for |
| `rx_fragmented` | violated | a write-multiple request that arrives in pieces makes `TryRx` panic instead of reporting missing data |
| `link` | holds | without deadlines, losses and port errors, on a port that blocks, a call that succeeds told the truth, and every call returns |
| `link_late` | holds | with a deadline, on ports that return what has come and nothing after a while, a lost packet, a port that is reopened (`SetTransport`), failing reads and writes, late answers and exceptions, a read returns a genuine answer of the server or an error, nobody panics, every call returns |
| `link_exception` | violated | the server's exception answer has neither address nor CRC; the client asks for the rest of a packet, and on a port that blocks waits for ever.  It has a deadline, but `transaction` looks at it only between calls of `TryRx`, so `RxTimeout` is not "the maximum time to wait for a response" (`client.go:30`) |
| `rx_bus` | holds | on a line shared with another device, where bytes get lost, boundaries are lost too; but what `TryRx` returns without an error was sent as one packet, in order, and after a bad function code it returns no packet any more |
| `tcp` | holds | one connection is served at a time and `HandleNext` reads from no other (`OneAtATime`, `ReadsTheServed`); answers are in order and true; no request of the run makes it panic; requests are answered or the connection is closed; a client that is gone is noticed; the server listens again |
| `tcp_exception` | violated | the header of an exception answer has the Length of the request |
| `tcp_writes` | violated | a write of a single value above 254, which a coil's ON (0xff00) is, slices out of range and panics; a write of several coils takes effect and then panics |

`DesyncIsFinal` describes what the code does: the buffer is not advanced past
the bad code, so only a new `connState` helps.

`AnswerIsGenuine` is weaker than `ResultIsTrue` on purpose.  After a timeout a
late answer to an earlier call with the same function code and number of
registers is accepted; Modbus RTU has no transaction number to tell them apart.

`AnswerTellsTruth` is about the values that were asked for.  A read of coils or
inputs is answered with as many bytes as values, though they are packed eight to
a byte (`quantityBytes`); the bytes behind are what `rxbuf` held.  `Pdu` models
it, and nothing in the repository says how many there should be.

### Bounds

- `data_model`: two goroutines; six registers and eight bits per block, so that, as
  with 125 and 2000, the check of registers is the stricter one and decides;
  requests within a block, up to its end, beyond it, and around 65535; words of
  two one-bit "bytes"; calls that lie below zero, run off the end, or have an
  odd byte.  The input registers hold a number
  of two words, most significant first, and one of four, least significant
  first, whose put locks twice (`PutFloat64Input`).  No request writes input
  registers, so that torn or swapped numbers can come from the interpreter only.
- `rx_response`: two packets (`MaxSent`) from five shapes, the longest of 255
  bytes; a read may return 0 to 5 bytes (`Cuts`), all it was asked for, or all
  there is.  Two packets are enough to lose the boundary between them.
- `rx_request`: three packets, no short reads.  `rx_fragmented`: one packet,
  short reads.
- Framing does not depend on the checksum, so these three use a cheap one.  The
  link runs use the real CRC.
- `rx_bus`: four packets, requests to two devices and their answers, with the
  real CRC; a read returns 1 or 2 bytes or all it was asked for.  That suffices
  for a server to read an answer as a request and to join two packets.
- `tcp`: two acceptors and two connections, so that one waits in the backlog or
  in `Accept` while the other is served.  One client sends any of eight
  requests and then reads back, the other reads.  A client may die at any point
  with 3 bytes of a header, or with a header and 2 of a body, come through
  (`Cuts`), or with all of them.  Bytes of earlier requests in `rxbuf` are all
  zeros or all ones (`Stale`).  Four elements per block.  Requests that make
  the server panic are those of `tcp_writes`.
- `link`: three calls (`MaxCalls`) of five kinds, one of them with nothing to
  read.  `link_late`: two calls and one loss or change of port (`MaxLost`), a
  read that is answered and one that is refused; the first one's answer would do
  for the second but for its function code.  Answers reach the client in pieces
  of any size.  Requests reach the server in pieces of any size in `link_late`,
  where they are reads, and whole in `link` and `link_exception`: a write in
  pieces is the subject of `rx_fragmented`.

### Fairness

- `DataModel`: a goroutine that can run does, and `sync.Mutex` hands itself to
  a starved waiter (strong fairness of `LockDataModel`).  Nobody has to call.
- `RtuStream`: the caller keeps polling, and a port that is polled again and
  again hands over bytes that have arrived (strong fairness of `Progress`).
- `RtuLink`: both loops keep going.  Time passes, so a loop that tests its
  deadline again and again finds it expired (strong fairness of `GiveUp`).  A
  client in `port.Read` of a port that blocks goes on when bytes come, and
  nothing is assumed before (`Waits`).  Only a port that returns without bytes,
  as in `link_late`, goes on by itself; with a port that blocks a lost packet
  would keep the client for ever, as the exception does in `link_exception`.
- `TcpServer`: the goroutines go on calling `HandleNext` and `Accept`, as
  `examples/helloserver` does, and deadlines expire.  Clients need not do
  anything.  Fairness is spelled out (a goroutine moves or waits again and
  again), which means the same as weak fairness of it and is cheaper to check.

Deadlock is checked in every run but `rx_bus`, where a server may really stop:
a packet for another device can make `TryRx` panic.

## Proofs

For every number of goroutines, bank size and set of operations:

- `TypeCorrect`, `Snapshot`, `AllOrNothing`, `RangeWithinBlock`
  (`DataModelProofs`).  The properties are not inductive: nothing in `SnapshotHolds` says why another
  goroutine does not write.  `IInv` adds mutual exclusion (`LockInv`: whoever
  is inside holds `mu`), what idle and waiting goroutines have in their locals,
  how far a loop has got (`LoopInv`: the elements visited are exactly those in
  range) and what was read (`GotInv`, `OddInv`).  The last two theorems are
  about sums of uint16s.  A range that wraps around passes the check, but it
  starts behind the block or contains the address just behind it, which the
  bank refuses (`RangeInBlock`); and if it stores anything it starts in the
  block, so it is longer than what is outside, which `WriteRequestAllOrNothing`
  excludes.
- `Refinement` (`DataModelProofs`): `DataModel` implements `AtomicModel`.
  An operation takes effect when it gets the mutex; the abstract bank is the
  real one plus what the holder has still to store.
- `WholeNumbers` (`InterpreterProofs`): `NumbersAreWhole`, for any numbers of
  two to four words, in registers of their own (`RegistersOfItsOwn`: whatever
  else writes there is a put of the same number; an application that pokes at
  single words of a number gets what it asks for).  The invariant `NumberInv`
  says that the registers of a number hold the words of one value, unless
  somebody is putting one, and that a put has stored the words it has visited.
  The rest is arithmetic: `uintReg` undoes `putUintReg`, word by word, in both
  orders, for every base above 1.

For every line whatever, noise included, and every way the port cuts it up:

- `ClientTypeCorrect`, `ClientNeverPanics`, `ClientReadsNoFurther`,
  `ClientBufferSuffices` (`RtuStreamProofs`), for a client whose port returns no
  bytes together with an error.  The invariant says that the buffered bytes are
  always a proper prefix of what is inferred from them (`Incomplete`), that
  `need` is what is missing, and that `dataStart` is 0 while bytes are
  buffered.  The same is false for a server: see `rx_fragmented`.
- `NoWayBack`, for clients and servers: `DesyncIsFinal`.  What is buffered
  after a bad function code still starts with it (`DesyncInv`), so that every
  later inference ends in the same way.

For every sequence of packets without noise (`WholePackets`: a packet has the
length inferred from it, and its CRC):

- `ClientInSync` and `ServerInSync` (`RtuStreamProofs`): what `TryRx` returns
  are the packets sent, in order, each once and whole.  Nothing in the bytes
  marks a boundary, and what is buffered says only where the next one is.  The
  invariant `FrameInv` claims that boundaries exist: there are offsets, one per
  packet not yet returned, at which the buffered and the coming bytes agree
  with the packets sent.  An existential quantifier does here what otherwise
  takes a recursive concatenation, about which nothing can be proved.
- A client needs packets of at most 257 bytes (`ShortPackets`): with that many
  bytes buffered `resetRxBuf` drops them, whether or not the packet is
  complete.  Modbus allows 256.
- A server needs requests that arrive whole (`ServerPort`: no short reads); then
  it does not panic either (`IncompleteIsReported`), and leaves nothing buffered
  behind a request (`NothingBehind`).  Without it all three are false: see
  `rx_fragmented`.

For every number of goroutines in `Accept` and of connections, and whatever the
clients send:

- `TcpInvariance`, `ReadsSafe` and `TcpRefinement` (`TcpServerProofs`):
  `TcpServer` implements `OneConnection`.  The mutex does not give this, since
  `Accept` checks and stores under different holds of it.  The invariant says
  that the port does: whoever is between `ListenTCP` and the store owns it, and
  a connected server owns it until `CloseConn` (`PortInv`); a connection is at
  one place only, new, in the backlog, accepted or stored (`FlowInv`); and
  inside `HandleNext` the server is connected, because nobody else closes
  (`HandlerInv`).  It rests on a fixed address: with port 0 every listener gets
  a port of its own.
- `TcpAnswersInOrder` (`TcpServerProofs`): `AnswersInOrder`.  The invariant
  `OrderInv` keeps, for every connection, the offsets in the bytes still to be
  read at which requests begin, as in `FrameInv`; the bytes after a cut are
  those of a client that died.  Between its two reads, and before its write,
  `HandleNext` is busy with the first request without an answer, and `lastMBAP`
  is the header of that one (`BusyInv`).  `WellFramed` is assumed of the
  clients: a header that the server accepts tells the length of what follows,
  since the next header is looked for behind it, and the number of requests on a
  connection fits the 16 bits of a transaction.  Function codes, addresses and
  values are arbitrary.

For the same, any bank, and any bytes that earlier requests left in `rxbuf`, and
also under `WellFramed` (`TcpContentProofs`, from the lemmas of `PduProofs`):

- `TcpTypeCorrect`: `TypeOK`, if what the clients write into registers are
  values of registers (`WritesWords`, which says nothing when `Word` is all of
  uint16).  `Control` and `Contents` are what it takes: bytes that are read,
  kept and written are bytes.
- `TcpNeverPanics`: `NoPanic`, if all requests are `Manageable`: a single value
  of at most 254, reads of at most 254 bits or 127 registers, no writes of
  several coils, and of several registers only with bytes for all of them.
  This is as far as `PutResponse` goes and less than Modbus allows; `tcp_writes`
  shows what happens beyond it.
- `TcpAnswersTrue`: `AnswerTellsTruth`, if clients that write a single coil say
  ON or OFF.  A client that decodes an answer learns what the data model holds,
  bit by bit for coils and inputs, or finds there what it wrote.  Requests
  that make the server panic are not excluded: it gives no answer to them.

  The theorem takes three invariants.  The bytes that `HandleNext` acts on are
  those of the first request without an answer (`OrderInv`).  That request is
  one of those that the hypotheses are about (`AskedIn`).  And coils and inputs
  hold 0 or 1 (`BankOf`), without which packing eight of them into a byte would
  lose something.  Then `Handle` makes an answer that is true when it is
  written into `reply`; `TruthInv` says that it still is when it is sent, since
  nobody else changes the bank of the model.  (In the program the application
  may; then the answer is true of the instant of the access.)

For every set of calls, every bank and every function from bytes to uint16 in
the place of the checksum (`CrcIsUint16`), however the line cuts up the answers
and the requests of reads, and whatever it loses.  All three theorems assume
`Digestible`: the server's `port.Read` returns what it is asked for, or nobody
writes.  The code does not ensure it of a serial port, and without it
`LinkNeverPanics` is false: see `rx_fragmented`.

- `CallsTellTruth` (`RtuLinkProofs`): `ResultIsTrue`, if no call has a deadline
  and no port fails (`Patient`).  The invariant `LinkInv` says where the one
  request is: a client that waits has its request, or part of it, with the
  server (`Asking`); or the server has dropped, refused or answered in vain
  (`Unanswered`: the client gets nothing, or an exception it cannot parse); or
  the line and the client's buffer make up the answer (`Answering`), which
  holds what the bank holds.  Each phase says how many bytes of the packet have
  been read, and at which of its reads `TryRx` is: two bytes, eight, and the
  rest for a write; any number for a read and for an answer.
- `LinkTypeCorrect` and `LinkNeverPanics`: `TypeOK` and `NoPanic`, with deadlines,
  failing ports, reopened ports and losses as well.  `LinkInv` is false there:
  a call may give up while its request is on the way, and an answer may find
  the client in another call.  `SafeInv` forgets which answer belongs to which
  call, and keeps two facts: the server has whole requests before it, some
  number of them in a row (`Queued`), of which it may have read a part; and the
  client has buffered no whole packet (`Incomplete`), whatever bytes come.
  `Queued` is the least set closed under putting a request in front, which, like
  the offsets of `FrameInv`, takes the place of a recursive definition.

The assumptions are the named ASSUMEs of `DataBank`, `DataModel`, `Interpreter`,
`RtuStream`, `RtuLink` and `TcpServer`, which TLC evaluates in every run, and
the hypotheses named above.  Of these the MC modules assume `RegistersOfItsOwn`,
`WholePackets`, `WellFramed`, `WritesWords` and `OnOrOff` of what the runs use, and
`Manageable` of what `tcp` uses.  `ClientPort`, `ServerPort`, `Patient` and
`Digestible` select runs: `rx_response`, `rx_request` and `link` satisfy the first
three, all link runs the last.  `ShortPackets` holds of
the packets of `rx_response`.  `CrcIsUint16` is about all sequences of bytes and
beyond TLC; `generateCRC` returns a `uint16`.

Only model-checked:

- everything about liveness, which the prover cannot do;
- `DeliveredInOrder`, which is true of the packets of the run and of their CRCs:
  with other packets a piece of one and a piece of the next may have a matching
  checksum;
- `AnswerIsGenuine`, for the same reason: with losses, whether the client accepts
  pieces of two answers is up to the checksum;
- `Crc` itself, and that it detects what it should.

## Not modelled

- The preprocessor hook of the client (user code that moves both ends of the
  receive buffer), logging, names and strings.
- The sign of numbers and the value of floats: conversions of the same bits.
- `generateLRC`, which nothing but tests calls; `ResponseWriteMultipleCoils` and
  `applicationHeader.Encode`, which nothing calls; the examples, which call
  `Accept` and `HandleNext` in a loop and add no protocol of their own.
- Several goroutines in `HandleNext`: the server's comment excludes them.  With
  one, `lastMBAP` and the header that `HandleNext` keeps in a local are the same.
- A request with a function code that is not implemented, on a serial line: its
  length is inferred as 0, and the second `TryRx` after it reads 0 bytes.  `RtuRx`
  models it, and `rx_request` leaves such requests out.
- Corrupted bytes; bytes are lost, delayed and cut up only.
- A port that returns bytes together with an error: `RtuRx` has it
  (`ErrWithData`), no run sets it.
- A TCP port of 0, and other errors of the kernel than those a client causes.

## Plan

1. `Crc`: what the checksum detects, over short packets; with that as an
   assumption, `AnswerIsGenuine` and `DeliveredInOrder` could be proved.
2. A port with `ErrWithData`.
3. One copy of the lemmas that `PduProofs` has for all tables and `RtuLinkAnswers`
   for registers.
