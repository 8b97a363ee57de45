# A TLA+ verification of amqp091-go

amqp091-go is a client for AMQP 0-9-1 servers such as RabbitMQ. One TCP connection
carries many channels; each is used by any number of goroutines, while a single
reader goroutine takes frames from the network and hands them out. What is hard in
this code is concurrency: which goroutine holds which lock when it blocks, what the
reader does with a frame for something that is being shut down, and what happens to
numbers (channel ids, delivery tags, limits) that both sides must agree on.

This directory holds the models of the client (`*.tla`), the TLC configurations that
check them (`*.cfg`), proofs for TLAPS (`*Proofs.tla`), and `PROJECT.json`, which
lists the components, runs, mutants, findings, hazards and theorems and says for
every definition which lines of the source it models.

## 1. Inventory

| part | state | operations | interacts with |
|---|---|---|---|
| channel id allocator (`allocator.go`) | bitset `pool`, rolling index `follow` | `next`, `release` | called under `Connection.m` by `allocateChannel`, `releaseChannel` |
| channel registry (`connection.go`) | `channels`, `allocator`, `closed` | `openChannel`, `allocateChannel`, `releaseChannel`, `closeChannel`, `dispatchN`, `dispatchClosed`, `shutdown` | applications, reader, the goroutine that shuts the connection down |
| publisher confirms (`confirms.go`) | `published`, `expecting`, `sequencer`, listeners, deferred confirmations | `publish`, `unpublish`, `One`, `Multiple`, `resequence`, `Listen`, `Close` | publishing goroutines under `Channel.m`, the reader, `Channel.shutdown` |
| consumers (`consumers.go`) | map from tag to buffer, one goroutine per buffer | `add`, `cancel`, `send`, `close`, `buffer` | reader, `Consume`, `Cancel`, `Channel.shutdown` |
| handshake (`connection.go`, `auth.go`, `uri.go`) | tuned limits, deadline | `DialConfig`, `openStart` ... `openComplete`, `pick` | server, reader |
| heartbeats (`connection.go`) | `sends`, `deadlines`, the socket's read deadline (the write deadline is not theirs) | `heartbeater` | `send`, `flush`, reader, `NotifyClose` |
| connection shutdown (`connection.go`) | `destructor`, `errors`, `rpc`, `closes`, `blocks`, `close` | `Close`, `CloseDeadline`, `closeWith`, `UpdateSecret`, `shutdown`, `call`, `dispatch0` | reader, heartbeater, applications |
| a channel in use (`channel.go`) | `m`, `closed`, `rpc`, `errors`, `confirming`, listeners; the connection's write buffer | `Publish...`, `Ack`, `Nack`, `Reject`, `call` of every method, `Confirm`, `Notify...`, `dispatch`, `shutdown` | all goroutines that use the channel, the reader |
| content reassembly (`channel.go`) | `recv`, `message`, `header`, `body` | `sendOpen`, `recvMethod`, `recvHeader`, `recvContent`, `newDelivery`, `newReturn` | codec, reader |
| codec (`read.go`, `write.go`, `types.go`, `spec091.go`) | none | frames, properties, tables, fields, 64 methods | reader, writer |

What makes each of them correct:

* **Allocator**: an id that is in use is never handed out; a request fails only when
  all are in use; an id is reused as late as possible.
* **Registry**: ids in use and registered channels coincide; nobody's registration is
  removed but one's own; nothing is written for a channel on an id that has passed to
  another; a shutdown reaches everybody, and calls return.
* **Confirms**: client and server number the messages alike; a listener sees each tag
  once and in order; an answer is the server's answer to that message; nobody waits for
  an answer that cannot come.
* **Consumers**: deliveries arrive in order and, after a cancel, completely; the chan of
  every consumer is closed in the end; whoever goes on receiving gets everything, and
  deliveries that nobody receives do not keep the channel from closing.
* **Connection**: both ends go by the same limits; `Open` and every call end; a server
  that falls silent is noticed; in the end no goroutine and no socket is left.
* **Channel in use**: contents stay in one piece, nothing follows close-ok, a reply goes to
  the call it answers, no listener is sent to after its close, every operation returns.
* **Reassembly and codec**: what is written is read back; what is sent on a channel is
  dispatched on it, whole and in order, whatever else is sent.

The hard behaviours are in `PROJECT.json` under `hazards`, each at its line.

## 2. Modules

| module | models | kind |
|---|---|---|
| `IdPool` | what the connection needs of an id allocator | abstract specification |
| `Allocator`, `AllocatorOrder` | `allocator.go`; with a history variable for the order of reuse | component; implements `IdPool` |
| `Confirms` | `confirms.go` and its use by `channel.go` | component |
| `ChannelRegistry` | the life of channels; uses `Allocator` | composition |
| `Consumers` | `consumers.go` and its use by `channel.go` | component |
| `Tuning` | `DialConfig`, `pick`, the limits of `openTune` | operators |
| `Connection` | a connection from `Open` to its end | component; uses `Tuning` |
| `Traffic` | the goroutines that share one open channel | component; takes `wait()` from `Methods` |
| `Methods` | `spec091.go`: ids, arguments and `wait()` of the methods | data |
| `Stream` | octets, strings and frames of `read.go` and `write.go` | operators |
| `Encode` | `write.go`, the `write` of the methods, `Table.Validate` | operators; uses `Methods`, `Stream` |
| `Decode` | `read.go`, the `read` of the methods, and what the format keeps | operators; uses `Encode` |
| `Framing` | `writeFrame`, `ReadFrame`, for any reader of the payload | operators; uses `Encode` |
| `Transfer` | two ends of a connection: cut up, written, read, put together | composition of `Framing` and the `recv` functions |
| `MC...` | the same with instances for TLC | |
| `AllocatorProofs`, `ConfirmsProofs`, `RegistryProofs`, `ConsumersProofs`, `ConnectionProofs`, `TrafficProofs`, `DeliveryProofs`, `TransferProofs` | | theorems |

The mutated form of a definition stands in front of it. It is a plausible slip in the code, and TLC
finds a property violated when it takes the place of the definition (`mutants` in `PROJECT.json`,
one for each property of each passing run). Some mutated forms are made from others; the
specifications and properties use none of them.

### Allocator

`pool` is the set of ids whose bit is set, `follow` the rolling index. `next` is two
actions, `NextOk` and `NextFail`: the two loops of the code are the set
`TriedBefore(n, follow)` of ids that are tried before `n`, and the deferred function that
moves the index is `Advance`. `AllocatorOrder` adds `freeSince[n]`, the ids that have
been free ever since `n` was last handed out, to state how late an id is reused.

### Confirms

The model starts in confirm mode. A publisher locks `Channel.m`, counts its message
(`publish`), tests the channel and writes it (`send`, `sendOpen`), and takes the count back
if that fails (`unpublish`), which may also happen while the connection is up, when a
message cannot be encoded. The reader takes one `basic.ack` or `basic.nack` at a time.
`rd` says where it is in `One`, `Multiple` or `resequence`, and `todo` which listeners have
not got the Confirmation it is broadcasting; sending on a listener blocks while that is full.
`confirms.m` is held exactly while `rd` is not `"idle"` and `publishedMut` exactly while it
is `"resequence"`, so neither is a variable. `shutdown` marks the channel closed, takes
`Channel.m` and `notifyM`, and closes `confirms`.

The order of the listeners in their slice is abstracted to any order. External: the server
gives every message one verdict and reports it alone or together with all earlier ones that
have none yet; the application receives from its listeners, at once or (`LazyReceiver`, not used in
the runs) only after its last `Publish`: with a capacity below the number of publishings that
one blocks the reader in `resequence` with `publishedMut` taken, as the comment of `NotifyPublish` warns.

### ChannelRegistry

Applications open channels and close the ones they opened; publishers publish on any open
channel; the reader dispatches frames; `"conn"` is whichever goroutine runs
`Connection.shutdown`. `Channel.call` is three steps, the test of `IsClosed`, the write, and the
wait, because other goroutines run in between. `closeChannel` is `shutdown` (mark closed, enter the
`sync.Once`), its body once `Channel.m` is free, or the wait for whoever runs it, and `releaseChannel`.
`Connection.m` is held across steps only by `Connection.shutdown`, `Channel.m` by a publisher and by
the reader while it writes `close-ok` (`dispatchClose`, `dispatchCloseSent`). A write is a step that need not
come while the connection is up: the server may stop reading. Channels are numbered as
they are made, so that two channels with one id are told apart. Frames travel in order.
External: the server, which, if it answers at all, answers a `channel.close` that crosses its own with
`close-ok`, as the protocol asks, and ignores what else comes before the `close-ok` it waits for.

Left out here: the listeners and consumers that the body of `shutdown` closes (`Traffic`, `Consumers`),
replies other than to `channel.open` and `channel.close` (`Traffic`), and a `Close` of one channel by
two goroutines at once.

### Consumers

Each consumer has a name `c`, an `in` chan and a `buffer` goroutine. `buf[c]` says where that
goroutine is: in the outer receive (`"range"`), in the inner loop (`"select"`), or in its deferred calls,
`subs.Done()` and then `close(out)`, which are two steps since `consumers.close` waits for the first
only. The cases of the `select` are the actions `bufferReceive`, `bufferInClosed`, `bufferDrop` and
`bufferSend`; the last needs an application that receives, which has the chan once `Consume` has
returned it. The mutex is a variable because the reader holds it while it sends and `close` while it
waits. The goroutine of `ConsumeWithContext` for `c` is the thread named `c`. A call is a write and a
wait; any waiting call may get any reply, as with the shared `ch.rpc`, and a reply of the wrong type
is `ErrCommandInvalid`. `Features` says what applications do: `Close`, contexts, `noWait`, and
consuming with a tag that is in use; without the last a tag is used again only after its chan was
closed.

Left out: `Channel.m` and `notifyM` in `shutdown` (`ChannelRegistry`, `Confirms`, `Traffic`), and the moment
between the test of `IsClosed` and the write (split in `ChannelRegistry`): a request written in it is not
answered, and its call fails when `ch.errors` is closed, just as if the test had failed. The server is external
and answers a request when it is written; since the client sees the server through one ordered
stream of frames, a later answer looks the same.

### Tuning and Connection

`Tuning` holds the arithmetic: how `DialConfig` merges the URI's parameters with `Config`, how `pick` weighs both
sides' limits, where 0 means none, and what `tune-ok` makes of the result (16 bits for two of the three).

`Connection` starts when the reader has been started. `op` is the step of `Open` that comes next, or how it ended.
`send` is `sendOk`, `sendFails` (which starts a goroutine that shuts the connection down, `spawned`) or `sendClosed`.
`shutdown(err)` marks the connection closed and enters the `sync.Once`; the body is locked (`shutdownLock`), tells
the listeners (`shutdownTell`) and closes the rest (`shutdownFinish`), and whoever comes later waits for it.
`rd` is where the reader is: reading, in a case of `dispatch0`, handing the socket to the heartbeater, or in the
shutdown that ends it. `call` (`callYields`) may take an error, the closed `c.errors`, a reply from `c.rpc`, or the zero value
of `c.rpc` that the reader has closed, which the code reports as `ErrCommandInvalid`. Close, CloseDeadline, UpdateSecret
and the `closeWith` that `dispatch0` starts for content on channel 0 are the callers; they share `c.rpc`.

Time: the socket's read deadline is `rdl`, and `wdl` says whether it has a write deadline; their expiry is a read or a write that fails.
`DefaultDial` and `CloseDeadline` set both (`SetDeadline`), `openComplete` clears both, and the heartbeater moves the one for reading only
(`connection.go:813`). So a server that sends heartbeats and leaves a method of the handshake, or the `close` of a `CloseDeadline`, without an answer
does keep the reader reading, but the next heartbeat that the client itself sends meets the write deadline, and the failed `send` shuts the
connection down. A deadline of the handshake or of `CloseDeadline` expires some time; one that the heartbeater has set only when the server is silent,
since otherwise frames keep moving it, or when it can no longer be moved (`"left"`). A transport may refuse a deadline (`RefusesDeadline`): a closed
socket does, and so may one that the application supplies (`Config.Dial`, `Open`). The heartbeater then goes on or, if the error is not a
`*net.OpError`, quits without a shutdown (`connection.go:813-818`).

A *scenario* (`Scenarios`) is a URI, a `Config`, a server's proposal, and what may go wrong: a refusal or close by the server,
a second round of authentication, a server that leaves any method unanswered while its heartbeats go on ("deaf"), one that falls silent, one that drops
the connection, content on channel 0, `connection.blocked`, a transport that refuses deadlines; and whether the application calls `NotifyClose` ("listener").

### Traffic

One open channel and everyone who uses it. The stream to the server is `buf`, the `bufio.Writer`
that all senders share, and `sent`, what has left it: publishers write frames without flushing (`sendUnflushed`) and flush at
the end, all others flush with each method, and thereby what publishers have written so far. A frame of a publishing carries the bounds of
the slice `body[i:j]` that it holds, so that a body with a piece missing, repeated or cut in the wrong place is told from a whole one. Publishers and `Ack` hold `Channel.m`, calls do not.
`call` is the test and write (`callSend`), and the wait (`callWait`) for an error or whatever comes from `ch.rpc`, with the type
of the reply compared. Whether a call waits is `wait()` of its method, from `Methods`; `AnswerAssumption` says that `Operation` gives
a caller only methods that are used with `call`, those whose `wait()` is true without `noWait`. `Confirm` sets the
mode in a step after its call. The reader goes through the listeners of an event with `notifyM` held (`dispatchListeners`), answers
`channel.flow` without and `channel.close` with `Channel.m`; `shutdown` needs both. A *scene* (`Scenes`) says which goroutines take part and what the
server and the network may do.

Every method of `channel.go` that only builds a request, calls `ch.call` and copies fields of the reply (`Qos`, `Queue...`, `Exchange...`,
`Tx...`, `Flow`, `Recover`, `Get`) is `call` with its own method; the methods themselves are in `Methods`.

### Methods, Stream, Encode, Decode, Framing and Transfer

`Methods` has a record for each of the methods of `spec091.go`: class and method id, the base of `wait()`, whether it carries content, and the
types of its arguments in order. The `write` and `read` of a method list the same arguments in the same order, so that one layout stands for both.
`parseMethodFrame` is the function from ids to methods.

`Stream`, `Encode` and `Decode` write and read octets. A number is the octets that hold it, so that a conversion that cuts them does so in the model.
A short string longer than 255 octets loses all but the length modulo 256; an `int` in a table goes out as an `int32`; a time keeps its seconds.
An array ends where its bytes, or the stream, end. A table is written in the order given, which stands for any order of `range`.
`Framing` puts a frame around its payload and takes it off again. What reads methods and headers are its constants `ParseMethod` and `ParseHeader`; `MCTransfer` puts
those of `Decode` in their place. (The `read` of a table is recursive, and that is how `Framing` and `Transfer` stay in the prover's reach. `Encode` recurses over values
by a function on `Values`, those nested up to `Depth`.)

`Transfer` has a writer and a reader at the two ends of a stream, like `client_test.go`. A script has messages for each channel, cut into frames by
`sendOpen`, single frames out of order, and heartbeats; frames of different channels mix in every way, and the stream may end after any octet.
A message with a table that a function of `Channel` validates (`Checked`: headers, arguments) is refused before its first frame is written.
`KeptFrame` and `Messages` are the reference: what the format keeps of a frame, and which messages a sequence of frames makes up, said without the
state machine of `recvMethod`, `recvHeader` and `recvContent`.

## 3. Runs

| run | distinct states | what it checks, and why the bounds are enough |
|---|---|---|
| `allocator_order` | 592 | The allocator implements `IdPool`, and an id is reused after all that were free in the meantime. Four ids let the index wrap, with gaps on both sides of it. |
| `confirms` | 126 k | Tags, order of Confirmations, deferred confirmations; `Publish` and shutdown end, no acknowledgement is stuck. Two publishers, three publishings (one can fail and its tag be used again, two can wait out of order for the first), a listener with room for one Confirmation, so that the reader blocks on the next one, shutdown at any moment. |
| `confirms_verdict` | | **Violation**, finding 1. |
| `registry` | 234 k | Pool, registry and writers agree; calls return, with the exceptions that `CallsReturn` names (a stalling server, a used id, a write that blocks with `Channel.m` taken); TLC finds a call that does not return when any of them is left out. One id forces the second channel onto the id of the first; two applications, a publisher, an exception, a broken connection. |
| `registry_reuse` | | **Violation**, finding 2. |
| `consumers_tags` | 901 k | Two consumers that fight for a tag, `noWait`, `Close`: the map and the chans stay together. |
| `consumers_live` | 367 k | Order and completeness of deliveries; an application that goes on receiving from a chan gets everything sent for it (`EachIsReceived`), unless the channel is closed; two deliveries that nobody need receive do not hold up `Close`; afterwards all chans are closed and the goroutines of `ConsumeWithContext` end. |
| `consumers_context` | | **Violation**, finding 3. |
| `connection` | 363 k | Eight scenarios, one for each fault (a transport that refuses deadlines together with a silent server) plus one without a common mechanism; between them they meet each case of `pick` for each limit. One application that may make any call, one listener of each kind and one unsolicited frame: a fault can hit every step of `Open`, of a call and of another shutdown. |
| `traffic` | 181 k | Six scenes: locked senders with a call and an exception; a publisher with an exception or a failing socket; Confirm next to two publishers; Confirm next to a publisher and a flow; three calls, one with `noWait`; listeners with every event. A frame size of 10 leaves two octets for the body, so that a body of three takes two frames and a body of none takes none. |
| `traffic_nowait` | | **Violation**, finding 4. |
| `transfer` | 93 k | Every method, without bits and with each bit; every property alone and all together; every field type, also within arrays and tables; strings and keys of 255, 256, 257, 300 and 512 octets; headers and arguments of every method that `Validate` must refuse; two channels and a heartbeat in every interleaving; every sequence of four out of six kinds of frames; streams cut after any octet. What the proofs suppose (`TablesFit`, `RoundTrip` for some rests of a stream) is evaluated on these scripts. |

Deadlock checking is off except in `allocator_order`: each system may really stop (all calls made,
channels and connection closed). That nobody waits for ever is what the liveness properties say.

### Fairness

Nothing obliges an application to call anything, or the server to send anything unasked or to fail.

* A goroutine that can go on does: weak fairness of a `Publish`, call or `Open` that has begun, of the reader, the buffers, the heartbeater, and of a
  shutdown that has begun. Go's scheduler is preemptive and serves every runnable goroutine.
* `sync.Mutex` hands itself over to a goroutine that has waited for a millisecond, so a goroutine that waits for one gets it although others keep
  taking it: strong fairness of the steps that take `Channel.m` in `ChannelRegistry` and `Traffic`. In the other models a lock is contended a bounded number of times.
* A deadline of the handshake or of `CloseDeadline` expires; a failed socket gives the reader an error; a `closeWith` that was started runs; a server that has said
  `close-ok` drops the connection.
  In `connection` the heartbeater's ticker fires while a write deadline is set: it is what meets the deadline.
* `registry` assumes nothing of the server, nor that a write ends before the socket is closed; writes of applications, publishers and the reader are fair only
  from then on. The other models let a write end at once or fail.
* `EachIsReceived` supposes of the consumer it speaks of that the application ranges over the chan, as `channel.go:1051` demands; nothing else in `consumers_live` supposes that anyone receives.
* `confirms` assumes that the application receives from its listeners, as the documentation of `NotifyPublish` demands; `traffic` the same for
  the other listeners (a send to them is one step).

### Findings

1. **A nack is reported as an ack** (`confirms_verdict`, `confirms.go:106`). The server refuses
   message 2, then acknowledges 1 to 3 at once. The nack of 2 waits in the sequencer, since 1 is
   expected; `Multiple` confirms 1, 2 and 3 with its own `Ack` and drops the nack. The listener
   gets `{2, true}`, and `types.go:275` says that is "True when the server successfully received the
   publishing". The deferred confirmation of 2 gets the right answer (`DeferredFaithful`).
2. **A late close-ok goes to the next channel with the id** (`registry_reuse`,
   `connection.go:868`). `Close` and a channel exception cross. The reader answers the server's close
   and releases the id; the server's close-ok to our close is still to come. A new channel that gets
   the id waits for `open-ok`, gets that `close-ok`, and `Connection.Channel` returns
   `ErrCommandInvalid`, which "indicates a bug in this client" (`types.go:58`). The rolling index of the
   allocator makes this rare, not impossible (`NoEarlyReuse`).
3. **A context cancels a later consumer** (`consumers_context`, `channel.go:1244`). The server cancels
   a consumer made with `ConsumeWithContext`, the application consumes again with the same tag, and
   then the first context is done: its goroutine, which nothing told that its consumer is gone, cancels
   the tag. `channel.go:1141` promises to cancel "the consumer associated with the deliveries channel".
4. **Confirm(true) waits** (`traffic_nowait`, `spec091.go:2656`). `confirmSelect` spells its field `Nowait`, and `spec/gen.go:199` looks for `NoWait`
   when it writes `wait()`; so `wait()` is always true and `Confirm(true)` waits for the `select-ok` that it told the server not to send.
   `channel.go:1724`: "When noWait is true, the client will not wait for a response."

### Observations

What the models show besides, in places against the words of a comment, or where a property had to leave room:

* After a graceful `Close` the listeners of `NotifyClose` may hear of an error all the same: the server drops the
  connection after `close-ok`, and the reader's shutdown with EOF (`connection.go:758`) may come before the deferred one of
  `Close`. `connection.go:364` ("on a
  graceful close, no error will be sent") and `doc.go:114` say otherwise: it is a race that the code does not settle. Likewise a `CloseDeadline`
  that times out may tell them of the read error, where `connection.go:444` says that they are not informed.
* `dispatch0` ranges over `c.blocks` without `Connection.m` (`connection.go:666`). If shutdown closes these chans at that moment the reader
  panics. `Connection` has this as the state `panicked`, and its liveness properties allow for it.
* Methods sent by `call`, and `flow-ok` (`channel.go:329`), do not take `Channel.m`, and may fall between the frames of a publishing: `ContentsUnbroken` exempts them.
  A call that passed the test of `IsClosed` may also follow close-ok.
* Two calls on a channel may take each other's replies. One that is alone never does (`ReplyIsMine`); all of them return (`OperationsReturn`), some with `ErrCommandInvalid`.
* A `Publish` that overlaps with `Confirm` is counted by only one side, and if it fails, `unpublish` may take
  `published` below zero (2^64 - 1). `TagsAgree` holds for the publishings that do not overlap, and if no `Confirm` has failed:
  one that is given the reply of another call returns `ErrCommandInvalid` and leaves the server, but not the client, in confirm mode, and the counts of a later `Confirm` that
  succeeds differ.
* On an id that another channel had before, `Connection.Channel` may wait for ever: the server is still waiting for the `close-ok` of the old one and drops the
  new `channel.open`. `CallsReturn` of `ChannelRegistry` leaves out such ids, as long as the connection lives.
* A write that the server holds up (TCP pushback, `connection.go:1079`) may keep a shutdown from ending: a publisher, or the reader with its `close-ok`, holds `Channel.m`
  while it writes, and `Connection.shutdown` waits for each `Channel.m` (`connection.go:629-631`) before it closes the socket (`connection.go:633`), which alone would end the write.
  `CallsReturn` of `ChannelRegistry` exempts exactly that.
* `openComplete` clears the read deadline, and may clear the first one that the heartbeater has set. Until the next frame a silent server is not
  noticed by the reader (`SilentDetected`).
* `heartbeat=0` in a URI does not turn heartbeats off if the server proposes an interval, since `pick` takes 0 for no limit; `connection.go:196` says: "To disable heartbeats, you must use
  the AMQP URI and set heartbeat=0 there". `TuneAgreed` claims nothing of the interval in that case.
* If a transport supplied by the application refuses a read deadline with an error that is not a `*net.OpError`, the heartbeater returns (`connection.go:813-818`) and the connection stays open without
  heartbeats and without a deadline. `WatchedWhenOpen` and `SilentDetected` exempt it.
* `channel.go:1052` warns that unreceived deliveries "will block all methods on the same connection". The buffers of `consumers.go` grow without bound instead; no property is made of it, since the next
  point shows a reader that does block.
* With `noWait`, `Cancel` forgets the tag while deliveries are in flight (`channel.go:749`); a consumer that is then made with the tag gets them, so `InOrder` is not
  claimed there. `channel.go:731` says that they are "dropped in the client".
* With two goroutines in `Close` and `Consume` that take each other's replies, `Consume` may add a buffer after `consumers.close`; its goroutine
  leaves with the first delivery, and the reader waits for it with the next one (`consumers.go:165`). Hence `SendMeetsReceiver` speaks of the time before, and `EachIsReceived` of a channel that is not closed.
* A `flush` error at the end of a publishing is returned but does not shut the connection down, as an error of `send` does.

### Limits

* A frame size from 1 to 8 would leave `sendOpen` no room for the body; `FrameSizeAssumption` excludes it.
* A heartbeat of 65536 seconds or more is cut by `tune-ok`; `ScenariosAssumption` excludes it.
* A heartbeat frame on another channel than 0, which no peer sends, would make `recvMethod` panic, and so would a negative length of a byte array in a table
  make `readField`; neither occurs in the scripts.
* Writes that block are in `ChannelRegistry` only. In `Connection`, `Traffic` and `Confirms` a write ends at once, well or with an error.
* `OpenEnds` is about the deadline that `DefaultDial` sets; a `Config.Dial` of the application's, or a call of `Open` with its own transport, may set none.
* The size that a content header announces is taken as it is: that `make([]byte, 0, header.Size)` (`channel.go:452`) may not get the memory is not modelled.
* `registry` has one id. The safety properties are proved for any number; `CallsReturn` is checked for the one.

## 4. Proofs

The theorems hold for every value of the constants that satisfies the named assumptions, and TLAPS checks them to the last leaf.

* `AllocatorProofs`, for every `Low <= High` (`RangeAssumption`, true after `openTune`, which makes `ChannelMax` at least 1): `TypeCorrect`; `ImplementsPool`,
  that the allocator implements `IdPool` (each step maps to a step or a stutter); `WaitersStayAhead` and `ReuseIsPostponed`, both from the
  invariant that the ids `n` waits for are free and lie before `n` in the order of the search.
* `ConfirmsProofs`, for any sets of publishers and listeners, any capacity and any number of
  publishings: `TypeCorrect`, `TagsAgree`, `ListenersInOrder`, `NeverSendsOnClosed` and
  `NothingOrphaned`, all from one inductive invariant `Inv`. None of the properties is inductive on its
  own. `TagAgreement` needs the counter's relation to the wire (`CountInv`: `published` is the number
  of messages on the wire, plus one while a counted message is not there yet), which needs that at
  most one goroutine is inside `Publish` (`LockInv`). `ListenerOrder` needs that every registered
  listener has got all tags below `expecting`, or all but the one being broadcast (`OrderInv`), and
  that nothing is being broadcast while `confirms.m` is free. `NoOrphanDeferred` needs that a
  publisher that found the channel open still keeps shutdown out (`LockInv`, `DeferredInv`).
  `WaitersToldTheTruth` adds the acknowledgements on their way (`FaithInv`): a `multiple` covers tags that had their own verdict before, so the last
  acknowledgement for a tag may contradict its verdict, but the first one under way for a tag that is still pending never does (`FirstIsRight`), and there is one as soon as
  the verdict is given (`VerdictUnderWay`).
* `RegistryProofs`, for any numbers of goroutines, ids, channels and exceptions: `PoolIsRegistry`, `OpenStaysRegistered` and `PublishersOwnIds`, from the
  inductive invariant `RegInv`. What a goroutine has made sure of when it comes to `releaseChannel` is `EndInv`: the Channel has been shut down, or it was never
  returned to the application. `OwnerInv` says that a Channel is opened and closed by one goroutine and, until it is closed, is the one registered for its id;
  `MutexInv` that the reader holds `Channel.m` while it writes `close-ok`, and `PublishInv` that a publisher holds it from the test on, so that the body of `shutdown` has not run and the id has not been released.
* `ConsumersProofs`, for any numbers of goroutines, tags, consumers and deliveries and any `Features`:
  `RegisteredIsOpen` and `SendsMeetReceivers`, from the inductive invariant `Inv`. Its part `MapInv` says that a
  consumer is in the map under its own tag only; `CallInv` that a goroutine has a tag when it comes to
  cancel (a frame's type determines whether it carries one); `LockInv` that the reader and `close` exclude each
  other, which rests on the `sync.Once`; `BufInv` that the goroutine of an open consumer is in one of its
  receives.
* `DeliveryProofs`, for the same constants. `DeliveredInOrder`: as long as no tag has been used twice (`TagsOnce`; tags from `uniqueConsumerTag` are), `InOrder` holds whatever applications
  do, with `noWait` and crossed replies. Without `TagsOnce` it does not hold: a consumer that takes over a tag may get deliveries sent to the one before. From `DeliveryInv`: the numbers the server sends increase
  (`NumberInv`), it delivers to a tag for a consumer that was added with it (`OwnerInv`), and what a consumer has received and has in its queue is a prefix of what was sent to it, whose rest,
  while it is in the map, is exactly what is pending for its tag, in the inbox or in the reader's hand (`StreamInv`). `CancelLosesNothing`: without `noWait`, and when applications cancel
  only tags for which `Consume` has returned (`CancelAfterConsume`), `CompleteAfterCancel` holds too, for any number of goroutines that take each other's replies. TLC finds counterexamples without either hypothesis, with one tag and one consumer: with `noWait` the tag is forgotten while
  deliveries are on their way, and a `Cancel` that overtakes its `Consume` removes a consumer that the server then delivers to. From `EndInv`: each consumer is asked for once, by one goroutine, and is not ended before that (`AskInv`);
  the `cancel` or `cancel-ok` for a tag comes after its last delivery, in the inbox, in the reader's hand and with the caller that removes the tag (`LastInv`); the goroutine `buffer` leaves with an empty queue unless `closed` (`DrainInv`).
  These invariants, too, were model-checked first.
* `ConnectionProofs`, for any scenarios whose numbers fit their fields (`ScenariosAssumption`): `LimitsAgreed`, from lemmas on `pick` and `TuneInv` (the limits are those of
  `openTuneLimits` from the moment they are set, and `tune-ok` carried them; a heartbeat of 0 on the client's side sets no limit); `OpenIsWatched`, from `WatchInv`: what ends the heartbeater, a failed write or
  its `NotifyClose` chan, comes with a shutdown, and it quits over a deadline only when the transport refuses one, which the theorem names as the exception. `NilIsAnswered`, from `AnswerInv`: the server says `close-ok` at most once, and that one is in the stream, in the reader's hand or
  with one caller, never in two of these places (`OneAnswer`); a caller has its result only when it is past its call (`CallInv`).
* `TrafficProofs`, for any goroutines, bodies, frame size and listeners: `ListenersSafe` from `ListenInv` (the chans the reader has yet to send to are open, since
  `notifyM` keeps shutdown away); `SilentAfterClose` from `SilentInv`: `closed` is set before `close-ok` goes out, which takes `Channel.m`, so that nobody is then between the
  test of `closed` and the frames that follow it. `RepliesMatch`, from `ReplyInv`: until `shutdown` is done the replies on their way can be assigned one to one to calls that wait
  (`Matched`: the assignment is an injection, which a call that takes another's reply permutes), and a call that is alone so far has only its own reply coming (`AloneInv`).
  `AnswerAssumption` is used there: the server answers exactly the calls that wait.
  For any publishers, calls, bodies (the empty one too) and frame size: `ContentsInOrder`, from `ContentInv`: what a publisher has put on the stream
  are the first frames of its content, as many as it is done with, and since its first one no other holder of `Channel.m` has written. `NilIsWhole` adds what `sendOpen` makes of a body: the pieces
  tile it (`CutTiles`, `FramesTile`), and the frames of one publisher stand on the wire in their order, the n-th at its n-th place (`RankCounts`). `CountersAgree`, from `TagInv`: while the ends can agree, no
  `Confirm` and no publishing are under way together (`ModeInv`), and the counters differ by the ends of contents in the buffer plus one for a publishing that was counted and is not
  written yet (`CountInv`).

* `TransferProofs`, for any channels, scripts, frame size, interleaving, cut of the stream and depth of tables.
  - About the codec: `StringsReadBack` (a short string comes back cut to its length modulo 256, a long one whole, whatever follows), `FrameReadsBack` (`ReadFrame` gets any written frame
    back and leaves exactly the octets behind it), `FrameCut` (of an incomplete frame it makes an error, never a frame), and `ValidTableCanBeWritten` (what `Validate` accepts `writeTable` can write).
  - `FramesArrive`, from `WriterOK` (what a channel has in `out` are the last frames of the message it is at) and `StreamOK` (the octets between the two ends are those of the frames that have been
    written and not read, or a beginning of them once the stream has been cut).
  - `MessagesAreDispatched` adds two invariants. `ChansOK`: where a channel is between method, header and body (its `Stage`) follows from the frames it has received. `SentOK`: the messages in the written frames of a
    channel are those whose publishing returned nil, followed by the frames of the one under way (`EndsWith`, `MessageEnds`), and the pieces of a body fill the size that its header announces (`FilledTiles`).
  - `NothingHalfPublished`, from `CheckedOK`: the tables that the message under way was to be checked for are valid, and no result so far is `ErrFieldType`.
  - Hypotheses: `FramesArrive` and `MessagesAreDispatched` suppose `RoundTrip(Seq(Octet))`, that `ParseMethod` and `ParseHeader` read back each payload the scripts send, whatever octets follow; `NothingHalfPublished` supposes `TablesFit`, that
    methods are those of `spec091.go` and that tables which no function of `Channel` validates (`Config.Properties`, those of the server) hold supported types. `MCTransfer` has TLC evaluate `TablesFit`, and
    `RoundTrip` with the real `Decode` for the rests of a stream listed there.
  - What a recursive function computes is shown by induction on lengths and depths, written out by hand from the least counterexample (`Least`, `Upwards`).

The other assumptions say that names of goroutines differ from each other and from the marks used next to them.

Only model-checked: liveness, which is out of this prover's reach, and `RoundTrip`, since the `read` of tables is recursive. The `:>` and `@@` of `Methods` are opaque to the prover, so that
what it needs to know of the methods of `spec091.go` (`Named`) is part of the hypotheses too.

## 5. Not modelled

* The parsing of URIs and `tlsConfigFromURI`: functions of strings without state, whose tests enumerate the cases. What `DialConfig` does with the result is in `Tuning`.
* Credentials and client properties: their contents decide nothing in the client.
* `spec/gen.go`, the generator; its output is modelled.
* `Error` and its texts, logging, documentation, `uniqueConsumerTag`: formatting.
* The example programs, which use the library and are not part of it.
* Durations: deadlines are events, not numbers of seconds.

## 6. What could follow

Every safety property of the passing runs is proved. `RoundTrip`, the hypothesis of two theorems, is checked by TLC on the scripts of `transfer` only; to prove it, `Decode` would have to be written with
functions over the octets that are left, as `Encode` is over depths. Liveness of `ChannelRegistry` is checked with one id, not with two.
