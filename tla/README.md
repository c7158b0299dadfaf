# A verification of go-rtmfp

go-rtmfp implements RTMFP, Adobe's media flow protocol, over UDP: two peers
agree on keys, open flows in both directions, and exchange messages over them
reliably and in order. This directory models it in TLA+, model-checks the models
with TLC and proves theorems about the core with TLAPS. All source references
are to `src/rtmfp/` of the repository.

## The system

| Component | Source | State | Operations |
|---|---|---|---|
| send flow | `flow.go` 34-439 | the queue of chunks not acknowledged, what is in flight, the receive and congestion windows, the retransmission alarm, the ticker that probes a closed window | `send`, `try_send`, `on_range_ack`, `on_rtx_alarm`, probe tick, `close` |
| receive flow | `flow.go` 441-631, `data_chunk_heap.go` | chunks out of order (a heap), chunks in order, the ranges received, the byte counters behind the advertised window, the delayed-ack timer | `on_userdata`, `send_ack`, `on_buffer_probe`, `recv`/`read_message`, `close` |
| range queue | `range.go` | an ordered list of disjoint ranges of sequence numbers | add, subtract, contain, intersect |
| session | `session.go` | keys, session ids, the maps of flows, the last timestamps of both ends, the estimate of the round trip, the peer's address | keying (`active_open`, `recv_iikeying`, `recv_rikeying`), dispatch of chunks to flows, timestamps and samples (`send_chunk`, `recv_packet_info`), ping and the change of address, `close` |
| handshake | `handshake.go` | the cookie, pending requests by tag, sessions by id | `create_session`, `recv_ihello`, `recv_rhello`, `recv_redirect`, `recv_iikeying`, packet dispatch |
| bi_stream, net_stream | `bi_stream.go`, `netstream.go` | the two flows of a stream, the queue of received messages | active and passive open (play / play.start), `send`, `recv`, `close` |
| noisy channel | `noisy_chan.go` | a queue of packets, a token bucket | loss, delay, disorder, capacity and speed limits between a session and the socket |
| codecs | `packet.go`, `chunk.go`, `amf.go`, `base.go` | none | packet, chunk, AMF and VLU encodings, checksum, AES |
| transport, socket | `transport.go`, `socket_bin.go`, `socket_session.go` | the objects above, put together by channels | open, close, parameters, noisy channels put into either path while it runs |

How they interact. A `bi_stream` drives a `net_stream`, which sends through one
`send_flow` and receives through one `recv_flow` of a `session`. Flows call
`session.send_userdata`, `send_range_ack` and `send_buffer_probe`, which put
packets on the session's `out` channel; `session.dispatch` takes packets from
`in` and calls `on_userdata`, `on_range_ack` or `on_buffer_probe` of the flow
they name. The handshake object reads all packets of the socket, answers the
ones of session id 0, and passes the others to their session. Timers
(retransmission, delayed ack, probe) run in goroutines of their own.

What is hard here: packets are lost, reordered and duplicated, so every handler
meets stale and repeated input; the sender's unsigned counters must not drift
through losses, negative acknowledgements, late acknowledgements and timeouts;
a closed receive window can only be reopened by an acknowledgement, which can be
lost; closing races with packets in flight; keying is retried while the answers
to the earlier attempts are under way; timestamps wrap, and what is echoed is
old; a chain of goroutines with bounded queues can be full everywhere; and
goroutines share state with little locking.

## The modules

| Module | What it is |
|---|---|
| `Chunks` | how `send` cuts a message, and the bytes in a set of chunks |
| `Network` | two unordered lossy channels; with `Duplicates` a packet can arrive again |
| `Congestion` | the window arithmetic of `update_congestion_wnd` |
| `SendFlow`, `RecvFlow` | the two halves of a flow, one action per handler |
| `Flow` | both halves and the network: the specification and its properties |
| `FlowInv` | the inductive invariant of `Flow` |
| `MessageChannel` | abstract specification: a reliable, ordered channel of messages. `Flow` implements it, and so does each direction of `BiStream` |
| `RecvWait` | the steps of `recv()`, `on_userdata` and `close()` around the mutex and the condition variable |
| `Handshake` | hello, redirect and keying between an initiator's calls and a responder that may restart |
| `Pairing` | abstract specification of keying: sessions of the two sides pair off. `Handshake` implements it |
| `BiStream` | both ends of a stream over two reliable flows: opening, data, closing, and three goroutines on each side |
| `NoisyChan` | the noisy channel, its two goroutines and the clock |
| `Ranges`, `RangeQueue` | ranges and the list of them |
| `RangeSet` | abstract specification: sets of positions. `RangeQueue` implements it |
| `SendSteps` | the sender's handlers with their steps apart, as an application, the dispatcher, the alarm and the probe run them at once |
| `RoundTrip` | timestamps, echoes, samples of the round trip, the retransmission timeout and its backoff, between two ends |
| `Mobility` | how a session follows a far end that changes its address |
| `Session` | `RoundTrip` and `Mobility`: what a session knows of its path |
| `Pipeline` | the goroutines and bounded channels between the socket and the sessions, while channels are put into the paths |
| `Transport` | `Pipeline`, and `NoisyChan` as the channel put into it |
| `Vlu`, `Options` | numbers of variable length, prefixed bytes and options |
| `Startup`, `SessionChunks`, `Amf` | the chunks of the handshake, those of an open session, the messages of a `net_stream` |
| `Packets` | chunks in packets: what one side packs, the other unpacks |
| `Stream` | `BiStream` and the `Packets` that carry it |
| `MC...` | the modules TLC runs, with the values a `.cfg` cannot express |
| `FlowProofs` | the proofs about flows |
| `RecvWaitProofs` | the proofs about `recv()` and its receivers |
| `RangeProofs` | the proofs about ranges and lists of them |
| `SessionProofs` | the proofs about the round trip, the retransmission timeout and the types of a session |
| `HandshakeProofs` | the proofs about the keys and the pairing of sessions |
| `CodecProofs` | the proofs about the codec: what is written is read back |
| `StreamProofs` | the proofs about a stream, the messages it carries and its packets |
| `TransportProofs` | the proofs about the noisy channel and the pipeline |

How they compose: `Flow` is built from `SendFlow`, `RecvFlow` and `Network`.
`BiStream` takes from `Flow` what `Flow` is shown to implement (each message
sent arrives once, and a flow that closed stops) and adds what happens above
flows. `RecvWait` opens up one step of `Flow`, `SendSteps` several. `Handshake`
ends where a stream begins. `Packets` shows that what the other modules send as a
record survives its encoding, and `RangeQueue` that what `RecvFlow` keeps as a
set may be kept as a list of ranges. `Pipeline` takes from `NoisyChan` that it
passes on what it does not drop, in order, and `RoundTrip` gives the alarm of
`SendFlow` its length. `Session`, `Transport` and `Stream` put two modules side by
side that keep their variables apart in the code too; a state of the one is in the
middle of any state of the other.

### Atomicity

A handler of a flow is one step in `Flow`. In the code handlers run in several
goroutines (the session's dispatcher, timers, the application) and, apart from
`recv_buf_mutex`, take no lock, so that two of them can overlap. `Flow` says
what holds when they do not, which is what the code is written for.
`RecvWait` takes one such step apart, with the data race on the receive buffer,
and `SendSteps` the handlers of the sender, where they read and write the queue,
`in_flight`, `inflight_bytes` and the ticker. `Handshake`, `BiStream`, `Pipeline`
and `NoisyChan` are written step by step where goroutines meet: channels, flags,
condition variables.

### State and actions: flows

`send_queue` is, in the code, a list in order of sequence number; here it is a
function from the sequence numbers queued to the chunks, with the fields of
`data_chunk` that matter (`send_count`, `in_flight`, `tsn`, `nak_count`).
`unordered_recv_buf`, a heap by sequence number, is also a function.
`recv_ranges` and `ack_ranges`, range queues in the code, are the sets of the
sequence numbers they contain. The payload of a chunk is its origin: message,
index and length. Two history variables, `sent` and `pushed`, record the
messages accepted and the chunks they became, and `delivered` the messages
`recv()` returned.

An action is a whole handler: `RangeAckNew` removes the acknowledged chunks,
counts the negative acknowledgements, marks losses, adjusts the congestion
window, starts or stops the probe ticker, transmits what now fits and resets the
alarm, as `on_range_ack` does. `TrySend` is written without a loop: a waiting
chunk is transmitted when there is still room once all the waiting chunks before
it have been. Time is abstracted: an armed timer may fire at any moment.

| Action of `Flow` | Code |
|---|---|
| `AppSend`, `AppRecv` | `send_flow.send`, `recv_flow.recv` |
| `RecvUserData`, `RecvBufferProbe`, `RecvRangeAck` | the `session.recv_...` handlers and the flow handlers they call |
| `Timeout` | `on_rtx_alarm`: `RtxTimeout`, or `RtxGiveUp` when a chunk was sent too often |
| `Probe`, `DelayedAck` | the probe ticker, the delayed-ack timer |
| `SenderCloses`, `ReceiverCloses` | `close` of each half |
| `Lose` | the network loses a packet |

### State and actions: the other modules

`Handshake`. A call of `create_session` has one tag, creates at most one session
and so names both. `net` holds every packet ever sent: each may arrive any number
of times, at any time, or never. The keys are the nonces in the order they are
hashed in; the shared secret of both sides, which the same nonces determine, is
left out. `recv_rikeying` is in four steps (`RecvRIKeying`, `Establish`,
`CheckChan`, `Notify`), as the end of `active_open` is (`LeaveLoop`, `Return`),
because they share the keys, the peer's id and `active_open_chan`.

| Action of `Handshake` | Code |
|---|---|
| `CreateSession`, `HelloTimeout`, `HelloAnswered` | `handshake.create_session`, the start of `active_open` |
| `KeyingTimeout`, `LeaveLoop`, `Return` | `session.active_open` |
| `RecvRHello`, `RecvRedirect`, `RecvIHello`, `RecvIIKeying` | the handlers of the same names |
| `RecvRIKeying`, `Establish`, `CheckChan`, `Notify` | `session.recv_rikeying` |
| `Restart` | a new process: `handshake.open` |
| `ServerAnswers` | the server between the peers (external) |

`BiStream`. `pushed[s]` is what side `s` put on its flow, `arrived` the messages
that reached the other side, `read` how many of them, in order, its dispatcher
took. `loop` is where the dispatcher is, `closing` where each goroutine is in
`close()`. A panic ends a process: `panicked`. A dispatcher takes a message
(`LoopTakes`) without another look at the flags that say the stream is closed; they
are tested before (`LoopTop`) and, of the flow in `LoopReturns` (`flow.go` 488) and of
the stream in `LoopActs` (`bi_stream.go` 67), after. When `close()` came in between, the
message in hand is dropped, a `play` after it was answered.

| Action of `BiStream` | Code |
|---|---|
| `Open`, `Opened`, `OpenTimesOut` | `bi_stream.active_open` |
| `Arrive` | `session.dispatch`: `recv_userdata` with `create_recv_flow`, or `recv_session_close_request` |
| `LoopTop`, `LoopTakes`, `LoopReturns`, `LoopReplies`, `LoopActs`, `LoopTellsEvent`, `LoopDelivers`, `LoopEnds` | `active_open_dispatch`, `passive_open_dispatch`, with `recv_flow.recv`, `net_stream.recv` and `recv_play` |
| `AppSends`, `AppReceives`, `AppCloses` | `send`, `recv`, `close` |
| `CloseChannel`, `CloseSession` | the two halves of `close` after its check |
| `Lose`, `ClientCommand` | the network; a Flash client's `closeStream` |

`NoisyChan`. `recv_packet` is `Drop`, or `Enqueue` then `Signal`; `send` is
`CheckQueue`, `Wait`, `TakeFront`, `WakeUp`, `UpdateSendBucket`, `SendPacket`,
`RemoveFront` and `LoopEnds`. `Tick` is a millisecond. `credit` is what an exact
bucket of `Speed` bytes a second would hold.

`RecvWait`. `Check`, `Lock`, `Remove`, `Wait` and `Wake` are the steps of
`recv()`; `OnUserData` and `Close` write, and `Signal` follows as a step of its
own. A message is its number, in one chunk. `PushBack` on `ordered_recv_buf`, a
`container/list` that the dispatcher appends to without the mutex, has a beginning
(`PushBegins`) and an end (part of `OnUserData`). When chunks were removed in
between (`Raced`), updates of the length may be lost, and when the last chunk was,
the list may lose its root or the dispatcher may panic: one of these is chosen.
`Nothing`, `Message` and `NoChunk` are what `Front()` then makes of the list. A
message of several chunks, half linked when it is read, is left out.

`RangeQueue`. An action is a call: add, subtract, combine two queues.

`SendSteps`. Each goroutine has a program counter `pc` and the list element it is
`at`; a chunk taken out of the list still exists for a goroutine that holds it,
and has no next. A step is an access to what others also access: the budget and
`in_flight` (`TrySend`), the counters and the chunk (`Count`), the front of the
queue (`Packet`), the alarm (`Arm`); `Remove` and `Subtract` of `on_range_ack`;
`Look`, `Lose` and `Shrink` of `on_rtx_alarm`; `Tick` and `Probed` of the probe.
The second half of `on_range_ack` (`Windows`) is one step: splitting it adds
races of the same kind. Single assignments are taken to be atomic, and counters
are modulo `Wrap`, 2^64 in the code.

`RoundTrip`. `clock` is the time of each end as far as timestamps tell it, modulo
their wrap; instants (`ts_rx_time`) are ages, so that time does not end. A packet
carries its timestamps, and as history the time it has been under way. `SendChunk`
is `session.send_chunk`, `RecvPacketInfo` the handler of that name, `Backoff` what
`on_rtx_alarm` does to `erto`. `sample` keeps, beside each measured round trip, the
true one. Durations are counted in `Fine` parts of a tick's unit, so that the
divisions of the estimate round as in the code.

`Mobility`. `RecvPacket` is `session.recv_packet` with the ping reply it may
contain, `RecvPing` the far end's `recv_ping`; `ping_age` is the age of
`mobile_tx_ts`.

`Pipeline`. A channel is a sequence of at most `ChanSize` packets, and a send to it
waits for room. `reader[d]` is the loop that reads path `d`: it looks at the field
that names its channel (`Look`), waits on that channel (`Take`), and handles the
packet; so it may still wait on the old channel after `SetChannelParam`.

| Action of `Pipeline` | Code |
|---|---|
| `SocketRecv`, `SocketSend` | `socket_bin.recv`, `socket_bin.dispatch` |
| `Look`, `Take`, `HandleHello`, `HandleKeying`, `DispatchToSession` | `handshake.dispatch` and `recv_packet`, with `create_passive_session` |
| `SendAnswer` | the goroutine that sends an answer to a hello |
| `SessionDispatch` | `session.dispatch` and the answer it sends |
| `SetChannelParam`, `TapTakes` | `SetInChannelParam`, `SetOutChannelParam`, and the channel they start |

`Packets`. `Send` packs the chunks, `Receive` unpacks them. Bytes are real bytes,
and so are checksum, padding and header. A cipher is modelled by its key: what is
read with another key fails the checksum. What the code only reads (bitmap acks,
next user data, redirects, the certificate of a Flash client) is written as other
peers write it, by definitions marked external.

## What is checked

| Run | Question | Bounds | Result |
|---|---|---|---|
| `flow` | safety of a flow, its inductive invariant, and its refinement of `MessageChannel` | 2 messages, the first of 1 or 3 bytes and the second (`LastIsLong`) of 3, segments of 2, a receive buffer of 4, so that the window closes and messages span chunks; 1 retransmission; packets lost, reordered, duplicated; the receiver may close | holds |
| `flow_live` | every message arrives, or the sender gives up or closes | 3 messages of one chunk through a buffer of two, with loss: the window closes and chunks are lost before and behind others | holds |
| `flow_small_buffer` | the same when a message spans chunks and fills the buffer | 2 messages of 3 bytes, a buffer of 4 | fails (finding) |
| `handshake` | keys agree, sessions pair off, nothing from before a restart is accepted, the dispatcher never blocks on a callback | a call through the server and a direct one, 2 hellos, 2 keyings, 2 sessions per run of the responder, 1 restart | holds |
| `handshake_hang` | an opened session goes on being served | one call, 2 keyings | fails (finding) |
| `stream` | opening is mutual, closing is orderly, each direction implements `MessageChannel`, messages arrive; what is unpacked is what was packed | 2 messages a side, a channel of 1, disorder, close by the active application and by `closeStream`; every chunk with numbers at the boundaries of 1, 2 and 3 bytes, data of 0 to 15 bytes, keys of 1, 126 and 128 bytes, byte arrays whose lengths take 1 to 4 bytes, nested objects, with and without session keys | holds |
| `stream_order` | no process panics | one message, disorder | fails (finding) |
| `flow_parts` | each message is taken once and in order, while the list is appended to without the mutex; the list of ranges stays canonical and implements sets | 2 receivers, 3 messages, close; 2 queues over positions 0 to 5: every pair of reachable lists under every operation | holds |
| `recv_wait_lost` | every message that arrives is received | one receiver, one message | fails (finding) |
| `transport` | no goroutine of the pipeline waits in a circle, datagrams are answered, taps lose and reorder nothing but one packet; the noisy channel keeps its limits | 3 datagrams of every kind (one iikeying at most), channels of 1, a session, a tap in each path; 3 packets of up to 4 bytes, of which those of 4 are too long and those of 3 larger than the bucket, delay 1, capacity 2, speed 2 in a second of 2 ticks, all limits and disorder at once | holds |
| `session` | samples are true round trips, the timeout covers them, backoff grows, the far end is found again | timestamps modulo 5 that wrap within the run, echoes up to an age of 3, delays up to 2, 3 packets sent, 2 in transit, duplicated; 3 addresses, 3 moves | holds |
| `send_overlap` | what `send()` accepts arrives | 2 messages of a segment, one retransmission, no losses | fails (finding) |

The bounds make the interesting cases happen. `flow`: a message takes two chunks,
the receive window and the congestion window both close, chunks are retransmitted
and given up, acknowledgements arrive late and twice. `handshake`: two sessions
at the responder for one at the initiator, RHellos of two runs of the responder,
answers after the last timeout. `stream`: the channel is full when the next
message comes, both chunks of the reply change places, two goroutines close at
once, and `close()` runs while either dispatcher has a message in hand. `transport`: every channel is full at once, a reader waits on the channel
that was replaced; in the noisy channel, the second packet arrives while the first
sleeps, the bucket is empty, a packet takes all of it, a packet is larger than it. `session`: clocks that
differ, timestamps of 0, echoes held until they are too old and repeated, a
timeout above the end of the backoff (`MaxErto`, 40, lies below the greatest
measured timeout); moves back to an address that an old ping is still under way to.

`flow_parts`, `transport`, `session` and `stream` check two modules each. These
share no variable and no step reads both, so a property of the one holds whatever
the other does, and a behaviour in which both move adds nothing: in the `MC`
modules a constant (`half`, `part`) says which of the two moves, the other rests in
one of its initial states, and the fairness conditions are those of the one that
moves.

Fairness. `Flow`: a packet that is sent again and again arrives in the end
(strong fairness: what a link that does not lose everything gives; without it no
protocol delivers); a running timer fires; the application keeps calling
`recv()`. It need not send. `BiStream`: goroutines run, packets of open flows
arrive, applications receive, and `active_open` ends, if only by its timeout.
`NoisyChan`: goroutines run and time passes. `RecvWait`, `Pipeline`, `SendSteps`:
goroutines run (and, in `SendSteps`, armed timers fire and the network delivers).
Nobody has to set a parameter. `Mobility`: the far end goes on sending and stops
moving, time passes, and of pings and answers sent again and again one arrives in
time (strong fairness, as for `Flow`).

### Properties

Flows:

- `ReliableDelivery`, `IsMessageChannel`: what `recv()` returns is what `send()`
  accepted, whole, in order and once.
- `AckedIsReceived`: a chunk leaves `send_queue` only when the receiver has it.
- `InflightAccounted`, `BufferAccounted`: the counters behind the two windows
  are the bytes they stand for.
- `SenderNeverStalls`: a flow that must move on has a timer
  that moves it on.
- `WindowRespected`: what is put in flight had a window for it.
- `EventualDelivery`: a message is returned, or the sender gives up or closes.
- `InOrderOnce` (`RecvWait`): as long as the process runs, several receivers take
  each message once, in order, although the dispatcher appends without the mutex.
- `Delivered` (`SendSteps`): the same as `EventualDelivery` for handlers that
  overlap. It is violated.

Sessions:

- `SampleIsRoundTrip`: a sample is the time its two packets were under way, up to
  the rounding of timestamps, whatever is lost, repeated or held.
- `ErtoCoversRoundTrip`, `BackoffNeverShrinks`: the timeout is longer than the last
  round trip, and a timeout never makes the next one come sooner.
- `AddressFollows`: a session finds a far end that has stopped moving.

Transports:

- `EveryDatagramAnswered`: whatever is full, each datagram read from the socket is
  answered or refused; a new tap may hold packets up only until the reader gets one
  more packet from the old channel.
- `OvertakenOnlyByDirect`: a session handles its packets in order, but for one that
  was taken past a new tap.

Setting up:

- `Agreement`, `IsPairing`: keys of both ends match, are never replaced, and no
  session of the responder serves two of the initiator.
- `PassiveWasInvited`: packets from before a restart create nothing.
- `CallbackNeverBlocks`: the goroutine that serves all sessions cannot block on
  the second answer to a hello.
- `SuccessHasKeys`: what `active_open` may claim when it ends while
  `recv_rikeying` is running.

Streams: `OpenIsMutual`, `ClosedIsShut`, `CarriesMessages`, `AllReceived`, and

- `OnlyLastDropped`: what a dispatcher took is received, in the channel or in its hand,
  in order. A full channel drops nothing; `close()` drops at most the message the
  dispatcher has in hand, although the flow may have acknowledged it to its sender.

Noisy channel: `Conserved`, `DelayRespected`, `RateLimited`, and

- `SignalReleases`: a packet queued while `send()` is not between its look at the empty
  queue and its `Wait` is sent on, unless it is larger than the bucket can get or stands
  behind such a packet: these are never sent (the table of further disagreements).

Ranges: `Canonical`, `IsRangeSet`. Packets: `ReceivedIsSent`,
`ReadsBack`.

## What is proved

All theorems hold for all values of the constants: any segment size, windows,
limits, message sizes and numbers of messages, with or without duplication. The
assumptions are those named in the modules and four hypotheses that theorems
state. For flows it is `NoEmptyMessage`; the second row of the table of further
disagreements shows why it is needed. `MessagesReadBack`, `ChannelKeepsRate` and
`OneOvertakesATap` name theirs below.

### Flows

`FlowProofs` proves that `IInv` (module `FlowInv`) is an invariant, and from
it each safety property the run `flow` checks: `TypeCorrect`, `Delivery`,
`NothingForgotten`, `InflightExact`, `BufferExact`, `Progress`, `Windows`, and
`Implementation`, the refinement of `MessageChannel`.

The properties are not inductive by themselves. `IInv` adds what relates the
parts of the system:

- `PushedInv`: the chunks pushed are whole messages one after the other, so that
  the first chunk that ends a message ends the one `recv()` is to return;
- `IsCopy`: every copy of a chunk, queued, in transit or buffered, is the chunk
  pushed under its number;
- `NetInv`: acknowledgements in transit, however old, name chunks the receiver
  has, and `AckedInv`: the sender drops only what it saw acknowledged;
- `RecvRangesInv`, `ReadInv`: the receiver has everything up to
  `last_ordered_seqnum`, and the unread part of it follows the messages delivered;
- `TimerInv`: an open flow without an alarm has not sent anything.

`FlowProofs` begins with the arithmetic of fragments and the algebra of
`Bytes`, which is defined as the cardinality of a set of byte positions so that
sums need no recursion. It goes on with what `TrySend` does (what it transmits is
a prefix of what waits, so it stays below the window until the last chunk), then
one lemma per action, then the theorems.

`RecvWaitProofs` proves, for any number of receivers and messages, `TypeOK` and
`InOrderOnce` of `RecvWait` from its `IInv`: between `read_message` finding a
message and removing it a receiver holds the mutex, so that what it found is still
at the front, whatever the dispatcher appends. `InOrder` says message by message
what `InOrderOnce` says of a concatenation, and `Parts` is `IInv` in the form that
the steps preserve one conjunct at a time.

### Ranges

`RangeProofs` proves both properties `RangeQueue` has, for any positions and any
sequence of calls: `Canonical` and `IsRangeSet`, the refinement of `RangeSet`. The
invariant `QueueIInv` says of every queue that it is a canonical list (its ranges are
not empty, in order and apart from each other) of positions no greater than `MaxPos`.

The operations of `range.go` walk a list and change it as they go; the model folds over
it. What a fold computes is reached by induction over sets of natural numbers
(`BoundedInduction`, from the well-foundedness of the naturals): a fold has a walk, the
sequence of its intermediate values (`WalkExists`), and what holds of each value of a
walk and the part of the list passed so far is shown from one value to the next. With
this, what each operation returns is canonical and holds exactly the positions it
should: union for `AddRange`, difference for `SubstractRange`, and so on for the
operations on two lists. `AddRange` is the hard one: it inserts a range before the first
it can be merged with, and `concat` then merges whatever touches; that what is merged
stays apart from the rest needs the list to be in order.

A canonical list is determined by its positions (`CanonUnique`), so that `Equals`, which
compares range by range, decides whether two queues hold the same positions.

### Sessions

`SessionProofs` proves `SampleIsRoundTrip`, `ErtoCoversRoundTrip` and
`BackoffNeverShrinks` of `RoundTrip`, and `TypeOK` of `Session`, for any clocks,
limits, margins and delays. A timestamp says when it was taken only modulo the
wrap of the clock, and in ticks. So the invariant `EInv` compares times modulo
`Period = Wrap * TickLen` (`Same`): a timestamp in transit is as old as its packet
and the fraction of a tick it lost (`StampsAge`); an echo stands for the time its
two packets were under way, without the time it was held, and has lost a second
fraction (`EchoesAge`). When an echo comes back, the difference of two clock
readings is the round trip but for some number of periods, and the
`RoundTripAssumption`, that what is echoed is young and packets live less than a
wrap, leaves only none. The clocks of the two ends may differ by anything: only
readings of the same clock are subtracted.

For the timeout `EInv` says that `erto` is at least `mrto`, at most `mrto` or the end
of the backoff, and that `mrto` covers the last sample: `srtt + 4 * rttvar` makes up
for a smoothed mean below the sample, but for what two divisions round off. The
upper bound on `erto` is what the backoff needs: a timeout above its end was
measured, and is not cut.

### Handshake

`HandshakeProofs` proves every property the run `handshake` checks: `TypeOK`,
`Agreement`, `PassiveWasInvited`, `CallbackNeverBlocks`, `SuccessHasKeys` and
`IsPairing`, for any calls, retries and restarts, in a network that repeats and
reorders everything. `Agreement` alone is not inductive: it speaks of the sessions,
and the keys are made from packets that may be old. `IInv` adds what a packet about
keys still means when it arrives: an `iikeying` carries the answer its initiator
holds (`KeyingCarriesAnswer`), an `rikeying` names a session of the responder and the
initiator it was made for (`AnswerNamesSession`). Both stay true because an answer is
never replaced: once a tag is gone from `requests`, no RHello finds it
(`WaitsForAnswer`). `SessionsNumbered` keeps a new session of the responder apart from
those of earlier runs, whose numbers it uses again. `KeysNamePeer` follows the keys of
an initiator through the four steps of `recv_rikeying`: before the last step the
number of the other session is still only in `other_sessionid`.

### Streams

`StreamProofs` proves the types of a stream (what `StreamTypeOK` says), `OpenIsMutual`,
`ClosedIsShut`, `OnlyLastDropped` and `CarriesMessages`, the refinement of
`MessageChannel` in each direction, for any payload, any capacity of the channel and
any choice of who closes. The invariant has, beside the types:

- `ReadArrived`, `LoopAttached`: a dispatcher reads only what arrived, and runs only
  where the stream is;
- `PassiveAnswers`, `StartAwaited`: `play.start` comes from a passive side that exists,
  and `active_open` returns only after one was read;
- `CloseInOrder`: where each of the three goroutines is in `close()`, so that the flows
  are closed after the channel whoever passes the check of `closed` first;
- `SentPushed`: what an application sent is the data on its flow, without the commands
  of the stream, and `OnlyLastDropped`, `KeptSent`: what the other side kept (with the
  application, in the channel, in the dispatcher's hand) is the data among the messages
  read, without the last when the dispatcher has dropped it, and so a prefix of what was
  sent. A dispatcher that dropped a message has ended, and takes no other.

`OnlyLastDropped` says place by place (`Lists`) that one sequence is the part of another,
where a filter would need recursion.

### Packets

`StreamProofs` also proves what the run `stream` checks of `Packets`: the types (`TypeOK` of
`Stream`), `ReceivedIsSent` and `ReadsBack`. The state is small. `PacketInv` says that the
packet is what the chunks and the header were packed to, that the chunks are some the code
makes (`Sendable`), and that what was received is what the reader makes of the packet; it
is inductive, since a packet is made and read in one step each. The work is in the
functions: that the reader makes of these bytes the chunks they were made from.

`CodecProofs` shows this for each writer and its reader, always in the same form: what a
writer wrote, followed by any bytes at all, is read as what was written, and the bytes
that follow are left (`Got`). Stated so, the pairs compose: an option is a length and two
numbers, a chunk is fields, options and data, a packet is a header, chunks and padding.
The lemmas about numbers (`VluReadsBack` and those on bytes and 16 bits) are used by all
others. Three readers do not know beforehand where to stop, and need an argument of their
own:

- the options of a chunk, which an empty one ends, and the chunks of a packet, which
  padding ends: read as a chunk, padding must give a length beyond the end of the packet;
- the ranges of an acknowledgement, each written as a distance from the one before, so that
  the lists must be in order and their ranges apart;
- chunks that only follow on another, whose flow, number and offset are those of the one
  before plus one (`DecodePlace`).

The model writes recursion as recursive functions, and such a definition says nothing to
the provers until a function of that kind is shown to exist. `CodecProofs` shows it for each by
induction (`SizeInduction` over the well-founded naturals): the digits of a number by
its size, readers by the number of bytes left, values of AMF by `Nesting`, which `AmfAssumption`
requires to be smaller for the fields of an object than for the object. That a
message is read back (`MsgReadsBack`) is then an induction on `Nesting`, and inside it one on
the number of fields.

`MessagesReadBack` has the hypothesis that `HeldByU29` holds of the lengths: a length from
2^20 to 2^21 - 1 needs four bytes, the first without bits, and `write_amf3_u29` does not
write it. The table of further disagreements has the variant in which `ReadsBack` is violated by
such lengths; that of a message alone needs no hypothesis.

### Transport

`TransportProofs` proves `Conserved`, `DelayRespected` and `RateLimited` of `NoisyChan`,
`OvertakenOnlyByDirect` of `Pipeline`, and `TypeOK` of `Transport`, in which the bounds of
all channels are.

The noisy channel: while `send()` sleeps, the packet it works on is still in the queue,
though not at the front when disorder put another before it (`FrontQueued`); packets have
different numbers (`Numbered`), so that it is this one that is removed; it has been sent
when it is (`SentIsOut`); and what `send()` still sleeps covers the delay that is left
(`DelayCounted`). For the rate, `RateIInv` compares the bucket, had it been filled at
every tick, with `credit`, the exact one: the difference is at most one packet, which was
paid for while the bucket was filled (`Paid`). `ChannelKeepsRate` has the hypothesis
`Speed = 0 \/ Speed >= Second`, no limit or at least a byte a tick: below that the code
rounds the rate to zero, which stands for no limit (the table of further disagreements has
the variant that shows it).

The pipeline: a packet is in one place at a time (`OnePlace`), the loop that waits on a
channel that was replaced is the only one that can take a packet past the new tap, and it
takes one (`DirectOnce`); what is handled, in the session's queue, in the reader's hand, in
the old channel, in the tap and still to be read comes in this order (`InOrder`, of
`ReaderFirst` and `SessionFirst`). `OneOvertakesATap` has the hypothesis `MaxTaps <= 1`. With
two taps in one path the dispatcher can wait on the first while the second is in place,
and what the first still holds may be newer than what the second took from the socket, so
that more than one packet overtakes (`MCTransport` with `MaxTaps = 2` shows it).

### What is only model-checked

Liveness, which needs fairness: `EventualDelivery`, `AllReceived`, `SignalReleases`,
`EveryDatagramAnswered`, `AddressFollows`. Every other property of a run that passes is proved.

## Findings

1. `flow_small_buffer` (`flow.go` 165): once chunks received out of order fill the
   receive buffer, the window is closed, and a closed window also blocks the
   retransmission of the missing chunk. The flow probes for ever, neither
   delivering nor closing.
2. `handshake_hang` (`session.go` 291): when the last timeout of `active_open`
   comes between the check and the use of `active_open_chan`, the dispatcher of
   the session blocks for ever, and `active_open` reports success.
3. `stream_order` (`session.go` 388): the second packet of a reply, arriving
   first, makes the active side panic.
4. `recv_wait_lost` (`flow.go` 588): a message that arrives between
   `read_message` and `Wait` wakes nobody.
5. `send_overlap` (`flow.go` 222): an acknowledgement and the retransmission alarm
   both find a chunk in flight and both subtract its bytes. `inflight_bytes`, an
   unsigned number, wraps, no window is ever large enough again, and what is sent
   later stays in the queue with no alarm to move it.

Further disagreements. Each is shown by a variant of a configuration that is kept here:
the same file with the values named, and the violated property as its only one. None is
among the runs.

| Configuration | Violated | What happens |
|---|---|---|
| `MCFlow`, `MayClose = {"send"}` | `ClosedHasNoAlarm` | `flow.go` 368: a late acknowledgement makes a closed flow transmit and start its alarm again |
| the same, `MsgSizes = {0, 1}` | `ReliableDelivery` | `flow.go` 531: a message of no bytes is accepted and never returned |
| `MCRecvWaitLost`, `MaxMessages = 2` | `NoPanic` | `flow.go` 575: `PushBack` overlaps the removal of the last chunk, and the dispatcher follows a pointer that is nil |
| `MCTransport`, `MaxSessions = 0`, `MaxDatagrams = 2`, `MaxTaps = 2`, `MaxPackets = 0` | `EveryDatagramAnswered` | `transport.go` 36: after a second `SetInChannelParam` the first channel still takes packets, which nobody reads |
| `MCTransport` | `AllSentOn` | `noisy_chan.go` 76: a packet queued just before `Wait` stays |
| `MCTransport` | `NoneIsStuck` | `noisy_chan.go` 120: a packet larger than `speed`, at which the bucket is capped, is never sent, and all behind it wait. `SetInChannelParam` and `SetOutChannelParam` (`transport.go` 27-51) set no `max_packet_size`, so that a speed of 1024 stops at the first full segment of 1460 bytes |
| `MCTransport`, `Speed = 1` | `RateLimited` | `noisy_chan.go` 51: speeds below 1000 bytes a second are no limit |
| `MCBiStreamOrder`, `Disorder = FALSE`, `Closers = {"active"}` | `NoPanic` | `bi_stream.go` 84: the dispatcher writes to a channel that a close request closed |
| `MCBiStreamOrder`, `Disorder = FALSE`, `Greets = TRUE` | `NoPanic` | `bi_stream.go` 203: a passive application that speaks first finds no `net_stream` |
| `MCSendOverlap` | `NoPanic` | `flow.go` 265: the chunk that is being sent is acknowledged and removed, and `Front()` of the empty queue is nil |
| `MCSendOverlap`, `Avails = {0, 30}`, `MaxMsgs = 1` | `NoPanic` | `flow.go` 351: the probe goroutine finds `bufprob_ticker` set to nil |
| `MCStream`, `Lengths = {1048575, 1048576, 2097151}` | `ReadsBack` | `amf.go` 205: lengths from 2^20 to 2^21 - 1 are read back wrong |

## Not modelled

- Ciphers and Diffie-Hellman (pure functions of a library): a key stands for what
  it encrypts. Peer ids, which the code computes and does not check.
- `session.recv_rhello_cookie_change` (`session.go` 194-197), which repeats the keying
  with a new cookie: no responder written here asks for it.
- `publish`, which no `bi_stream` sends; stream names, which are empty.
- What ends the process by design: unknown chunk and message types, and the
  handlers of `handshake` that panic with "should not called!".
- What the code leaves empty: `on_flow_exception_report`, `recv_session_close_ack`,
  `handshake.close`, the closing of a transport while packets are under way.
- Errors of the socket, statistics and dumps, the two echo programs.
- `get_vlu_size` answers 1 for every number: `Packets` assumes flow ids for which
  that is right. Keys of objects and strings longer than their length field
  allows are in the code's formulas but not among the inputs.
- Data races below the level of a single assignment, and those of
  `ordered_recved_bytes` and of the maps of `handshake`.

## Plan

Done, in this order: flows (`Flow` and what it is made of, with proofs), the
handshake, ranges, the noisy channel, streams, the waiting of `recv()`; then the
round trip and the address of a session (with proofs), the pipeline of a transport,
all chunks and messages, and the overlapping handlers of the sender; then proofs
about sessions, the handshake, streams, the noisy channel, the pipeline, ranges, the codec
and packets.

Next:

1. `WindowRespected` and `InOrderOnce` for the handlers in steps, as far as the races
   leave them true: `SendSteps` has only runs so far.
2. `ordered_recved_bytes` and `update_congestion_wnd` in steps, as `SendSteps` has
   them for `inflight_bytes`.
3. Session ids: the unlocked counter and maps of `handshake.go`.
4. `BiStream` over the flows themselves rather than what they implement.
