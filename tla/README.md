# A verification project for tentacle

The repository is a peer-to-peer networking stack: the `tentacle` library (a
multiplexed, encrypted connection manager), its protocols, and two small programs
on top (`connector`, `p2p-node`). This directory holds TLA+ models of it, the TLC
configurations that check them, and TLAPS proofs.

    tlc -config Yamux.cfg Yamux          # check one run
    tlc -config Channel.cfg Channel
    tlc -config Session.cfg Session
    tlc -config Service.cfg MCService
    tlc -config Sending.cfg Sending
    tlc -config Handlers.cfg Handlers
    tlc -config Secio.cfg Secio
    tlc -config Codec.cfg MCCodec
    tlapm YamuxPairProofs.tla            # check the proofs
    tlapm ChannelProofs.tla
    tlapm SessionProofs.tla
    tlapm ServiceProofs.tla
    tlapm SendingProofs.tla
    tlapm HandlersProofs.tla
    tlapm SecioProofs.tla

## 1. The system

Data flows through these layers; each is a task or a set of tasks which talk to
the next through channels.

| component | state it keeps | operations | what makes it correct |
|---|---|---|---|
| transports (`transports/`) | sockets, listeners | dial, listen, accept | (I/O of the system) |
| secio (`secio/`) | handshake state, cipher, read buffer | handshake, poll_read, poll_write | both ends agree on keys and peer; bytes keep their order, end of file is not forged |
| yamux session (`yamux/src/session.rs`) | streams, pending and blocked frames, pings, GoAway flags, socket buffer | open_stream, poll_next, handle_frame, keep_alive, shutdown | streams do not disturb each other; limits hold; it ends |
| yamux stream (`yamux/src/stream.rs`) | state, two windows, read buffer, waker | poll_read, poll_write, poll_shutdown, drop, recv_frames | flow control is exact; order; FIN after data; no lost wakeup |
| tentacle session (`session.rs`) | open protocols, state, pending data size, buffers | open/close protocol, handle yamux stream, timeouts, close | one open and one close event per protocol; a closed session reports once; buffers bounded |
| substream (`substream.rs`, `protocol_handle_stream.rs`, `buffer.rs`) | write and event buffers with priority | send, receive, close, flush | messages of a priority keep their order; none is lost without a close |
| channel (`channel/`) | two lock-free queues, message counter, parked senders | send, poll_ready, poll_next, close, drop | nothing lost; senders woken; bounded |
| protocol select (`protocol_select/`) | a negotiation in progress | client_select, server_select | both ends pick the same version |
| service (`service.rs`) | sessions, dial_protocols, listens, pending tasks, state count | dial, listen, session open/close, control tasks, shutdown | each session opened is closed once; limits; no address is dialed twice at once; shutdown ends |
| future task manager (`service/future_task.rs`) | spawned futures by id | spawn, done, shutdown | no future outlives the service |
| ping, identify, discovery (`protocols/`) | per-session protocol state, timers | connected, received, notify, disconnected | a healthy peer is not disconnected; a silent one is |
| connector, p2p-node | table of sessions, peers, protocols | events of the service | the table agrees with the open sessions |

How they interact: a `Session` of yamux is polled by one task and its
`StreamHandle`s by others; frames to a handle go through a bounded channel, events
from handles through an unbounded one. A tentacle session owns one yamux session
and spawns one task per substream; the service owns the sessions' event channels
and calls the handlers. Hard behaviours: handles and session interleave freely;
frames cross on the wire; FIN crosses FIN; a slow reader fills its channel; GoAway,
timeouts and broken connections arrive at any moment; wakers are stored in one
task and fired by another. `PROJECT.json` lists these as hazards, at their lines.

## 2. Plan

The most important part comes first: whatever the other layers do, all data goes
through yamux.

1. *(done)* `YamuxStream`, `YamuxPair`, `Yamux`, `YamuxPairProofs`, `YamuxProofs`: streams
   and sessions, refinement, liveness, proofs.
2. *(done)* `Channel`, `ChannelProofs`: the bounded priority channel, a step for each of
   its atomic operations, and its safety for any number of senders.
3. *(done)* `Session`, `SessionProofs`: life cycle of a tentacle session, its protocol
   streams and their reports.
4. *(done)* `Service`, `MCService`, `ServiceProofs`: dialing, listening, handshakes, limits, shutdown and
   the futures they run in, over abstract sessions.
5. *(done)* `Sending`, `SendingProofs`: a message on its way through service, session and stream, with
   priorities and `pending_data_size`.
6. *(done)* `Handlers`, `HandlersProofs`: the service-level handler's task and the ping, identify and
   discovery protocols and the connector's table, fed by streams that are closed, broken
   and opened again.
7. *(done)* `Secio`, `SecioProofs`: the handshake and the encrypted stream.
8. *(done)* `Molecule`, the modules of the five schemas, `Multiaddr`, `Codec`, `MCCodec`:
   messages as bytes, what verification lets pass and what accessors do with it.
9. *(done)* `NoProtocolError` and `DataBounded` of `Yamux` as theorems: the credit argument of
   `YamuxPairProofs` for every id, along a pipe that goes through five queues.
10. *Left:* the refinement `StreamIsPair` as a theorem; an abstract two-priority queue that
    `Channel` implements.

The dozen runs ask one question each; a reproduction of a disagreement that has no run of its own
has a configuration (section 4).

## 3. Modules

**YamuxStream** has no state. It holds frames, the `StreamHandle` record and the
methods of `stream.rs` as operators. A method maps a handle to an *outcome*: the
handle after, the frames and events given to the session, and the result. `read`,
`sent`, `rcvd`, `fin` and a frame's `upto` are history: counts of bytes that say
which byte of the stream a frame carries; the code has no such fields and no guard
reads them. Payload bytes are represented only by these positions. Windows are
naturals bounded by `U32Max`; the code's `checked_add` and its unchecked u32
subtraction are tested against it. The mutants next to the definitions (for
example `WindowUpdateOmitted`) are plausible bugs; they are used by no
specification, only to show that a property is able to fail.

**YamuxPair** is the abstract specification of a substream: two handles, and in
each direction a FIFO pipe which a session may cut, losing a suffix. Actions:
`Open`, `Accept`, `Reject` (create_stream and the limits), `RecvFrame`, `RecvEnd`
(recv_frames on a frame and on a closed channel), `Read`, `Write`, `WriteBroken`,
`WritePending`, `Shutdown`, `DropHandle` (the methods), `Lose`, `DropSession` (what
GoAway, end of file and dropping a `Session` do to a stream).

**Yamux** models two complete sessions: one record per side with the fields of
`Session`, its socket (`out`), its control commands, and its handles. The methods
of `Session` are functions from record to record; an action is one step of
`poll_next` (a flush, a command, a frame, an event, a timer) or one call of a
handle. The steps of `poll_next` are separate actions because handles run on other
threads between them. `StreamIsPair` maps a stream of it to `YamuxPair`: the pipe
is what the handle's channel holds, then `read_pending_frames`, then what the peer
has written or will write, up to a GoAway.

**YamuxPairProofs** holds the theorems about `YamuxPair`, **YamuxProofs** those about `Yamux`.

**Channel** models `channel/bound.rs` over `channel/queue.rs`, which all of tentacle's
tasks use to talk to each other. `inner` is the shared `BoundedInner`, `snd` the Senders,
`st` where each sending task is in its call, `rx` the Receiver and its task. An action
is one atomic operation or critical section: `inc_num_messages`, `Park`, `ParkLink`,
`ParkCheck`, `Push`, `Link`, `Signal` for a send; `PopQuick`, `PopNormal`, `unpark_one`,
`dec_num_messages`, `LoadState`, `Register` for a receive; `Close`, `UnparkAll`,
`close_channel`, `DropSender` for the ends. A push to the lock-free queue is two steps
(swap the head, link the node); between them the node is `unlinked` and `pop_spin`
waits.

**ChannelProofs** holds the theorems about `Channel`.

**Session** models one tentacle session. `ses` has the fields of `Session` that decide its
life, `sub[i]` the `Substream` with id `i` and the Close events it has sent, `net` what is
outside (the muxer's task, negotiations, the timer), `svc` what the service knows of the
session and `handles` the session-level handlers it waits for. An action of the session is
one poll with one event: `open_protocol`, `SelectError`, `UnknownName`, `StreamClosed`,
`TimeoutCheck` for what streams send, `SessionClose`, `ProtocolOpen`, `ProtocolClose`,
`ChangeState` for what service and muxer send, `FlushFailed` for `flush`; all end in `EndPoll`,
the match on the state at the end of `poll_next`. A stream may be closed
by the session (`recv_event`), by its peer or an error (`Dies`, `CodecError`), or by a failing
flush (`FlushError`, `BrokenPipe`). While its peer does not read and its `write_buf` is longer
than `send_event_size` (`WriteBlocked` until `WriteResumed`), a stream does not look at the
session's events at all.

**SessionProofs** holds the theorems about `Session`.

**Service** models `service.rs` with `service/config.rs` (`State`) and
`service/future_task.rs`. The loop handles one event or task at a time; an action is one
iteration, ending in `run`, the test whether the service is at its end. `tasks` are the
futures of the `FutureTaskManager`: a dial, a listen, a listener, a handshake, one of the
user's. A future waits for the manager (`queued`), runs, and is `signalled` when the manager
is dropped; it ends when it sees the signal (`FutureStops`), or by itself before. The results
(`DialSuccess`, `DialError`, `ListenStart`, `ListenError`, `Incoming`, `HandshakeSuccess`,
...) are taken in any order. `session_open` has the checks of the code: repeated
connection, peer id, limit. `log` is history: what the `ServiceHandle` was told of each
session. `Binds` says what an address may be bound to: itself, or another one for a name or
a port left open. `MCService` gives addresses: a host with and without the id of its peer to
dial, and an address and a name of it to listen on.

**ServiceProofs** holds the theorems about `Service`.

**Sending** models the way of a message through three tasks and four queues with two
priorities each: `handle_message` and `protocol_close` in the service, `recv_service` and
`distribute_to_substream` in the session, `recv_event`, `handle_proto_event`, `send_data` and
`Flush` in the stream. `PriorityBuffer::try_send` moves what fits from the session's buffer to the
stream's channel. A message is the number it got when the session accepted it, so that
order and gaps can be seen; `pending` is `pending_data_size`.

**SendingProofs** holds the theorems about `Sending`.

**Handlers** models `ServiceProtocolStream` and four handlers; `kind` says which one.
`Handle` is one `handle_event`: `Sweep` (sessions whose `closed` flag is set are
disconnected first), then the event. `Notify` is a timer. `out[s][i]` are the events of the
i-th stream of session `s` that are not yet handled; events of one stream come in order, those of two in any. The
service's own handler of the connector, `SessionOpen` and `SessionClose`, runs in another
task. Peers keep to the protocol, except that their lists may be too long: what
`verify_nodes_message` says of a list is left open. Timers exist from the start (`init` is not modelled).
`Forget` takes a set of sessions, as the loop over closed sessions does the same to each of
them whatever the order.

**HandlersProofs** holds the theorems about `Handlers`.

**Secio** models both ends of `handshake` (`SendProposition`, `RecvProposition`,
`RecvExchange`, `VerifyNonce`) and of `SecureStream` (`poll_read`, `poll_write`,
`poll_shutdown`). Cryptography is perfect: a signature names its key and what it covers, a
frame opens with the key and the counter that sealed it. `digest` stands for sha256 and has
few values, so that all three orders of the hashes occur. `Damage` and `Cut` are the network.

**SecioProofs** holds the theorems about `Secio`.

**Molecule** has the generated code's patterns as operators: verification, accessors and
builder of an array, a fixed and a dynamic vector, an option, a table and a union.
`DiscoveryMol`, `PingMol`, `IdentifyMol`, `HandshakeMol` and `ProtocolSelectMol` put them
together as the generated files do, each type by its name. An accessor's result says whether
it stayed in bounds. **Multiaddr** is the binary form of addresses. **Codec** adds the encoding and decoding
that is written by hand; a message on its way may get a field that a newer version knows
(`Extend`) and may be damaged. `MCCodec` has the messages.

Abstractions worth knowing:

- `ended` stands for `poll_next` returning `None` or an error and the owner
  dropping the session; the bytes not yet written to the socket are cut anywhere.
- `SinkCap` counts frames where the code counts bytes of the `Framed` buffer and
  the socket; `ChannelCap` is the capacity of `channel(8)`.
- `recv_frames` processes a frame per action where the code loops; every
  interleaving of the code is one of the model's.
- Control commands are modelled at the moment the session processes them.
- On end of file `read_pending_frames` are lost: the reader sees a clean end. The
  model keeps that, and `YamuxPair` allows it (`Lose`).
- A frame is a record. The byte encoding and `decode`'s limit on frame size are
  not modelled; `DataBounded` bounds what such a limit sees.
- Empty writes (`poll_write` of an empty buffer) occur only in `YamuxPair`.
- In `Channel` an operation is merged with its neighbour only where no other thread
  can see the difference: `park` takes its lock and swaps the queue's head in one step
  (nobody knows the handle before), the receiver pops a handle and notifies it in one
  (nobody else pops), and dropping the last Sender closes the channel at once (nobody
  is left to send).
- `Shared` says whether each task has a Sender of its own, as tentacle's tasks do by
  cloning, or all use one by reference, as `async_send(&self)` allows. The run `channel`
  and `Inductive` are about the former. With a shared Sender the unlocked look at
  `maybe_parked` and the lock are still one step, which leaves out some orders.
- Contents and priority of a message play no part except in which queue it is.
- The unbounded channel (`unbound.rs`) is the same without parking. The limits
  `MAX_CAPACITY` and `MAX_BUFFER`, near half of `usize`, are left out.
- In `Session` an event is in flight until it is handled, whether it waits in a buffer, in
  a channel or in the task spawned to send it; events of different senders arrive in any
  order. A poll of the code that handles two events is two polls of the model; the second
  event is dropped in both if the first leaves the state other than `Normal`.
  `FlushFailed` may happen to any session with a stream, and `WriteBlocked` to any healthy
  stream: how much data is pending is not modelled. At most one negotiation per protocol is under way.
- `RecvEvent` is possible in a session that became dead in the same iteration, as
  `recv_events` follows `recv_frames`.

- In `Service` a session is one entry with a task that ends when it will, and handlers
  always have room in their channels: the waits at `service.rs:765` and in
  `wait_handle_poll` cannot block the model. In the code the service can wait for a handler
  that waits for the service; a model of that needs bounded channels in both directions.
  `next_session` does not wrap around; an id that a session has is passed over.
- `Sending` gives all messages the size one. A close is sent with high priority, as in the
  code, and passes messages of normal priority.
- In `Secio` the lists of key agreements stand for those of ciphers and digests, which the
  same code selects from. Key and nonce of one end are fixed. The timeout of a handshake is
  in `Service`, as one of its results.
- In `Handlers` what an application does with addresses, nodes and misbehaviour is a
  nondeterministic choice; malformed messages are left to `Codec`.

## 4. Runs

| run | question | size |
|---|---|---|
| `yamux_pair` | is one substream safe and live, whatever the sessions do? | ~100k states |
| `yamux_streams` | two sessions that open streams up to their limits, with blocked streams, dropped handles, pings and a GoAway: does each stream stay registered while it can receive, is nobody blamed, and does a session end after GoAway? | ~650k |
| `yamux_fair` | a stream with data and a FIN through full channels, and a GoAway or a shutdown of the session at any moment: is it what `YamuxPair` allows, is what is held bounded, and does fairness of tasks give the fairness `YamuxPair` assumes? | ~72k |
| `channel` | two senders, one receiver, every interleaving: nothing lost, nobody asleep, and it ends | ~600k |
| `session` | a protocol opened, closed, broken and opened again, held up by its peer, while connection, service and handlers come to an end in every order | ~190k |
| `service` | dials, listens, incoming connections, handshakes and the user's futures with their failures, a disconnect and both kinds of shutdown at any moment: is the count exact, is each session reported once, and are all futures stopped at the end? | ~165k |
| `service_shutdown` | does a service that is told to close come to its end? It does not (below). | |
| `sending` | messages of both priorities and closes for two protocols with every queue full: all counted, none skipped, and all drained when no more come | ~190k |
| `handlers` | does a handler forget a closed session for good, and is a correct peer never reported for a duplicate? | ~580k |
| `secio` | do both ends agree although messages are damaged, is the stream intact, and do compatible peers connect? | ~690k |
| `codec` | does decoding damaged messages return, does it invert encoding, and is there one encoding? | ~1.1M |
| `ping` | is a peer that answers pings kept? It is not (below). | |

Bounds. Windows of 1 to 4 units with `InitialWindow` 1 make the window run empty,
be enlarged beyond the initial value, and be updated in part (an update is omitted
below half of the maximum). `MaxPipe`, `OpenerBytes`, `MaxWrite` stop a writer that would go on
for ever; five bytes are enough for the window to fill, empty and fill again. `Written`
limits which streams carry data: one of the client's in `yamux_fair`, none in `yamux_streams`,
where both sides open streams and use up their ids below `MaxStreamId`. The limits
`max_stream_count` differ there, two for the client and one for the server: the server refuses
streams, and the client has room for a stream whose id would be taken. The runs divide the calls: handles are dropped in `yamux_streams`, written to and
shut down in `yamux_fair`; a GoAway comes in both, at any moment. So a Drop that meets data is
only in `YamuxPair` and in the theorems of `YamuxProofs`. A channel and a socket for one frame
make both full at once. `MaxEvents`, `ClientPings`, `ServerPings`,
`MaxGoAways` bound queues that owners could fill. `Channel` has no bound except
`buffer` 1 and two Senders, enough for a sender to park behind another, and for the
second to be cloned while the first is parked. `Session` has one protocol with a
session-level handler and two streams, so that the protocol is opened again while events
of its first stream are on their way; `MaxStreams` bounds how often. `Service` has two
addresses of one host to dial, two names of one address to listen on, two keys, a limit of one
connection, any three commands and one incoming connection: both addresses are dialed, or the
address is listened on twice at once, while a connection comes in, and there is a command left
to shut down in the middle. `Sending` has two protocols, channels for one event and a
send buffer of one message; four messages fill all queues of a stream. The hypothesis of
`BurstDrains`, that traffic stops, holds in every behaviour of so bounded a model. `Handlers` has one
session with two streams, one after the other, and two ticks of each timer; a handler keeps
sessions apart in maps. `Secio` has lists of up to two of three names, one unknown, three keys,
one damaged message, and frames of one and three bytes for buffers of one and two. `Codec`
has one to four messages of each kind, each damaged in up to two places with bytes that
are small numbers, offsets or headers. `DecodeNeverPanics` is about the accessors of the
schemas; the decoding of a bare multiaddr returns errors and has nothing to trip over. The proofs need none of these bounds. Bounded owners
may stop, so a deadlock of the model is not an error and is not checked.

Fairness. The executor polls a task whose waker fired, every queue that `poll_next`
and `recv_frames` read registers one, so receiving, flushing, accepting and events
are weakly fair. Owners keep reading and keep polling the session. Timers that were
set fire. In `Channel` a thread inside a call goes on, a task whose waker fired is polled
(a spurious poll may happen and is not counted on), and the owner of the Receiver asks
for the next message until the end. In `Session` a task that has something to handle is
polled and what was sent arrives; a session that has handled something is polled again
(`poll_next` returned `Ready`), and a handler that was told to stop stops. A stream that
finds room in `write_buf` again and again takes an event of the session each time, and there
are finitely many before the Close: strong fairness of `recv_event`. One whose peer never
reads again is woken by the end of the muxer alone, which `clean` closes (`MuxCloses`; that it
ends is `GoAwayEnds`). In `Service`
futures other than the user's give a result (dials and handshakes have timeouts), sessions that
were told to close do, and a future that was sent a signal sees it. In `Sending` the three tasks are polled, and a sink that was full takes a frame
again and again unless the stream dies. In `Handlers` events are handled, timers fire (each
`notify` sets its timer again), and the stream of a closed session ends. In `Secio` a
handshake goes on when its message has come. Nobody is obliged to write, close, open or fail.

### Where the code does not do what the repository says

*With a run.*

- *Every pong disconnects the peer.* `ping/src/lib.rs:80` says a "peer must send a pong
  has same nonce to respond a ping". A pong is accepted only while `processing` is true
  (`ping/src/lib.rs:168`), and nothing sets it: neither `connected` nor the timer that
  sends pings. So a peer that answers is disconnected, and one that does not is never
  reported for a timeout.
- *A service that is told to close may stay.* `control.rs:239` says of `close`: "Close service",
  with the order "1. close all listens", "2. try close all session's protocol stream", "3. try
  close all session", "4. close service". `ServiceTask::Shutdown` (`service.rs:1208`) tells the
  sessions of the moment to close, and `pre_shutdown` does not stop what is under way: a dial
  that succeeds afterwards opens a session as usual, which nobody tells to close. In the
  counterexample of `service_shutdown` the service waits for this session for ever. A listen
  that succeeds late has the same effect. `shutdown`, the quick way, closes the channel that
  such results come through.

*With a configuration that reproduces it* (TLC reports a violation).

- `YamuxPairHalfClose.cfg`: half-closed writers stall. `error.rs:54` says that after the
  remote's FIN "local can still send data to remote". `recv_frames` returns in
  `RemoteClosing` before it looks at the channel (`stream.rs:266`), so no window update is
  seen and the writer stops at the end of its current window.
- `YamuxPairSessionEnd.cfg`: a parked writer is not told that the session ended.
  `stream.rs:42` says the stream should close with the session; only a window update wakes
  the writer (`stream.rs:240`).
- `YamuxLeak.cfg`: a stream closed by FIN after the local shutdown stays registered.
  `LocalClosing` to `Closed` (`stream.rs:187`) sends no event and neither does drop
  (`stream.rs:439`), so the entry counts against `max_stream_count` until the session ends.
- `ChannelShared.cfg`: a shared Sender forgets a waiting task. `bound.rs:498` says the task
  "is queued to be notified once capacity is available". A Sender has one slot for a waker,
  which `poll_unparked` overwrites (`bound.rs:344`), with nothing at all when `try_send`
  asks. When two tasks use one Sender, as tasks that share a `Connector` do in
  `Connector::send`, one of them may sleep for ever. With a Sender for each task
  (`channel`) this cannot happen.
- `SessionForgets.cfg`: a protocol whose stream breaks during a flush cannot be opened
  again. `substream.rs:234` says `error_close` will "output error and close stream". For a
  broken pipe it returns at once (`substream.rs:238`) and counts on the next poll to close,
  but after a failed flush the task ends (`substream.rs:459`). The session never hears of
  it, keeps the entry in `proto_streams`, and ignores every new stream of the protocol
  (`session.rs:417`).
- `ServiceRepeated.cfg`: a comment in `session_open` (`service.rs:619`) says a second
  connection to the same address with the same public key "will be closed". The check
  compares addresses before the peer id is added to the one that was dialed without it, so
  the two dials of one host, with and without the id, may both stay.
- `ServiceLimit.cfg`: `builder.rs:139` calls `max_connection_number` "The limit of max open
  connection(file descriptors)". The test (`service.rs:593`) is `<` where the new session is not
  counted yet, so one more than the limit may be open. `ConnectionsAreBounded` proves that it is
  never more than one.
- `ServiceCount.cfg`: when one address is listened on twice at once, under one name or two
  (`service.rs:1124` looks only at addresses that are bound already), the error of a listener
  and that of a listen are mixed up (`service.rs:1008`): the count is lowered too often or not
  at all, so that a service with a listen under way may take itself to be finished, or
  `*num -= 1` wraps.
- `SendingKilled.cfg`: a session is killed for a full send buffer while less than the
  limit is on its way: messages of a protocol that is closed are dropped but stay counted
  in `pending_data_size` (`session.rs:559`).
- `IdentifyTimeout.cfg`: `identify/src/lib.rs:332` reports a timeout ("receive identify
  message timeout") of the peers that *have* sent their message; the test on `has_received`
  is the wrong way round.
- `HandlersReopened.cfg`: a protocol that is opened again in the same session can be
  unknown to its handler: Connected of the new stream may be handled before Disconnected of
  the old one (`substream.rs:190` sends it from a task of its own), which then removes the
  session from the handler. Messages of the new stream are ignored from then on. A message of
  the old stream handled after the new Connected counts as one of the new, so that an
  honest peer may be reported for a duplicate; hence the hypothesis of `NoFalseDuplicate`.
- `HandlersGhost.cfg`: `add_protocol` (`shared.rs:104`) creates the entry of a session, so
  Connected handled after SessionClose leaves an entry for a session that is gone, for ever. The
  same order of tasks lets `SimpleProtocolHandler::received` find no entry and panic.
- `SecioEmptyRead.cfg`: a read into an empty buffer with something left in `recv_buf`
  fetches the next frame and overwrites `recv_buf` with it, against the comment at
  `secure_stream.rs:66`. The yamux session never reads so.

*Noted without either.* The documentation of `channel` (`bound.rs:27`) gives its capacity as
`buffer + num-senders`; the message of a dropped Sender stays, so the bound that
holds (`Bounded`) counts every Sender there ever was. The branch marked unreachable in
`poll_read` (`stream.rs:367`) is reached by a second `poll_shutdown` with unread data. The
documentation of `send_go_away` (`session.rs:228`) says the connection stays open,
but the peer's answer makes the session dead. A dialed connection
over the limit is dropped without an event and leaves its entry in `dial_protocols`, as does a dial
that fails at once (`service.rs:383`): later dials of that address do nothing.
`distribute_to_substream` stops at the first stuck stream (`session.rs:370`), and every queue
takes high priority first: while traffic goes on, other protocols and messages of normal
priority may wait for ever. `BurstDrains` says no more than that they are served when the
traffic stops. `discovery/src/lib.rs:133` takes the *larger* of
`MAX_ADDR_TO_SEND` and what the peer asks for. p2p-node rejects an inbound session
(`node/mod.rs:246`), but its protocols may have put it in the table by then. The
connector's service handler is `unimplemented!()` for all other events.

## 5. Proofs

`YamuxPairProofs` proves, for all window sizes with
`InitialWindow <= max <= U32Max`, all bounds and any number of steps
(`ConfigAssumption` and YamuxStream's assumptions on the constants):

- `InductiveInvariant`: `Spec => []Inductive`;
- `TypeCorrect`, `WindowsSafe`, `NeverProtocolError`, `DeliveredInOrder`,
  `FinIsComplete`, `WakeupNotLost`: the safety invariants of `yamux_pair`;
- `CreditOnlyGrows`: the action property.

None of the invariants is inductive alone: that a data frame fits in the window
depends on credit that is still in flight the other way. `Inductive` orders, for
each end, the writer's credit, the window updates in flight and the receiver's own
limit (`CreditOK`); the bytes received, the data in flight and the bytes sent
(`DataOK`, `NoGap`); it says that a FIN comes after the last byte (`FinOK`), that
who announced it has finished, and that the last byte is in the pipe as long as the
receiver takes frames. The proof shows that every method of a handle is `Local`
(it gives at most one frame to the session, data or credit, continuing what it gave
before), that adding such a frame, taking the first frame and cutting a suffix keep the
ordering facts, and then goes through the actions.

`YamuxProofs` proves, for every `MaxStreamId`, all windows, limits and capacities and any
commands and calls of the applications (`SessionAssumption`):

- `StreamsHold`: `Spec => []StreamsInv`, and from it `YamuxTypes`, `SynIsNeverQueued` and
  `StreamsStayRegistered`;
- `PingsAreInFlight`, from `StreamsInv` and `PingsInv`;
- `FlowHolds`: `Spec => []FlowInv`, with `StreamsInv`, and from it `NoProtocolErrors` and
  `DataIsBounded`.

That a readable stream keeps its `frame_sender` is not inductive: a `Closed` event of an
earlier stream with the same id, or a second SYN, would take it away. `StreamsInv` therefore
follows the life of an id. It is *unborn* at its acceptor while the opener has not chosen it,
has its SYN in the event channel, or has it in `write_pending_frames` or on the wire
(`Unborn`), and there is one SYN at most (`SynOnce`); as long as it is unborn the other side
has no handle, no sender and an empty channel for it (`Cross`, `NoneOK`); a `Closed` event on
its way is of a stream that receives no more (`ClosedOK`); and nothing with a SYN is kept in
`read_pending_frames`, so that `distribute_to_substream` meets one only as the frame that just
came. The loop of `distribute_to_substream` is a recursive function `after`; its invariant
(`LoopOK`) is carried through by taking the least round at which it would fail, a fact about
sets of numbers that needs no induction theorem. `PingsInv` says that pings and their answers
are in the order of their ids along the two wires and that `pings` is the set of them, while
neither side goes away (`Calm`): `split_off` takes out all pings up to the answered one, which
is right only because the earlier answers have come before.

That a handle never meets too much data, or too much credit, is not inductive either: it
depends on everything between two handles. `OnItsWay` is the path of a stream, from the
receiving handle backwards: its channel, `read_pending_frames`, the socket,
`write_pending_frames` and the sender's event channel. `FlowInv` says of each path that
every frame of the stream on it begins (`Start`) where the receiver has come to or later and
ends where the sender has come to or earlier, counted in bytes for Data and in granted bytes
for window updates; that it ends before the next one of its kind begins; and that what one
end may send is within what the other has granted (`Credit(b) <= Grant(a)`). Frames are
lost on the way, on GoAway, when a stream is refused or a session dropped, and a session
regroups its queues all the time: the proof needs only that no frame *overtakes* another of its
stream. `Thinner(p, q, id)` says this of two queues, and is reflexive, transitive and
monotonic in concatenation. Every operation of a session is then shown to carry its paths on
(`Carries`), with at most one new frame at the end (`Sends`), which every method of a handle
but `handle_frame` chooses to begin where the last one ended (`Tame`). In the loop of
`distribute_to_substream` this is an invariant of its own (`LoopFlow`): a frame passes those
that wait for other streams, and something waits for a stream only while it is blocked. That
a stream's first frame finds fresh counters at both ends is `Pristine`. `DataIsBounded` follows by adding up
the Data frames of a path one after the other.

`ChannelProofs` proves, for every finite set of tasks and every buffer size
(`ChannelAssumption`):

- `AlwaysCounting`: `Spec => []Counting`, and from it `ChannelTypes`, `CountIsExact` and
  `ParkedAreCovered`, whether tasks share a Sender or not;
- `AlwaysInductive`: `Spec => []Inductive` when they do not (`~Shared`), and from it
  `ChannelIsBounded` and `TheEndIsTheEnd`. The hypothesis is needed: with a shared Sender a
  task can park a handle that is parked already, and a waker can be overwritten.

`Counting` is the bookkeeping: a message is counted in one place at a time as it moves
from its sender through a queue into the receiver's hand, and every handle in
`parked_queue` is covered by a message that is still to be received, each of which takes
one handle out. `Inductive` adds that a handle is in the queue at most once and exactly
while `is_parked` (`HandlesOK`); that the owner of a parked Sender cannot get past
`poll_unparked` while the channel is open, and that a task that waits has been woken or has
its waker in a parked handle (`SendersOK`); and that messages beyond `buffer` are paid for
by Senders that are parked or about to be (`DebtOK`). That the channel is bounded is not
inductive alone, as a receive lowers the counter one step after it lets a Sender go: the
message in hand stands in for it (`Unparked`). At the end the counter is 0, so nothing is
in flight, hence no handle is parked, hence whoever waits was woken. TLC agrees with
`Inductive` for two Senders and buffers of 1 and 2.

`SessionProofs` proves, for every set of protocols and any number of streams
(`SessionAssumption`): `SessionInductive`, `Spec => []Inductive`, and from it `SessionTypes`,
`HealthyIsRegistered` and `SessionEndIsReported`. A healthy stream stays registered because a
Close that arrives late is of a dead stream (`Kept`: whoever has sent Close is dead), ids
are used once, and a stream that is still in `substreams` owns its protocol's entry; so the Close of an
old stream, which may come twice and after the protocol was opened again, cannot remove
the new one. That the end is reported needs that `LocalClose` never outlives the poll that
set it without `close_session` (`Told`). The proof shows it of the end of a poll once
(`EndOfPoll`) and then of what each event does to the registers.

`ServiceProofs` proves, for all addresses, keys, limits and bounds (`ServiceAssumption`):

- `ServiceTypes`: types, and that ids of futures are unique. `VacantId` is a pigeonhole
  argument: among as many ids as there are futures and one more, one is free.
- `SessionsAreReported`, `ListensAreCurrent`: inductive with the types. The handlers are
  told when the *number* of addresses differs; this suffices because one step adds or
  removes, and never both.
- `PendingIsCounted` and `ConnectionsAreBounded`, when no address is listened on twice
  (`ListensApart`, the hypothesis inside `PendingCounted`: no listen is under way that may be
  bound to what is listened on, or to what another listen may be bound to). `ListenError`
  cannot tell the error of a listen from that
  of a listener except by whether the address is in `listens`; the invariant (`Listened`)
  says that this tells them apart. The hypothesis is needed: `ServiceCount.cfg`. The limit
  is tested with the sum of sessions and count, so it needs a count that is not negative.
- `DialsAreRemembered`, when no connection comes in from an address that is dialed
  (`InboundApart`). The hypothesis is needed: `session_open` forgets the address of an
  inbound session too. Inbound connections come from ephemeral ports, so that it is met
  unless a dialed port is bound for dialing out.

`SendingProofs` proves, for any protocols, channel sizes and numbers of messages,
`SendingTypes`, `NothingIsSkipped` and `PendingIsEnough`. The inductive invariant looks at each stream and
priority: the write buffer holds consecutive numbers that follow those on the wire, and
write buffer, channel and session buffer together are `Ordered`, each number between wire
and accepted once. It also says that a dead stream leaves no message in channel and write
buffer: else one that is opened later would send what was meant for its predecessor.
`PendingIsEnough` counts numbers rather than queue entries: `pending` is at least the
number of numbers given and not yet on the wire (`Outstanding`), plus what is in the
session's channel and in the service's hand (`Covered`). Every step changes one of the
three by as much as it changes `pending`, or by less; and because the messages of a lane
are increasing numbers, those in the queues map into `Outstanding` one to one
(`LanesCounted`). That close commands travel with high priority only (`Routed`) keeps them
apart from messages in the count.

`SecioProofs` proves, for any lists, keys and frame sizes:

- `SecioTypes` and `PeersShareSession`. What an end believes comes from messages that may be
  damaged; the invariant (`Agreement`) says what a signature that verifies can only have
  covered (`Signed`), that each phase of an end goes with what the other has sent
  (`Phased`), and that both keys come from both propositions (`Established`).
- `StreamsAreIntact`, when no read has an empty buffer (`NoEmptyRead`), which
  `SecioEmptyRead.cfg` shows to be needed. `Streams` says of each direction that bytes read,
  buffered and on the way follow each other, that counters of sealed frames do too, and that
  a reader that meets a damaged frame never opens one behind it.

`HandlersProofs` proves, for any sessions, streams and ticks, `HandlersTypes` and
`NoPeerIsFalselyBlamed`. A duplicate is reported when what comes is already counted, so
the invariant (`Consistent`) says of a session with one stream that what is counted is
nowhere on its way again: not among the events to be handled, and not as a request on its
way to the peer. Identify and GetNodes are on their way only if said, and said once; Nodes
come from a GetNodes that is sent when Connected is handled, which is always the first
event of its stream. The proof first reduces each handler's reaction to what it counts,
sends and reports as a duplicate (`Acts`, `Ticked`; a report of too long a list changes none of
these, `ActsAfterTooMany`), with the sweep before (`Outcome`), and then shows
that any such reaction keeps `Consistent`. A protocol that is opened again breaks it
(`HandlersReopened.cfg`), hence `opens[s] <= 1` in the property.

Only model-checked: liveness (`Delivered`, `WriterUnblocked`, `GoAwayEnds`,
`StreamIsFair`, `AllReceived`, `SenderProceeds`, `ClosedEnds`, `SessionEnds`, `StreamsEnd`,
`FuturesEnd`, `BurstDrains`, `SessionForgotten`, `PeersConnect`), which the
prover does not handle; the refinement `StreamIsPair` of `Yamux`, which filters whole pipes
of frames and holds only while a pipe is shorter than the bound `MaxPipe` it is instantiated
with (`NoProtocolError` and `DataBounded` do not rest on it: they are theorems of
`YamuxProofs` in their own right); and what `Codec` computes, which is recursion over bytes.
Some theorems state properties that hold in the runs too but are not listed there
(`TypeOK`, `Bounded`, `CreditGrows`, `ListensCurrent`, `ConnectionsBounded`, `SynNeverQueued`): the theorem says more than a run would.

## 6. Not modelled

`PROJECT.json` says for each component what is left out. For good: sockets and transports,
the runtime, UPnP and DNS, cryptographic algorithms and peer ids, the text form of
addresses, examples, benchmarks, fuzz targets and the wasm demo: they keep no protocol
state, or are I/O around external code. The yamux frame's byte form is a fixed header that
frames as records stand for. Left out so far: `SessionProtocolStream` and the split halves of
a protocol stream that the user polls; the unbounded channel, whose steps are those of the
bounded one without parking; the choice of a version in `protocol_select`, which is the
application's function; the deadlock of service and handlers that full channels may cause
(`service.rs:765`); p2p-node's own answers to discovery and identify.
