# xrtc: TLA+ models, checks and proofs

This directory specifies the logic of the xrtc system: the media server
(`src/xrtcserver/src`), the HTTP signaling gateway in Go (`src/signaling/src`)
and the client library (`src/xrtcsdk/xrtcsdk/xrtc`). Source paths without a
prefix are relative to `src/xrtcserver/src`.

## 1. The system

An application with the client SDK, or a browser, asks the gateway over HTTP to
push or pull a stream. The gateway opens a short TCP connection to xrtcserver,
sends one request (36-byte head and JSON body) and waits for one answer. The
server negotiates a PeerConnection; from then on media flows over ICE, DTLS and
SRTP, and the server forwards what a publisher sends to the pullers.

| Component | State it keeps | Operations | Talks to |
|---|---|---|---|
| Client SDK pusher, puller | session, peer connection, statistics timer, reports | create, start, offer, answer, statistics, stop | HttpManager, api and worker threads |
| HttpManager (thread) | requests, finished transfers | post, poll, reply | gateway over HTTP |
| Capture devices | started or not | start, stop | api and worker threads |
| Go gateway | round-robin selector, open calls | push, pull, stop push, stop pull | xrtcserver over TCP |
| SignalingServer (thread) | listening socket, `next_worker_index_` | accept, dispatch in turn | SignalingWorker: fd queue and notify pipe |
| SignalingWorker (threads) | `conns_`, one TcpConnection per client, `q_conn_`, `q_msg_` | new connection, read, parse, request, answer, write, idle timeout, close | RtcServer: message queue and pipe |
| RtcServer (thread) | `q_msg_`, certificate, workers | route by crc32 of the stream name | RtcWorker: queue and pipe |
| RtcWorker (threads) | `q_msg_`, an RtcStreamManager | push, pull, stop | the SignalingWorker that asked: queue and pipe |
| LockFreeQueue | linked list with `first`, `divider`, `last`, `size_` | produce, consume | one producer and one consumer thread |
| RtcStreamManager, RtcStream | `push_streams_`, `pull_streams_`, ice timers | create, replace, stop, fail, time out, route packets | PeerConnection through signals |
| PeerConnection | state, descriptions, transports, receive streams, destroy timer | set offer, answer, dispatch packets, report state, deferred delete | TransportController, receive streams |
| TransportController, IceAgent | state per transport and the two summaries | recompute on every signal | DtlsTransport, IceTransportChannel |
| DtlsTransport, DtlsSrtpTransport | DTLS state, cached ClientHello, SRTP sessions | start, packets, events, key export | IceTransportChannel, SrtpTransport |
| IceTransportChannel, IceController | connections, two `selected_connection_`, reported state | ping, sort, switch, update, destroy | IceConnection |
| IceConnection, StunRequestManager | write and receive state, rtt, pending pings | ping, response, error, timeouts | UDPPort |
| VideoReceiveStream, AudioReceiveStream | RTP module, statistics, NACK list | packets, RTCP, timers | transports |
| NackRequester | list of missing numbers with retries | packet, timer, key frame clean-up | RTCPSender |
| ReceiveStatistics | counters per source | update, report block | RTCPSender |
| RTCPSender, RTCPReceiver | pending flags, next time to send, last sender reports | build, send, parse | transport |
| RoundRobinPacketQueue, PacingController, TaskQueuePacedSender | packets by priority and source, budget, delayed tasks | enqueue, process, schedule | packet sender |
| Formats | none | write and parse RTP, RTCP, STUN, H.264, header extensions | everything above |

What is hard here: five kinds of server threads connected by queues and
blocking pipes, and four more in the client; a file descriptor and an address
that are reused while an answer is on its way; a caller that gives up while the
callee carries on; signals that delete the object that sent them; two objects
that each remember "the selected connection"; summaries computed while the
signals they are made of are half delivered; sequence numbers that wrap while
packets are lost, late and repeated; timers that race with what they watch;
byte formats with fields at the end of their range. `PROJECT.json` lists these
hazards at their lines.

What makes each part correct: a request is answered once, to the client that
asked, and never waits behind a lost wakeup; client and server agree on what
was done; the queue is a FIFO and frees what it should and nothing else; a
stream name has one publisher, tables do not dangle, failures stay local,
timers and signals never reach freed objects; the channel selects connections
that can send and fails when the peer is gone; the reported PeerConnection
state is the current one and "connected" means that media can flow; only
missing packets are asked for, not too often, and losses are reported as they
were; the pacer keeps its rate, shares it and sends everything; what is written
to the wire is read back.

## 2. Modules

| Module | Models | Abstraction |
|---|---|---|
| `SignalingPath` | signaling server and workers, rtc server and workers (`server/`) | request contents, JSON and certificates are left out; a notify pipe is a counter with a capacity |
| `TcpConnection` | `read_query`, `_process_query_buffer`, `process_timeout` for one connection | bytes are counted, sizes scaled down, time advances in ticks |
| `FifoQueue` | the queue a user of LockFreeQueue may expect | abstract specification |
| `LockFreeQueue` | `base/lock_free_queue.h`, one step per shared access | nodes are numbered in the order they are made |
| `RtcStreamManager` | `stream/`, and the life of a PeerConnection | a stream is its kind, user, name and state |
| `IceLink` | what the layers above see of an IceTransportChannel | abstract specification |
| `IceChannel` | `ice_transport_channel`, `ice_controller`, `ice_connection` | any pingable connection may be the next to be pinged; limits in time become nondeterminism |
| `PeerTransport` | `transport_controller`, `dtls_transport`, `dtls_srtp_transport`, `ice_agent` over any IceLinks | records and packets are events |
| `SequenceNumbers` | `AheadOf`, `ForwardDiff`, unwrapping | the space of numbers is a parameter |
| `NackRequester` | `modules/video_coding/nack_requester.cpp` | functions on its state; the histogram is its answer |
| `ReceiveStatistics` | `receive_statistics_impl.cpp` | packets are counted, not bytes; jitter is left out |
| `RtcpModule` | `rtcp_sender.cpp`, `rtcp_receiver.cpp`, `rtp_rtcp_impl.cpp` | packets are records of what they carry |
| `MediaReceive` | composes the four above as `VideoReceiveStream` with its timers and the network | an unreliable network and a clock in ticks |
| `ByteOrder` | big-endian reading and writing | |
| `RtpHeaderExtensions`, `VideoLayersAllocation` | `Write`, `Parse` and `ValueSize` of the extensions | byte sequences |
| `RtpPacket` | `rtp_packet.cpp`, `rtp_header_extension_map.cpp` | the buffer keeps the memory it was made from |
| `H264Packetizer` | `rtp_format.cpp`, `rtp_format_h264.cpp` | a NALU is its header and a numbered payload |
| `RtcpPackets` | `rtcp_packet.cpp`, `rtcp_packet/` | |
| `StunMessage` | `ice/stun.cpp` | HMAC and CRC are external functions |
| `Sdp` | `set_remote_sdp`, `create_answer`, dispatch of packets in `peer_connection.cpp` | a line is a record |
| `Negotiation` | the offers of a browser over `Sdp`: what `set_remote_sdp`, `create_answer` and the two descriptions of the TransportController make of them | one negotiation is a step |
| `Formats` | composes the nine above: one behaviour per value that is written and read | values from small sets |
| `RoundRobinPacketQueue` | `round_robin_packet_queue.cpp` | functions on its state |
| `Pacer` | `pacing_controller`, `interval_budget`, `task_queue_paced_sender` over that queue | time in ms; tasks may run early or late |
| `SignalingGateway` | the four actions of the gateway and its xrpc client, and the media server as they see it | a call is its kind, server, result, reply and what its connection heard; one stream name; every session is a user of its own |
| `ClientSdk` | the SDK over that gateway | an offer is made or fails; no frames |
| `SignalingPathProofs`, `RtcStreamManagerProofs`, `IceChannelProofs`, `PeerTransportProofs`, `MediaReceiveProofs`, `PacerProofs`, `ClientSdkProofs` | theorems about the module they are named after; those of `PeerTransportProofs` also about `Negotiation`, which decides the transports there are | |
| `SignalingInputProofs` | theorems about `LockFreeQueue` and `TcpConnection`: how connections and bytes reach a SignalingWorker | |
| `MC*` | model values, lists, priorities and symmetry for TLC | |

Composition: `IceChannel` is checked and proved to implement `IceLink`, and
`PeerTransport` uses `IceLink` steps for its channels, so what it shows holds
over every channel that behaves like the detailed one. `LockFreeQueue`
implements `FifoQueue` (proved as well), which is how `SignalingPath` treats `q_conn_`.
`MediaReceive`, `Formats`, `Pacer` and `ClientSdk` extend the modules of their
parts and call them where the code does.

Correspondence of state and actions to the code:

* **SignalingPath.** `conns[w][fd]` is `conns_` of worker `w`, `heap[a]` the
  TcpConnection at address `a`, `qX`/`nX` a queue and the notifications in its
  pipe, `pcX` the point in a handler at which a thread may be overtaken (a push
  done and the pipe not yet written; the fd closed and the slot not yet
  cleared; a reply being written). One action is one callback up to such a
  point. `size[w]` is `conns_.size()`: an fd above it makes the vector grow, an
  fd equal to it is written past the end (`strays`). Such an entry is kept or
  lost, the checks against the size never accept it, and it goes when the vector
  grows; a crash or damage to other memory is left out. `owner` is the kernel's view of the fds; `seat`, `asked`, `served` and
  `got` are history.
* **TcpConnection.** `conn` has `bytes_processed`, `bytes_expected`, the length
  of `querybuf` and the state; each iteration of the parsing loop is a step.
* **LockFreeQueue.** `ProduceLink`, `ProducePublish`, `ProduceCount`,
  `ProduceTrim` are the lines of `produce`; `ConsumeTest`, `ConsumeCopy`,
  `ConsumeAdvance`, `ConsumeCount` those of `consume`. Only `size_` is
  `std::atomic`; `last_` and `divider_` are plain pointers that both threads use
  (`lock_free_queue.h:75-77`). Steps interleave without weaker outcomes under
  the assumption the header states, that a pointer is read and written
  atomically and in order; nothing in the language guarantees it.
* **RtcStreamManager.** One callback of the event loop is one step. Only a
  state report is two: the handlers of `signal_connection_state`, and the
  return into the PeerConnection (`StoreState`), because the handlers may
  delete the stream in between. `pc[i]` is "destroying" for the 10 ms between
  `PeerConnection::destroy` and `destroy_timer_cb`.
* **IceChannel.** `channel.selected` and `channel.ctlSelected` are the two
  `selected_connection_`. A callback that sends several signals
  (`received_ping_response`; the ping timer, which updates all connections before
  it pings one) is one step per signal, and `callback` says which one runs and
  what it has still to do, so that nothing comes between. A connection is
  `pingable` if it has the ufrag and the password of the remote side; the ping
  timer starts with the first of these (`_maybe_start_pinging`). The
  rtt of a deleted connection that the controller still points to is any value
  once its memory is reused.
* **PeerTransport.** A step computes in order the moments at which
  `TransportController::_update_state` runs during one event and collects what
  it reports. A DTLS event that opens and ends the connection in one call
  (`SE_OPEN` with `SE_READ`) is one step; a callback of a channel that changes it
  several times is several, and `within` and `reports` span them.
* **MediaReceive.** `nack`, `stats` and `rtcp` are the members of
  NackRequester, ReceiveStatistics and the RTCP module. One packet or one timer
  is one step, with everything it triggers in the order of the code (statistics,
  then NACK, then the compound packet in `out`). `got`, `skip` and `restarted`
  are history: what really arrived, and where the sender jumped.
* **Formats.** `coded` holds a value, its bytes and what parsing returned (of a
  negotiation the offer, the answer and the PeerConnection);
  `packet` and `ids` are an RtpPacket that is built setter by setter, and an
  extension map that is filled one registration at a time.
* **Pacer.** `tasks` and `delayed` are the task queue, `next_process_time_`,
  `budget`, `last_process_time_` and `queue` the members. `ProcessPackets` is a
  step per packet, because the clock moves while it sends. `meter` and
  `overtaken` are history: a leaky bucket at the pacing rate, and how much one
  source has sent since another one, which waits, last sent.
* **ClientSdk.** `api` and `worker` are the tasks posted to the two threads,
  `done` the transfers curl has finished and `HttpRound` one round of the HTTP
  thread, which reads one of them. In `SignalingGateway`, `calls` are the
  gateway's calls, `written` and `msgs` the commands a media server has not read
  and not carried out, `published` and `pulled` what it holds. The server answers
  a stop when it reads it and the others when they are carried out, removes
  streams of its own accord (`OnStreamException`), and an answer to a connection
  the gateway has closed may be heard by a call that got its descriptor and
  address (`Hearers`). `lost` records the requests that someone gave up waiting
  for.

## 3. Runs

All runs are expected to hold, and do.

| Run | Question |
|---|---|
| `signaling_path` | two signaling workers, three clients, one fd that is above, below or at the size of `conns_`: `NoLostWakeup`, `ConnectionsSound` (connection table and ownership of the fd), `PerStreamOrder`, `AnswersSound` (one answer, and who can get it) |
| `signaling_live` | two clients, two streams on two rtc workers, one-slot pipes: `EveryRequestAnswered` unless its connection closes, no certificate exists, or it was written past the end of `conns_`; `ConnectionsSound` while the table grows and moves |
| `tcp_framing` | every way to cut a request into reads (`FramingExact`), and closing of silent connections, not early and not late (`ClosedInTime`) |
| `lock_free_queue` | every interleaving of producer and consumer: `NoUseAfterFree`, `ImplementsFifo`, `EverythingDelivered` |
| `streams` | two users pushing and pulling one name, four streams: `TablesSound`, `NoCallbackIntoFreed`, `MediaStaysInStream`, `FailureIsLocal` |
| `streams_live` | `UnconnectedPublisherRemoved` by the ice timer, `PeerConnectionReclaimed` |
| `ice_channel` | three connections, pingable or not, with responses, timeouts and fatal errors: `ImplementsLink`, `SelectionSound`, `SwitchesToReady`, `GonePeerFails` |
| `peer_transport` | two transports over any behaviour of their channels: `ReportsSound`, `HandshakeNotStuck`, `MediaPathSound` |
| `media_receive` | lost, late, repeated, retransmitted packets and restarts over numbers that wrap: `NackListSound`, `NacksAreMissing`, `AskedOncePerRtt`, `ReceptionReported` |
| `wire_formats` | writing and reading at the ends of every field: `ExtensionsExact`, `PacketsExact`, `FrameExact`, `CompoundExact`, `StunAuthentic`, `AnswerSound` |
| `pacer` | three sources, early and late tasks: `PacedRate`, `QueueSound`, `EverythingSent` |
| `client` | pusher, puller, devices, HTTP, gateway and server with lost and misdirected answers, deadlines and streams the server removes: `ViewsAgree`, `StoppedDeviceIsOff`, `EveryStartReported` |

Some properties have a boundary that the code sets, worth knowing:

* `AnswersSound` says what the check of conn and fd in `_response_server_offer`
  really guarantees: an answer can reach the wrong client only when worker, fd
  and address of the TcpConnection all coincide. They can (section 6).
* `ConnectionsSound` and `EveryRequestAnswered` except a client whose fd was equal
  to the size of `conns_` (`server/signaling_worker.cpp:172`): it is not in the
  table, and its answer is dropped by the check at `:531`.
* `ClosedInTime` bounds the closing of a silent connection from both sides, in
  the unit in which the code compares. That `settings.h` means another one is
  not something the property can see (section 6).
* `ReportsSound` says of `failed` alone that the callback that reports it does not
  take it back: on `failed` RtcStream deletes the stream. `connected` can be taken
  back at once: a DTLS event can complete the handshake and end it, and the ping
  timer can switch to a connection and then let it time out.
* `GonePeerFails` needs that every connection of the channel can be pinged. One
  made before the remote ICE parameters were set, or whose peer sent an empty
  name, is never pinged and never times out; the channel then stays as it is and
  only the ice timer of the stream releases it.
* `FailureIsLocal` has one exception, and it is reachable: user A pulls a name,
  user B pulls it and takes over the entry, A pulls it again; when A's first
  stream then times out, the manager removes A's second one, because it looks
  for A's stream by user and name.
* `ReceptionReported` allows the fraction lost to exceed its 8 bits in the
  report after a restart of the stream.
* `PacedRate` allows two rounds: a loop that stalled while sending and the late
  round after it both grant their interval.
* `QueueSound` bounds what a source may send while another of its priority
  waits. The comment in `Pop` (`round_robin_packet_queue.cpp:53`) promises more,
  that the bytes sent by two sources never differ by more than
  `kMaxLeadingSize`. That does not hold of sources that keep sending: the line
  below it lifts the sum of a source that lags to `max_size_` less
  `kMaxLeadingSize` whenever it sends, so what it lags behind that is forgiven
  each time. Two sources with packets of 300 and 100 bytes, a lead of 50 bytes
  and 7 and 14 packets waiting show it. The purpose the comment gives, that a
  small stream must not keep a large one from sending, is what `FairShare` says.
* `ViewsAgree` compares what was reported with what the server carried out, not
  with what it still holds: it may remove a stream at any time. Two kinds of
  calls are excepted, those someone gave up on and those that got the answer of
  another; the latter exist only once someone has given up. That a session
  stopped after its report is gone from the server holds of applications that
  wait for the report (`Patient`), as the run's does, and of calls nobody gave
  up on.
* `StoppedDeviceIsOff` holds of every order of Start and Stop, with one exception
  for the camera (`early`): a Stop called before Start has reported anything may
  be queued between the two tasks of Start. The first of these posts the second
  and only then reports `OnPreviewSuccess` (`xrtc_global.cpp:108-114`), so a Stop
  called after that report is behind both, although the camera is not yet on.
  The behaviour is followed until a released object is used or a running thread
  overwritten (`broken`).
* `NackListSound`, `NacksAreMissing` and `ReceptionReported` speak of history:
  the numbers that came in the last half turn (`got`) and whether a restart is
  still to be reported (`restarted`).

`CHECK_DEADLOCK FALSE` is set where the modelled system may come to rest:
clients need not come, a bounded number of packets or calls is used up.

### Bounds

* `SignalingPath`: three clients are the fewest for which one worker of two
  meets a reused fd again; two addresses let a closing and a new connection
  overlap; `PipeCap = 1` makes every pipe full after one notification, so all
  blocking happens. `EarlierFds` lets `conns_` start empty or with two entries,
  so that fd 2 is above its size or equal to it. (1,051,597 states, 1 min.)
  `signaling_live` uses two clients and the fds 2 and 5, with which the table
  grows with an entry inside and with one past its end (559,570 states, 2 min): more only lengthen the
  queues. A ring in which every pipe is full at once needs six clients and is
  not reached.
* `TcpConnection`: `HeadSize` 3 for 36, bodies of 0 to 4 bytes, `DoneMark` 9
  for 65535, `MaxBytes` 9: all cuts of head, body and surplus. Clients that
  send more than `DoneMark` plus a body are outside the bound. Times are those
  of the code in microseconds: a timeout of 5000, a period of 100 000, ticks of
  25 000.
* `LockFreeQueue`: five nodes, enough for the producer to trim past several
  consumed ones while the consumer holds the divider.
* `RtcStreamManager`: four objects, two users, one name: a publisher, two
  pullers that displace each other and a third one. The streams of different
  names share nothing but the address space. `streams_live` uses two objects.
* `IceChannel`: three connections, two of equal priority so that rtt decides,
  one path that is slow and two that are fast or slow, with rtts that differ by
  more than the switching threshold (298,795 states, 2 min).
* `PeerTransport`: two transports, as without bundle (8,291 states).
* `MediaReceive`: `SeqSpace` 20 for 2^16 and a first number of 18, so that the
  numbers wrap at once; `MaxNackPackets` 2 for 1000, `MaxPacketAge` 4 for
  10000, `MaxNackRetries` 3 for 10, so that each limit is met within four
  arrivals at offsets -1, 0, 1, 2, 3 and 5 (late, repeated, next, one or two lost,
  a jump beyond the list; 3 and then 2 is a gap that the clean-up by key frames
  cannot make room for, which empties the list and is not added); `MaxReorderingThreshold` 3 for 5 makes the jump a
  possible restart. One retransmission or one sender report
  (`MaxOthers`): no property relates them.
* `Formats`: bytes at both ends and in the middle of their range, memory that
  is zero or not, one to three NALUs below, at and above the limits of a
  payload, with reductions of 0 to 2 bytes of first, last and single packets (a frame
  in one packet is its own first and last packet: that reduction is at most the
  sum of the other two, larger ones are not covered); a comfort noise level or
  none, blocks of elements with and without an empty one at their end; NACK lists
  inside, at the end of and over a bitmask and over the wrap of the numbers; 0,
  1, 2, 31 and 32 report blocks, the limit and one more.
* `Pacer`: two sources of one priority and different packet sizes and one of
  higher priority, six packets in all; ticks of 5 and 80 ms are the regular and
  a stalled interval; a queue limit of 200 ms for 2000, which raises the rate
  within the bound. `MaxGap` bounds how late after a round the
  thread may still not have run the next one.
* `ClientSdk`: one pusher, one puller, five calls of the application, two of
  them on devices, one lost answer, one session without uid or name, one round
  of statistics. The gateway's list of servers is the one of its configuration,
  which names one server twice. (1,296,421 states, 3 min.)

Symmetry is used only in runs without liveness properties, over model values
that no definition tells apart.

### Fairness

* `SignalingPath`: weak fairness of each thread's steps: an event loop calls the
  handler of a readable pipe, a blocked `write` returns once there is room, a
  started handler is finished. Writing a reply is fair because the peer waits
  for it. Nothing is assumed of clients, timeouts or certificates.
* `LockFreeQueue`: both threads run; the consumer goes on calling `consume`.
* `RtcStreamManager`: strong fairness of due timers: libev keeps a due timer
  pending until it has been called, however many other callbacks are served.
* `IceChannel`: a started callback ends, and the ping timer, once started,
  updates every connection and pings every pingable one again and again: those
  not yet pinged in a round come first, then the one pinged longest ago. Nothing
  is assumed of connections that are not pingable.
* `Pacer`: weak fairness of the task queue's thread and of the clock. Nothing
  is assumed of the senders.
* `ClientSdk`: weak fairness of all threads together - api, worker and HTTP thread,
  the network (a transfer ends, if only by its timeout), the gateway's calls,
  which have deadlines, and the server: they do not all stand still while one
  of them can go on. That is enough, since each of their tasks is done once.
  Nothing is assumed of the application, its timers or the removal of streams.

## 4. Proofs

Eight modules hold proofs. Each follows the same plan: `IInv` (or the
conjunction of the parts named below) contains the types and what the
properties are not inductive without; `Initially`, one lemma per action and
`Preserved` show it inductive, and each theorem is read off from it. All
quantify over the constants, so the small sets of section 3 do not matter to
them. TLC checked every inductive invariant before it was proved.

| Theorem | States, for all values of the constants |
|---|---|
| `SignalingPathProofs`: `Connections`, `Wakeups`, `StreamOrder`, `Answered`, `Twins` | `ConnectionsSound`, `NoLostWakeup`, `PerStreamOrder`, `AnswersSound` |
| `SignalingInputProofs`: `Framing`, `TimeoutBound` | `FramingExact`, `ClosedInTime` |
| `SignalingInputProofs`: `MemorySafe`, `TrimSafe`, `SizeExact`, `Refinement` | `NoUseAfterFree`, `TrimStopsAtDivider` with `NoLeak`, `SizeExactWhenQuiet`, `ImplementsFifo` |
| `RtcStreamManagerProofs` | `TablesSound`, `NoCallbackIntoFreed`, `MediaStaysInStream`, `FailureIsLocal`, `PullEntryLostOnlyToOther` |
| `IceChannelProofs`: `Selection`, `Switches`, `Refinement` | `SelectionSound`, `SwitchesToReady`, `ImplementsLink` |
| `PeerTransportProofs`: `Reporting`, `Handshake`, `MediaPath` | `ReportsSound`, `HandshakeNotStuck`, `MediaPathSound` |
| `PeerTransportProofs`: `AnswersSound`, `AnyOffer` | `AnswerSound`; of any offer whatever: no source is listed twice, the receive streams listen to the first source of their medium, the answer is what is offered and wanted, on one transport |
| `MediaReceiveProofs`: `Missing`, `Reception`, `Requests`, `NacksMissing` | `NackListSound`, `ReceptionReported`, `AskedOncePerRtt`, `NacksAreMissing` |
| `PacerProofs`: `PacingRateKept`, `FairAndExact`, `ChainUnbroken`, `NeverFreed` | `PacedRate`, `QueueSound`; a round is always pending; `Push` never erases a stream in use |
| `ClientSdkProofs`: `Agreement`, `StoppedDevices` | `ViewsAgree`, `StoppedDeviceIsOff` |

Type correctness is proved of each as well (`TypeCorrect`, and `ConnTypeCorrect`
of `TcpConnection`).

**SignalingPath.** Four invariants, each resting on the one before.
`ConnInv` is `ConnectionsSound`, which excepts the clients written past the end
of `conns_` and nothing else, with what a thread in the middle of a handler
relies on: the TcpConnection it began with is still in its slot, the fds in
`q_conn_` are open, queued once and have no connection yet, a client is behind
at most one fd. One lemma says what `_handle_new_conn` may do to the slots: the new
one holds the connection or nothing, and an old one keeps what it held unless it
was behind the end. `ConnWakeups`, `RtcWakeups` and `SigWakeups` count: the length
of a queue is the number of notifications in its pipe and of threads between
push and write. `Order` needs that a message sits on the worker its stream
hashes to, that what was asked and not served is in one of the queues, and that
messages of one stream are in line across both queues of the way. `Answered`
follows the request of one client through its places (parsed, queued for
RtcServer, for an RtcWorker, for the SignalingWorker, in the list of replies):
there is one such place at a time, and it is given up as the answer goes out.
`Twins` states separately that the place (worker, fd, address) of a
misdirected answer is that of the client that asked.

**TcpConnection.** `Parser` lists the three positions of the parsing loop,
`Good` what it has verified, `Drained` that the loop is left only when what it
expects is missing. `FramingExact` is not inductive: that the request is
handled when its last byte is there depends on `Drained` in the step that
receives it. `Watch` ties the idle time to the phase of the timer; the period
must be a multiple of the tick in which the model counts.

**LockFreeQueue.** The invariant adds to the types that first, divider and last
are in this order along the chain, that the node the consumer works on is the
one behind the divider, and that `size_` differs from the length of the queue
exactly by the counter updates still owed. The order alone is not inductive:
without the consumer's position, a trim could pass the node it is copying.

**RtcStreamManager.** The invariants are inductive only together: deleting the
stream that a table names is safe for the other table because entries have the
right kind; a replaced publisher is the only one of its name because the table
is exact; the return into a PeerConnection is safe because no other callback
runs before it. The two action properties follow from that invariant, one
lemma per way in which the tables change.

**IceChannel.** `Fresh` says that the reported state is that of the table,
`Remembers` that `had_connection_` and `has_been_connection_` are not
forgotten; `Agree` and `Unselected` are `SelectionSound`. The lemmas are about
the functions the signals are composed of (what sorting, switching and
updating may change), so that a callback of several signals needs little of its
own: `Responding`, that the connection it is about still exists. Each step is an
`IceLink` step because the state is fresh before and after it, and goes the way
of its callback (`OneWay`): update_state only weakens a connection, an answer
only strengthens it.

**PeerTransport.** The TransportController hears of a change only if IceAgent
passes it on, and IceAgent passes on only changes of its own summary. The key
lemma `AgentIsEnough` shows that this loses nothing: while IceAgent's summary is
the same, so is the one of the TransportController. The invariant therefore
includes that IceAgent's summary is fresh. That `failed` is never taken back
(`StepReports`, `LastReports`) rests on two facts: a step that reports it ends
with a transport that has failed, and a callback that goes on has not made its
channel fail, which `IceChannel` is proved to keep (`OneWay`). `Prompt` says of each DtlsTransport
that it is started as soon as it can be and keeps no ClientHello it has used.

**Negotiation.** `set_remote_sdp` and `create_track_from_ssrc_info` are loops, so
the lemmas go line by line and source by source. `Listing` is what any line
keeps: the fields have their types and `parse_ssrc_info` lists no source twice.
`TracksOf` is what any source keeps: the first track starts with the first
source listed, whatever tracks the others name. `AnyOffer` is read off from the
two and from the shape of the answer (`Answering`), for lines in any order and
number, among them those of offers that are refused. For the offers a browser
makes, `Says` carries the exact fields over every line of a section (`HeadParsed`,
`AudioParsed`, `VideoParsed`), whichever section comes first; `AnswersSound`
follows for any orders of the sources. It is a theorem of `NegotiationSpec`, the
part of `Formats` that negotiates. The arms of the CASE in `ParseLine` used to
overlap (an `ssrc-group` line in an audio section): TLC takes the first that
matches, TLA+ leaves the choice open, and the attempt to prove `ParseLineKeeps`
showed it. The arms are disjoint now.

**MediaReceive.** Differences of sequence numbers are reduced to case
distinctions on `<` once, after which everything is linear. `NackInv` relates
the list to the numbers received in the half turn before the newest: without
that window a number of the turn before would count as received. `StatInv` adds
to the loss account what a statistician is before its first packet, and that a
restart leaves something to report. The attempt to prove `ReceptionReported`
showed that the history variable `restarted` was wrong: it was cleared by a
report that left the video out because of the limit on report blocks. It now
follows the statistician. `NacksMissing` adds that the RTCP module of a receiver
has no flag set between two calls, so a report never carries a NACK left over
from before; the numbers of a NACK are those of the batch because any batch can
be put in the order of `nack_list_` (`Orderable`, by induction on its size).

**Pacer.** Two layers. `QueueInv` is about the queue alone: its counters are
sums over the sources, no source has sent more than `max_size_`, and
`stream_priorities_` is the sorted list of the sources that wait, each once and
under the key it is found by. `Push` and `Pop` keep it; that the source taken
from the front has the least key is what the fairness rests on. `FairShare` is
not inductive: `FairInv` adds that what `a` has sent past a waiting `b` is at
most a packet, `kMaxLeadingSize` and the bytes by which `a` is ahead of `b`.
`a` is served before `b` only while it is not ahead, so its last packet before
`b` sends starts from a difference of at most zero. `RateInv` weighs the meter
against the budget: what the meter holds and the budget still allows is within
the grant of one round, or within that of two rounds less what has leaked since
the last one. The second case is the stalled loop of section 3; it turns into
the first as soon as an interval has passed. `RoundPending` is the chain of
delayed tasks. Two things found in the attempt: the difference of bytes the
comment in `Pop` speaks of is not bounded (section 3), and `PacedRate` needs
packets no larger than what the rate sends in `kWindowMs` (`SizeAssumption`),
because `UseBudget` forgives a larger debt.
The sums are recursive functions; what is proved about them uses induction in
the form of the least number of a set, which asks for no operator parameter.

**ClientSdk.** `CallsInv` follows a call through the gateway and the server: its
command is on a connection or in the queue of its server, once, until it is
carried out, and what its connection heard is its own result unless someone has
given up. `Single` says that the attempt of a session to open is in one place
(offer, HTTP list, reply, answer) until it is reported, `Transfers` that a
finished transfer is on the list until it is read, `Evidence` that an answer on
its way has behind it a call that was carried out, has failed, was given up on
or misled. `Leaves` is the clause about stops: the commands of one server are
carried out in the order it read them, a patient session's stop is read after
its push was answered, and nothing of the session comes behind it. `DevicesInv`
speaks of the tasks in both queues: behind the last Start there is a Stop, or
the device is off and no Start is queued; for a camera that was not stopped
early also that no first task of a Start is left.

### Assumptions

They are named ASSUMEs of the modules, which TLC evaluates in every run:

* `null` and `nil` are none of the objects, connections or streams; the sets of
  RtcWorkers and of transports are finite, the latter not empty; there is at
  least one SignalingWorker and one slot in a pipe; `Shard` is a function to
  the RtcWorkers; the list of servers is not empty.
* `TcpConnection`: the mark that stands for "handled", 65535 in the code, is
  larger than head and body together. A request whose body is longer is not
  covered, by the proofs as little as by the runs.
* `MediaReceive`: the space of numbers is even; a jump from the newest number
  stays within half a turn less `MaxPacketAge`, since the code cannot tell a
  larger one from a step back; `MaxNackPackets` is at most `MaxPacketAge` and
  less than half a turn less `MaxPacketAge` (1000, 10000 and 2^15 in the code).
* `Pacer`: the set of sources is finite, each has one priority, as the packets
  of an SSRC are all audio or all video; sizes and the rate are positive; a
  packet is no larger than what the pacing rate sends in `kWindowMs`, 500 ms
  (any packet of an Ethernet frame, from 24 kbit/s on).
* `Negotiation`: the sources of a video section are one and that of its
  retransmissions at most, different from each other, from 0 (which the code
  uses for no source) and from the source of the audio. `AnyOffer` does not need
  this.
* `SignalingPath`: fds are positive.
* `ClientSdk`: the devices are the microphone, the camera and the desktop.

### Only model-checked

* Liveness: `EveryRequestAnswered`, `EverythingDelivered`, `GonePeerFails`,
  `UnconnectedPublisherRemoved`, `PeerConnectionReclaimed`, `EverythingSent`,
  `EveryStartReported`. Fairness and ENABLED are out of the prover's reach.
* The invariants of `Formats` about bytes (`ExtensionsExact`, `PacketsExact`,
  `FrameExact`, `CompoundExact`, `StunAuthentic`). Writers and
  readers are recursions over the bytes (`H264Packetizer`, `RtpPacket`,
  `RtcpPackets`, `StunMessage` and others declare RECURSIVE operators, in whose
  presence the prover has no SMT backend) and folds whose operator is a LAMBDA,
  which the backends do not translate. That a reader inverts a writer for every
  input would be an induction over such a definition.

## 5. Not modelled

* Shutdown: `stop()` is called from the handler of SIGINT and SIGTERM; the
  process ends with it.
* The send streams (`AudioSendStream`, `VideoSendStream`,
  `RtpTransportControllerSend`): nothing creates them, and a PullStream forwards
  packets. The pacer they would feed is modelled although it is unused today.
* SRTP protection, DTLS records, certificates: calls into libsrtp and OpenSSL.
* UDPPort, port allocation, network interfaces, the event loop and sockets,
  settings, logging and `main`: wrappers of the operating system and libev. One
  callback at a time per thread is the atomicity of every module.
* The pace and choice of pings: any pingable connection may be the next.
* The branch without DTLS (`dtls_on` false, which a request may ask for;
  `transport_controller.cpp:84-87`, `129-159`): there are no DtlsTransports then
  and IceAgent's states are passed on as they are.
* What a write past the end of `conns_` does to other memory.
* JSON and the text of SDP; the dependency descriptor extension, whose reader
  and writer are not in the repository.
* Rendering, frame capture and the hardware codecs of the SDK: platform I/O and
  calls into drivers. With the NVIDIA and Intel headers and samples they come
  with, they are more than half of the lines of the repository that are not
  third-party libraries, and they hold no protocol of this system. That is why
  the share of all lines that the models cover (somewhat under a fifth) is far
  lower than their share of the server and the gateway.

`PROJECT.json` gives the reason for each component.

## 6. Observations

Met while translating the code; the models contain the behaviour unless it says
"left out". None of them is needed for the properties above except where
section 3 says so.

Signaling:
* An answer goes to the wrong client when fd and address of a closed
  TcpConnection are both reused (`server/signaling_worker.cpp:529`).
* The error reply to an unknown command is deleted unsent with its connection
  (`server/signaling_worker.cpp:291`).
* `conns_` is resized only if the fd is above its size
  (`server/signaling_worker.cpp:172`): a connection whose fd equals the size is
  written past the end. Its request is served, but its answer is dropped by the
  check at `:531`, and it stays open until its timeout.
* The idle timeout, in milliseconds (`server/settings.h:37`), is compared with
  microseconds (`server/signaling_worker.cpp:388`).
* The gateway gives up after 500 ms while the server still carries out a push;
  `client.go:70` leaves the connection to the garbage collector on read and write
  errors, whose descriptor a later call may get, and with it the answer; uid 0
  makes `push.go:51` call a method of a nil error (the model answers with an
  error). Servers in turn would send a pull to a server without the stream if
  the configuration named two different ones.
* A stop is answered before the RtcWorker carries it out
  (`server/signaling_worker.cpp:279`), and with success whatever comes of it.

Transports:
* The channel may stay without a selection after its selected connection is
  destroyed (`ice/ice_transport_channel.cpp:184`).
* A connection made before the remote ICE parameters are known, or by a peer that
  leaves its name empty, is never pinged (`ice/ice_controller.cpp:30`): it does
  not time out, and the channel waits for the ice timer of the stream.
* ERROR-CODE is not a known attribute (`ice/stun.cpp:251`), so every error
  response destroys its connection.
* `m=group:BUNDLE` never matches (`pc/peer_connection.cpp:478`), `options_` is
  read before `create_answer` sets it, the rtx source is taken by order and not
  from the FID group (`:693`), and packets are always sent on "audio" (`:628`).

Media:
* The round trip time is never updated, RTX packets never leave the NACK list,
  and the extension map of received packets is empty, so no packet is ever seen
  as a key frame.
* With no RTX source an old packet divides by a frequency of 0
  (`receive_statistics_impl.cpp:285`; left out: the run has an RTX source).
* `GetNackBatch` logs the entry behind the one it erased; a NACK that could not
  be sent leaves its flag set and its numbers empty.
* `ParseCompoundPacket` always returns false; the padding bit is tested with
  `== 1` and is never seen (`common_header.cpp:36`); a sender report has its
  packet count twice.
* `InbandComfortNoiseExtension` writes the top bit for a level and reads it as none
  (`rtp_header_extensions.cpp:841-862`), so it is the one extension that is not
  read back. The model writes and reads it as the code does, and
  `ExtensionsExact` says what comes of it.
* When key frames make no room for a gap, `AddPacketsToNack` empties the list and
  returns without it (`nack_requester.cpp:149-160`).
* `AllocatePayload` empties the payload before it refuses a larger one
  (`rtp_packet.cpp:111`).
* `RtpPacket::Clear` keeps the extension entries; a two-byte extension of
  length 0 at the end of its block is dropped; `NextFragmentPacket` reads a
  packet it has popped (`rtp_format_h264.cpp:333`).
* `RoundRobinPacketQueue::Push` erases the stream it goes on using when a
  packet raises the priority of a source (`:115`; no source mixes priorities).

Client:
* If the application stops before the report, the handlers use a released peer
  connection; a statistics task posted before Stop does too.
* A Stop of the camera called before the first task of Start has run stays between
  the two and leaves the camera on; a desktop
  source started after Stop has no capturer, and a second Start overwrites the
  running thread.
* The failure of a pull is reported as `OnPushFailed`; the HTTP thread reads one
  finished transfer per poll (`xrtc_http.cpp:177`).

## 7. Reading order

`FifoQueue`, `LockFreeQueue` and their proofs show the conventions on a small
module. `SignalingPath` and `RtcStreamManager` are the core of the server,
`IceLink`, `IceChannel` and `PeerTransport` its transports, `MediaReceive` with
its parts the receiver. `ClientSdk` reads best after `SignalingGateway`.

Comments name the function a definition stands for where the name does not; the
`map` of `PROJECT.json` gives the lines. Definitions marked as mutants are
faulty forms of the ones after them: `mutants` names the property that detects
each.

## 8. Plan

1. Proofs about `Formats`: the writers and readers as recursive functions in
   place of RECURSIVE operators and folds, and then the inverses one format at a
   time, by the induction `PacerProofs` uses for its sums. The proofs of
   `SignalingPath` are the longest; its four layers can be read separately.
2. The table of `UDPPort`, which keeps destroyed connections
   (`ice/udp_port.cpp:92`), and the choice of the next ping in `IceChannel`.
3. Shutdown in `SignalingPath`; the ring of full pipes with more clients.
4. Composition of `SignalingGateway` with `TcpConnection` and `SignalingPath`
   in place of the abstract server it calls now.
