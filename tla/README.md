# A TLA+ model of the long-gw gateway

long-gw is a long-connection gateway written in Go: clients hold a TCP or
WebSocket connection to it, back-end services exchange messages with them
through Kafka or gRPC. The code that is hard to test lies in
`gateway/internal`: a logical *session* outlives the physical *connections* of
a device, and every connection, timer shard and worker is a goroutine of its
own. This directory holds TLA+ modules that model that core, the TLC
configurations that check them, and TLAPS proofs.

Paths below are relative to `gateway/internal` unless they say otherwise.

## 1. The system

| Component | State | Operations | Interacts with | What is hard |
|---|---|---|---|---|
| Timer wheel (`timer/`) | per shard: key map, heap, cancelled flags, wake-up channel | Schedule, Cancel, the `run` goroutine, Start, Stop | ACK scanner; handlers call back into it | wake-ups racing with the sleep, lazy deletion, flags read without the mutex |
| Session (`session/session.go`) | current connection, state, subscriptions, pending ACKs, once | AttachConn, DetachConn, Submit, Ack, Join/Leave, Close | factory, router, scanner, workers | two connections of one session at the same time; multi-step updates |
| Session registry (`session/registry.go`) | sessions by user and device | GetOrCreate, handleAckTimeout, gc (empty) | factory, scanner | retries racing with acknowledgements |
| Connection factory (`access/connruntime/factory.go`) | none | CreateAndRun, onClose | everything | every exit must take back what was registered |
| Connection (`access/connruntime`) | state, write queue, contexts | Run, readLoop, writeLoop, Submit, Activate, Close (empty), watchdog | transport, handlers | termination of two loops that wait for each other |
| Local router (`router/local.go`) | user, device, room and topic indexes | Register/UnregisterSession, Join/Leave, UnregisterAll, Resolve | session, factory, downlink | stale entries |
| ACK scanner (`delivery/ack`) | tracked messages per session | Track, Done, CancelAll, handleTimeout | timer, registry, session | index and timer updated apart |
| Downlink (`pipeline/downlink`, `worker/`) | bounded job channels | validate, route, filter, fan out | router, sessions, offline store | sessions change between the stages; back-pressure; crashes |
| Uplink (`pipeline/uplink`, `access/handler`, `worker/`) | bounded job channels | dispatch, stages, SubmitUpstream, send, Stop | sessions, Kafka, gRPC | panics in and outside a Recover stage; back-pressure; a pool stopped in use |
| Kafka consumer (`utils/kafka`) | committed offset | fetch, submit, commit | worker pools | redelivery after a crash |
| Distributed router (`router/distributed.go`) | Redis keys with a TTL | register, refresh, unregister | other nodes | late unregistration, expiry |
| TCP transport (`access/tcp`) | half-packet buffer | Read, Write | readLoop, writeLoop | packets cut anywhere |
| Codec (`protocol/codec`) | none | Encode, Decode | readLoop, writeLoop | malformed bodies in a good stream |
| SDK clients (`sdk/` at the root) | pending responses, state | connect, auth, send, close | gateway | an older frame format |
| Auth service (`auth/` at the root) | tokens with an expiry | issue, validate, clean up | factory | expiry during a validation, a cleaner with an old clock reading |
| Validators (`common-protocol/gen` at the root) | none | Validate, ValidateAll of 102 message types | any receiver of a message | borders, nesting, first error against all errors |

What makes the modelled parts correct:

* **timer**: each key has at most one live task; a cancelled task never runs, a
  live one runs exactly once, not early, and not never;
* **life cycle**: no path leaves a dead connection behind; the session's
  connection is the one that runs; an Active session is routable under exactly
  its subscriptions; a session without connections is in no room; a shutdown
  cleans up every connection whose peer does not hang;
* **QoS-1 delivery**: a message is received, stored offline, or timed, unless
  Session.Close or a failing store loses it; a settled one stays settled;
* **downlink**: a message that may be kept is queued for everyone it was
  resolved to or stored, but for losses that can be named; nobody else gets
  it, nobody gets it too often; a slow client delays nobody;
* **uplink**: a frame has exactly one outcome, is forwarded at most once, and
  no business frame brings the process down;
* **cluster**: no valid token is lost, expired ones go; a fresh route is right,
  any route names a node with such a connection, and a stale one vanishes;
* **wire**: messages come out of a byte stream once and in order whatever
  malformed or expired frames it holds; the two validators of a message agree
  with its rules and with each other.

## 2. Modules

| Module | Models | Checked by |
|---|---|---|
| `Timer` | what a timer promises (abstract specification) | – |
| `TimerWheel` | `timer/wheel.go`, `timer/shard.go` | `MCTimerWheel` |
| `TimerWheelProofs` | theorems about `TimerWheel` | TLAPS |
| `SessionLifecycle` | factory, connection, session, local router, logout | `MCSessionLifecycle`, four more configurations |
| `SessionLifecycleProofs` | theorems about `SessionLifecycle` | TLAPS |
| `AtLeastOnce` | what QoS-1 delivery promises (abstract specification) | – |
| `AckDelivery` | Submit, Ack, reconnect flush, Close, scanner, time-outs | `MCAckDelivery`, `MCRetriesAreBounded` |
| `AckDeliveryProofs` | theorems about `AckDelivery` | TLAPS |
| `Fanout` | what the downlink promises (abstract specification) | – |
| `Downlink` | Kafka consumers, worker pool, downlink chain, Resolve, Session.Submit, sequence numbers | `MCDownlink` |
| `DownlinkProofs` | theorems about `Downlink` | TLAPS |
| `Relay` | what the uplink promises (abstract specification) | – |
| `Uplink` | dispatch, handlers, uplink chain, worker pool and its Stop, Kafka sender | `MCUplink` |
| `UplinkProofs` | theorems about `Uplink` | TLAPS |
| `Cluster` | auth service, handshake, distributed router on several nodes | `MCCluster` |
| `ClusterProofs` | theorems about `Cluster` | TLAPS |
| `Channel` | what a connection promises its reader (abstract specification) | – |
| `Framing` | codec, TCP and WebSocket transports, readLoop, the SDK's packets | `MCWire` |
| `FramingProofs` | theorems about `Framing` | TLAPS |
| `ValidationRules` | what the generated `validate` functions have in common | `MCWire` |
| `GatewayMessages`, `ServiceMessages`, `BizMessages` | the message types and their rules | `MCWire` |
| `Validation` | a caller of Validate and ValidateAll, and the messages it tries | `MCWire` |

`PROJECT.json` maps every definition to the source lines it stands for.
As a rule **one action is one access to shared state**: a critical section,
one atomic variable, one channel operation. What a goroutine does between two
of them is local and belongs to the action before. Downlink and Uplink keep
to this for the pipelines and take the life cycle of a connection, which
SessionLifecycle has step by step, in larger steps.

Definitions whose comment starts with *Fault* (or *Deliberate fault*) are not
part of any specification. Each is a plausible mistake in the definition that
follows it; substituting it must make the property named in `PROJECT.json`
fail, which shows that the property depends on that piece of code.

### TimerWheel

A `*wheelTask` is its allocation index into `task`; `cancelled` is the set of
items with the flag set, `tasks` the key map, `queue` the heap as a set, whose
head is any member with the least due time (the heap does not order ties).
`Schedule`, `Cancel`, `NextTask` and `PopDue` are the critical sections under
`w.mu`; `Signal` is the non-blocking send that follows the unlock (a goroutine
in `signalling` has yet to do it); `Wake`, `TimerC` and `Done` are the cases
of the selects; `Exec` is one iteration of the loop over the ready items and
`HandlerReturns` the end of a handler, during which `run` itself may schedule
or cancel, as the ACK handler does. `fired` is history.

`NextTask` and `PopDue` drop cancelled items at the head; `Sweeps` says which
sets of them may go. An item that is cancelled behind the head stays, as in
the code.

### SessionLifecycle

`pc[c]` is the position of the goroutine that executes `CreateAndRun` for the
connection `c`, inside AttachConn, RegisterSession, Session.Close, Run, the
handlers, DetachConn and onClose. `writer[c]` is its writeLoop, `held[w]` a
worker inside Session.Submit. `conn`, `state`, `once`, `subs` are fields of
the session, `userConns`, `deviceConn`, `members` the indexes of the
LocalRouter, `conns` the connection registry.

A session is the pair of user and device its id is the hash of. Rooms and
topics are handled by identical code and are one set `Topic`. `overlap` is
history: the sessions to which a connection attached while an older one of the
same session was not cleaned up. The code does not prevent that, and the
guarantees that fail then are stated for the other sessions; the run
`detach_overlap` shows what happens in the overlap.

Abstractions:

* `Connection.Close` has an empty body at this commit, so that the kick in
  Session.Close and the HeartbeatWatchdog change nothing and have no action;
* reads and writes may fail at any moment: the handshake, the AuthResponse,
  the readLoop and the writeLoop each have a failing step, whatever the cause
  (the peer, a deadline, the context, a message that cannot be encoded);
* a login or logout frame without TraceContext panics in `sendAuthResponse` and
  in the LogoutHandler, outside of any recover: `Panic` ends the process
  (`alive`), and with it every other step;
* `Responsive` are the connections whose peer reads what it is sent and does
  not stop in the middle of a frame; only the fairness refers to it;
* the DistRouter calls, the frames' contents and sequence numbers are left out;
* the pending messages flushed by AttachConn are the subject of AckDelivery;
* no handler for Subscribe or MessageAck frames is registered at this commit.
  `Subscribe`, `Unsubscribe` (and `Ack` in AckDelivery) call the Session's
  methods from the readLoop, as session.go documents their call chain;
* `RegisterConn` fails only for an empty id and gets a fresh uuid.

### AckDelivery

Each message has two threads that execute Session.Submit: the worker that
delivers it and the timer goroutine that retries it. The index of the scanner
(`sessAcks`), the timer (`armed`), and the session's map (`pending`) are
changed in separate steps, as in the code; so are the steps of AttachConn's
flush, which begins some time after the connection was attached (`FlushBegin`)
and visits what is pending then, and of Session.Close. The timer is the abstract one: `Expire` hands over
an armed task, and `TimerWheel` is proved to implement that.

The retry counter is not protected in the code: `FlushVisit` may lose an
increment to a concurrent one. The write queue carries other traffic, so that
an enqueue may fail at any moment. The offline store takes a message or fails,
which the code only logs (`failed`). The replacement of the sync.Map in Close
is one step; the entries it throws away are `dropped`. Close is called after a
logout and, through the kick of the session by itself, by every ordinary
reconnect, so that the entries a reconnect is documented to flush are lost;
`findings` quotes the comments.

### Downlink

The partition is a sequence of messages, `committed` and `fetchPos` are the
group's offset and the reader's position. The repository has two consumers
which differ in what they do with a refusal; `impl` says which one runs: the
group consumer (`utils/kafka`) skips it without a commit, the simple one
(`worker/downstream`) commits it. `stage[w]` is where a worker is in the chain:
`TakeJob` is the receive with ValidateStage, then `Route`, `Filter` session by
session, and for every target `SubmitReadConn`, `DrawSeq` and `Enqueue`, the
three accesses of Session.Submit and Connection.Submit. A panic is caught by
RecoverStage (`Recovered`) and abandons the rest of the fan-out.

What a reader of the code should know, and the model has:

* a Suspended session stays in `userConns`, so that a message for it is
  resolved, filtered out as not Active, and neither sent nor stored. Such
  losses are collected in `missed`;
* a message the group consumer refused (`refused`) is not redelivered, as its
  comment hopes, once a later offset is committed. Both losses contradict
  comments that `findings` quotes;
* one `*Message` is on every queue of a fan-out, so that its SeqId is
  overwritten by the later receivers;
* a message without Delivery panics in handleUndelivered.

The store is a set that takes what it gets, which hides that a message may be
stored twice and that a failing store loses it (AckDelivery has the failure);
`lastDeliveredSeq` is left out, since nothing in the repository answers the
replay it is meant for. A user and a room are assumed to have different names,
so that Resolve finds a message's sessions in one index.

### Uplink

`reader` is the readLoop inside Dispatch and the chain, `step[w]` an upstream
worker, `pool` how far Stop has come. A frame is described by what the stages
look at: type, MsgId, TraceContext, BizCode and whether it may expire.
`process` becomes dead by a panic that no Recover stage catches: a type
without a handler (the fallback is nil), a logout without TraceContext, a
worker that receives from a closed channel, a consumer that sends on one.
The history `outcome` collects what became of each frame.

`bootstrap.go` leaves `deps.Worker` and the rate limiter nil and starts neither
pools nor consumers; the scenarios with `wired = FALSE` and without a limiter
are that program, the others are the one the packages are written for. The answer 4010 of ValidateStage cannot occur,
because a readLoop runs only between Activate and the end of its connection.
The Kafka sender publishes with MsgId as key although its comment promises, by
the key From, an order per user: the model knows no keys, lets the workers
overtake each other, and the abstract relay promises no order. With one worker
the channel keeps the order, which is a fact about Go rather than this code.

### Cluster

Time is counted down: `life` of a token, `ttl` of a Redis key. handleValidate
loads a token and judges it in two steps, between which it may expire or be
cleaned; the cleaner reads the clock once and deletes token by token.
RegisterUser and UnregisterUser are pipelines of single commands, each of
which may fail. `alone` and `leaked` are history: the connections with which
no other one of the same user or device interfered, and the keys that a failed
response, a cancelled context or a dead node left behind and nobody has
written since. Every disconnect
of a device deletes the key of its user, whichever device wrote it, and
nothing calls Refresh: hence the conditions of FreshRouteIsRight.

### Framing

The stream is a sequence of bytes, from which `ConnRead` takes any number up
to ReadSize. `ParseHeader` is the rest of the loop of TCPTransport.Read: when
the body is not yet complete it goes round without reading, for ever
(`spinning`; neither a deadline nor the context is looked at there), against
what the Transport interface documents (see `findings`). A read fails in
silence at the end of the stream or by the deadline (`ended`), and at any
moment by a deadline or a reset with bytes under way, as SetReadDeadline may
(`broken`). A message with an ExpireAt (kind "timed") may have expired when it
is decoded; readLoop then skips it. `MaxFrame` is a parameter, so that a small
frame can be too large. The peer
is a gateway-side writer, a WebSocket client or the TCP client of the SDK,
whose 8-byte header is taken for an oversized length. Serialised texts are
represented by a tag and the number of the message, enough for each parser to
refuse the texts of the other; zstd and snappy are stubs that copy.

### Validation

protoc-gen-validate writes the same walk for every message; `ValidationRules`
has that walk once and the message modules have the rules, in the order of the
code. A string, map or number stands for its length or value, a repeated field
for its length and leading items. `Validation` tries messages with up to two
fields at the borders of their rules, and embedded messages with one or all
fields wrong. The reference (`Wrong`) is a set of paths, defined without any
order or early return. No code of the repository calls the validators so far.

## 3. Runs

| Run | Result | Shows |
|---|---|---|
| `timer` | pass, 647,000 states | two keys, three tasks, clock 0..2, a caller and handlers that reschedule: all timer properties, refinement of `Timer`, every task settles |
| `lifecycle` | pass, 879,000 states | two connections of two users sharing a device, one topic, one worker, write queue of one |
| `shutdown` | pass, 66,000 states | two connections of one session, one of which hangs, and a worker: after Stop the other is cleaned up, under fairness |
| `ack_delivery` | pass, 1.8 million states | one message, three connections, one retry: what may lose a message, what the scanner leaks; refinement of `AtLeastOnce` |
| `downlink` | pass, 517,000 states | six partitions of two messages, two workers, two sessions: losses, refusals and commits, recipients, sequence numbers, progress despite slow clients, refinement of `Fanout` |
| `uplink` | pass, 73,000 states | every defect of a frame before a good one, three good frames with one and two workers, Stop at any moment; refinement of `Relay` |
| `cluster` | pass, 368,000 states | two connections on two nodes, of one device or of two devices of a user; one node may stop or die |
| `wire` | pass, 339,000 states | three frames of nine kinds over three kinds of links that may fail, refinement of `Channel`; 102 message types at the borders of their rules |
| `detach_overlap` | violation | onClose of the old connection takes the new one from the session |
| `self_kick` | violation | a reconnect closes its own session |
| `logout_teardown` | violation | a logout does not end the connection |
| `retry_limit` | violation | the retry limit never applies to a connected client |

The violations are disagreements between comments in the code and what the
code does; `PROJECT.json` quotes the comments under `findings`. Six more
disagreements came up while modelling. They have no run of their own: a passing
property names them as exceptions, and its run reaches them.

| Documented | The code | Named in |
|---|---|---|
| unacknowledged messages are retried after a reconnect (`session.go:25`, `factory.go:71`) | the reconnect closes its own session and throws them away | OnlyCloseOrStoreLoses (`dropped`) |
| QoS-1 messages for a Suspended user are stored (`session.go:240`, `downlink/stages.go:57, 203-212`) | they are filtered out and lost | LossIsExplained (`missed`) |
| a message the pool refused is redelivered (`utils/kafka/consumer.go:79-90`) | not once a later offset is committed | LossIsExplained (`refused`) |
| uplink messages of a user are in order (`kafka_sender.go:15`) | the key is MsgId, and workers overtake each other | RelaysAtMostOnce (no order) |
| Read blocks until a frame is complete (`transport/transport.go:23`) | it loops for ever without reading | FramesAreTaken (`spinning`) |
| the SDK's TCP header is the gateway's (`sdk/README.md:308`) | no frame with it gets through | MessagesArriveInOrder (`link = "sdk"`) |

**Bounds.** Three tasks allow a task to be replaced while another key is due
and a third to be scheduled from a handler; three instants separate early,
due and late. Two connections are what an overlap or a reconnect takes, two
users on one device exercise the device index that they share; connections are
interchangeable, and the safety run uses that symmetry. A write queue of one
is full after one message. In `ack_delivery` one message suffices because
messages meet only in CancelAll and the flush, which treat them one by one;
three connections allow two reconnects, the second after the session closed
itself. `MaxSent` bounds only a history counter.

In `downlink` the scenarios pair the cases that affect each other: two
messages for one session that reconnects and a process that crashes; a room
of two and a message to one of its members; an echo filter; and messages that
each kind of consumer or stage refuses. Channels and queues of one are full
after one message. `uplink` needs three frames so that one is being sent, one
queued and one read. In `cluster` a route lives two ticks and a token one, so
that either can outlast the other; two connections are what interference
takes. `wire` reads at most 9 bytes at once (4096 in the code) of frames that
are 6 to 11 bytes long, with bodies of at most 4 bytes allowed, so that a read can end inside a header, inside a body
or at a border, span two frames, or be too short for one. `MCWire` is the sum of two systems
that do not interact, each starting from its own initial states.

**Deadlock** is not checked: a gateway without clients, or whose clients are
gone, rests.

**Fairness.** Goroutines that can run do run (weak fairness of `run`,
`CreateAndRun`, the writeLoop and the workers), which Go's preemptive scheduler
provides; select chooses every ready case in the long run, hence separate
conditions for `WriteMessage` and `WriteLoopDrains`. A read or a write that
waits for the peer is another matter: TCPTransport.Read loops for ever on a
frame that is half there, and neither the AuthResponse nor the writeLoop has a
write deadline. Those steps are fair only for the connections in `Responsive`,
whose readLoop, after a shutdown, ends at the latest when its read deadline
passes (strong fairness, since it serves frames in between); ShutdownCleansUp
speaks of them, with another connection that may hang beside them. Nothing is
assumed of other clients, of callers and of shutdowns.
`downlink` assumes only that the consumer and the workers run: no writeLoop is
fair, which is the point of SlowClientsDelayNobody. `uplink` assumes the same
of the readLoop inside a handler and of the workers. In `cluster` time passes,
the ticker of the cleaner ticks and handshakes and clean-ups go on, while
connections may last for ever. In `wire` the read goroutine runs; a silent
wait ends by the read deadline.

## 4. Proofs

Every invariant and refinement of the passing runs, except the invariants of
the validators, is also a theorem; so is the type invariant of each module that
has one, which the run `ack_delivery` checks as well, where it bounds the
unprotected retry counter. The theorems hold for all sets of keys, callers,
connections, users, devices, topics, messages, tokens, nodes, sessions and
workers, for all scenarios and partitions, and for all capacities and bounds,
under the named assumptions on constants, which TLC evaluates in the runs:

* `TimerAssumption`, `LifecycleAssumption`, `AckAssumption`: bounds are numbers
  (capacities positive), and the model values for "none" are not elements of
  the sets they are added to;
* `UplinkAssumption`, `DownlinkAssumption`: the scenarios are well-typed, and
  the workers of the uplink and the sessions are finitely many (the model
  counts both);
* `ClusterAssumption`: every token has a user and a device, which are different
  things, connections are placed on nodes with tokens, and a route lives at
  least one tick;
* `ReadSizeAssumption`, `MaxFramesAssumption`, `MaxFrameAssumption`: a read can
  take a byte, and a frame is at most the 4 MiB of the code long.

Each argument has the same shape: an inductive invariant, which TLC evaluated
on a small instance before it was proved, holds initially, is
preserved by every action and implies the property.

**TimerWheelProofs.** The inductive invariant `HeapInv` joins TypeOK,
IndexAgreesWithHeap, CancelledNeverRuns, RunsAtMostOnce and `RunControl` (which
relates `ready` and `next` to the position of `run`). The parts need each
other: that a cancelled item is not in the ready batch follows only because
the key map never names an item that left the heap, which is the agreement of
map and heap, and that in turn needs items to be in one place only.
NeverEarly and NoLostWakeup are inductive relative to it: the latter because
every insertion puts its goroutine into `signalling`, and the token is consumed
only on the way to a new look at the heap. `WheelImplementsTimer` maps the key
map to the armed tasks and the ready batch to the tasks handed over; PopDue is
the abstract Expire because map and heap agree.

**SessionLifecycleProofs.** `TypeInv` adds to TypeOK that a connection past
the handshake has a session. `LifeInv` adds NoDeadConnReferenced and
`OwnerInv`: in a session without overlap at most one connection is engaged,
the attached one is the session's connection, and between SetActive and
DetachConn the state is Active or Closed. Uniqueness is what makes DetachConn,
which clears the connection whosever it is, clear its own. Actions that touch
none of these are handled together (`Quiet`).
`RouteInv` adds what the router knows of a session phase by phase
(`RoomInv`): which rooms have been restored, joined or left so far compared
with the session's subscriptions, as long as nobody closed the session. From
it follow ActiveSessionRoutable and NoGhostMembers; a step concerns its own
session only (`Local`), because two engaged connections of one session would
overlap.

**AckDeliveryProofs.** `TypeInv` needs a count for the type of the retry
counter, which nothing in the code bounds for a connected client:
`CountInv` says that k connections have been made in order and added at most
one each to the retries the timer counts. `MsgInv` follows a message through
its places. `IndexInv`: an indexed message is armed, in the hands of a thread
(`Busy`), about to be unindexed or acknowledged, or the session is closing, and
before its worker stored it nobody knows it (`Fresh`); this gives
NoLeakedAckIndex. `LossInv`: a message with offline storage that nobody
received or stored and neither Close nor the store lost is pending and armed,
or in somebody's hands, or Close has yet to visit it; this gives
OnlyCloseOrStoreLoses.

**DownlinkProofs.** `WorkInv` relates a worker's stage to its job and targets
and bounds the drop counter by the sessions left. `RefusedInv`: every message
the consumer has passed was accepted by a pool, refused, or not a message at
all. `PlaceInv`: an accepted message is in the channel or with one worker, in the order of the partition. With it `AimInv`
and `CopyInv` count copies: a session has got at most as many copies as the
message was accepted, and fewer while a worker may still send it one; this
gives RightRecipients. `LossInv` keeps an account per message: it waits, or a
worker `Tracks` it (every receiver it owes is still a target, or accounted
for), or its fate is `Explained`; with RefusedInv this gives LossIsExplained.
`SeqInv` gives
UnicastSeqIdsDiffer: a number in use is at most the connection's counter, and the
messages that go over one connection, on the queue, in a worker's hands or
already received, have different numbers.

**UplinkProofs.** `PlaceInv` (`QueueInv`, `JobInv`): a frame is with the
readLoop, in the channel or with one worker, and those further on are older.
`OutcomeInv` (`FateInv`, `ReplyInv`): a frame that has not arrived or is
still in somebody's hands has no outcome, and a business frame that nobody has
any more has exactly one; this is ExactlyOneOutcome. BusinessFramesAreHarmless is inductive relative to the types: the Recover
stage turns each panic of the chain into an answer.

**ClusterProofs.** `TokenInv`: what the cleaner has marked stays expired
(`DoomedExpired`), although its reading of the clock is old when it deletes;
hence ValidTokensAreKept. `UserOwned`, `DeviceOwned`: a route that nothing left
behind has a connection on the node it names that has yet to delete it, which
is RoutesLeadSomewhere; when another connection overwrites the route, it is
that connection's from then on.
`AloneInv`: the route of a connection with which nobody interfered names its
node, which runs, and has exactly as many ticks as the connection is fresh;
this is FreshRouteIsRight.

**FramingProofs.** Lemmas compute the bytes of each kind of body and of both
headers, that Decode inverts Encode on the well-formed bodies and refuses the
others, and what Read sees of a header. The inductive invariant `FrameInv`
joins the types, what has been delivered so far and `StreamInv`, which is, for the gateway's
framing, that there are places in the stream (`IsCut`), made of packetBuf
and the bytes under way, at which the frames that Read has not returned end,
one after the other, and that the bytes between are those of the frames. A
read moves the border between buffer and wire and changes no byte of the
stream; a write adds a place; a returned frame shifts all places by its
length. For the SDK's framing the bytes 1, 0, 0, 0 where Read expects the
length stay in front for ever; for WebSocket the messages under way are the
frames, until one that is not binary or too large ends the readLoop. A message
with an ExpireAt may be missing from what was delivered, and no other. The
theorem covers any number of frames of any kind and every way to
cut the stream.

### Refinements

Five components are proved to implement an abstract specification that knows
nothing of their threads, queues and stages. The initial states map to initial
states, and every step of the component is a step of the abstract
specification or leaves its variables unchanged. `WheelImplementsTimer` is
described above; the others are:

* `DeliveryRefinement` (`AckDelivery` implements `AtLeastOnce`). A message is
  *new* until its worker starts, *settled* when no thread holds it, nothing is
  pending and no retry is under way (`Forgotten`), and *open* in between. That
  a step which settles a message finds it received, stored or lost by Close or
  a failing store is `LossInv`; settled is final because a time-out that finds
  no entry does nothing. Hence duplicates are sent
  only while a message is open, whatever timers stayed armed.
* `FanoutRefinement` (`Downlink` implements `Fanout`). A message is *held*
  while it waits or a worker has it, and *due* to the sessions that the worker
  may still submit it to (before the route stage: all it is addressed to).
  `PlaceInv` makes the holder unique, so that a step takes the message from
  one place only; `AimInv` ties the worker's two lists to its stage, so that
  the session a copy goes to leaves both. A crash empties held and due, and
  goes back to the committed offset. Three things are allowed that a reader
  might not expect: a session the message is due to may get none, a message
  may be stored and delivered as well, and a commit may cover a message that
  was refused.
* `RelayRefinement` (`Uplink` implements `Relay`). A frame is *offered* while
  the readLoop has it, *accepted* while the channel or a worker has it, and
  has its recorded outcome when nobody has it. `OutcomeInv` is needed twice:
  a fate is final because a frame with an outcome is in nobody's hands, and no
  frame disappears from a place without one. `StageInv` adds that only
  business frames enter the chain, so that others are never accepted. The
  Kafka writer's log is the sequence of the forwarded frames and nothing else.
* `ChannelRefinement` (`Framing` implements `Channel`). Sent, taken and
  decoded messages are the queue; the bytes on the wire and in packetBuf are
  hidden. Only a read that completes a frame is visible, and by `FrameInv` the
  frame it cuts off is the next one sent. Messages with an ExpireAt are the
  perishable ones of the channel, which it may skip.

They say more than the invariants: each step must be one of the few the
abstract specification has, so that for example a message that is delivered
twice and counted once, or a fate that changes, is excluded.

**Only model-checked**: the liveness properties (EveryTaskSettles,
ShutdownCleansUp, SlowClientsDelayNobody, AcceptedIsSettled, StaleRoutesVanish,
ExpiredTokensGo, FramesAreTaken), which are beyond the prover, as is ENABLED;
ValidateFindsTheFirst and ValidateAllFindsExactlyTheWrong, which are about
recursion through messages of any depth. The walk and its reference are
RECURSIVE operators in ValidationRules and Validation, as the generated code
is recursive; tlapm has no SMT backend for modules that reach such an operator,
and a proof would be an induction over the nesting of messages. The run tries
every message type there is, so that only the messages are sampled.

## 5. Plan

The modules of the plan are written, their safety properties are proved, and
the five components with a promise to the others are proved to keep it. What
could follow:

1. `SessionLifecycle` against an abstract session that is attached, detached
   or closed. At this commit it would have to exclude overlapping connections
   throughout (see `detach_overlap`); it is worth stating once Close and
   DetachConn are told which connection they are for.
2. `Cluster` against a directory of users with leases, once something calls
   Refresh.
3. When Connection.Close gets a body: an action for it in SessionLifecycle,
   after which `logout_teardown` should pass.

## 6. Not modelled

* Bootstrap and wiring, the accept loops, configuration, logging, metrics, the
  admin API and the example business service have no state that the
  properties depend on.
* The SDK clients beyond the frames of the TCP client: they import
  `common-protocol/v1`, which this repository no longer has.
* The generated accessors, reflection tables and gRPC stubs of the protocol,
  and the gRPC sender, which has no state of its own.
* The offline store beyond the set of messages handed to it. `MySQLStore.Store`
  inserts an empty row at this commit (`worker/storage/mysql.go`).
* The replay of messages after a reconnect: the client is told where to start,
  and no code answers it.
* What happens behind the asynchronous Kafka writer. A comment in `pool.go`
  calls the send synchronous; the model calls a frame forwarded when the
  writer took it.
* A oneof wrapper that is a typed nil, which no decoder returns.
* Memory-level data races are represented only by the outcomes they can have
  at the level of one access (the lost increment and the shared SeqId above).
