# amqpprox in TLA+

A model of amqpprox, the layer 7 proxy for AMQP 0.9.1: TLA+ modules translated
from the C++ sources, TLC configurations that check them on small instances, and
TLAPS proofs of what holds for every instance.

`PROJECT.json` lists the components, the runs, for every definition the lines of
the source that it models, the hazards, the mutants (one per property and run: a
plausible bug that makes TLC report the property) and the theorems.

## 1. The system

amqpprox accepts AMQP connections, speaks the first half of the handshake with
the client, finds out from its `Open` which virtual host it wants, selects a
broker for that vhost, repeats the client's half of the handshake with the
broker, and from then on copies bytes in both directions.

Two threads matter. The *io thread* runs every completion handler of the data
plane (`Server::run`). The *control thread* (`Control`) runs the commands of the
operator; they reach into the sessions directly.

| part | state | operations |
| --- | --- | --- |
| `Session` | two sockets, buffers, retry counter, endpoints, disconnect type, pause flags | `start`, the handlers of read, write, TLS handshake, authentication, resolution, connect and timers; `pause`, `unpause`, `disconnect`, `backendDisconnect` |
| `Connector`, `PacketProcessor` | handshake state, answer to be written | `receive`, `synthesizeClose`, `process` |
| `MaybeSecureSocketAdaptor` | secured or not, data rate quota | connect, handshake, shutdown, close, read, write, `onTimer` |
| `VhostState`, `vhostEstablishedPauser` | paused vhosts | `VHOST PAUSE`, `VHOST UNPAUSE`; pausing a session whose vhost becomes known |
| `Server`, `SessionCleanup` | listeners, table of sessions | accept, start and stop listening, remove finished sessions, visit sessions |
| `ConnectionSelector`, `ResourceMapper` | vhost to farm or backend | `acquireConnection`, map and unmap |
| `ConnectionManager`, `RobinBackendSelector`, `BackendSet`, `AffinityPartitionPolicy` | partitions and their markers | `getConnection(retry)` |
| `Farm`, `FarmStore`, `BackendStore` | members, backends by name | add, delete, rebuild of the backend set |
| `ConnectionLimiterManager`, `FixedWindowConnectionRateLimiter` | window, count, limit, alarm | `allowNewConnectionForVhost`, `LIMIT` |
| `DataRateLimit`, `DataRateLimitManager` | quota, defaults | `onRead`, `onTimer`, `LIMIT DATA` |
| `BufferPool`, `BufferSource` | free lists, spillover, watermark | acquire, release |
| `DNSResolver` | cache of resolved names | resolve, clean up |
| `StatCollector` | previous totals, totals of deleted sessions | collect, `deletedSession` |
| `HttpAuthIntercept` | one request per session | resolve, connect, write, read |
| `Control` | control connections, scheduled events | commands, exit |

### What is hard about it

* A session never has a thread of its own. Its progress is a chain of handlers,
  each of which has to start the next operation on every path, and only one.
* State is checked when an operation is started and used when its handler runs:
  by then the client may have gone, a command may have paused or finished the
  session, the sockets may have been closed and opened again.
* Several causes end a session (either peer, the protocol, the operator, the
  rate limiter, authentication); each writes the verdict and closes sockets.
* The control thread calls methods of a session while the io thread is in it.
* Configuration, limits and statistics are shared by all sessions and changed
  while they run.

The hazards are listed, with the line where each of them bites, in
`PROJECT.json`.

## 2. The session: `Connector`, `Session`, `SessionProperties`

`Connector` holds pure operators. `Receive(state, method, direction)` is
`Connector::receive`: the next state, the frames put into the out buffer, the
side they go to, the exception thrown and whether the connection creation handler
is called. `Process` is `PacketProcessor::process` over the frames of one read.
A frame is its kind and, for content, a number; all other payload is left out.

`Session` has the state of one session in the record `s`. Each method of the
class is an operator from one value of `s` to the next (`HandleData`,
`HandleSessionError`, `EstablishConnection`, ...), so that a handler reads like
the code: the composition of the methods it calls. The actions are the
completion handlers of the io thread (`ReadSome`, `ReadEof`, `OperationAborted`,
`OperationFailed`, `WriteDone`, `IngressHandshake`, `LimitTimer`, `AuthResponse`,
`Resolved`, `ResolveFailed`, `Connected`, `ConnectFailed`, `ProxyHeaderWritten`,
`EgressTls`, `ShutdownDone`, `RunPosted`), the commands of the control thread
(`SessionPause`, `VhostPause`, `VhostUnpause`, `DisconnectGraceful`,
`ForceDisconnect`, `BackendDisconnect`) and the steps of the two peers.

| field of `s` | in the code |
| --- | --- |
| `conn` | `Connector::d_state` |
| `disc`, `paused`, `ready`, `vhost` | `SessionState`: disconnect type, `d_paused`, `d_readyToConnectOnUnpause`, virtual host known |
| `vpaused` | the vhost's entry of `VhostState` |
| `allowed` | history: the client was authenticated |
| `tls`, `proxy` | the sides that are secured, `Backend::proxyProtocolEnabled` |
| `shake` | the TLS handshake of `start()` is pending |
| `sock` | the two sockets: closed, connecting, open, in TLS shutdown |
| `rd`, `wd`, `ab`, `bad`, `blocked` | pending operations of each flow: reads waiting, writes sent, handlers queued with `operation_aborted` or another error, writes without space |
| `buf` | the read buffer up to its watermark |
| `eg`, `ep`, `retry` | the step of the egress connection that is pending, the endpoints left, `d_egressRetryCounter` |
| `posted` | closures dispatched to the io thread by a command |
| `in`, `out`, `fin` | the wires: received and unread, sent and not yet taken, the peer hung up |

How the model differs from the program:

* A handler or a command is one atomic step. Two handlers never overlap in the
  program (one io thread); commands do, and their interleaving inside a command
  is studied where it matters in `Server` and `DataRate`.
* Handlers that are ready may run in any order, where asio queues them: the
  model has more behaviours than the program, never fewer.
* A read takes any number of whole frames up to `BufferFrames`. A frame that
  arrives in parts is one that arrives later.
* Data on the wire to a peer that resets the connection is lost
  (`Hangup`); a peer that only closes has taken what it wanted.
* `Cap` is the number of frames in flight from which on a write blocks.
* `ConnectFailed` stands for a refused connect and for one that completed and was
  closed before its handler ran.
* TLS is the order of its operations; `Misbehave` says which failures may happen.

The client and the broker follow AMQP. They may close at any time, and with the
elements of `Misbehave` they may speak another protocol version, disappear,
refuse or deny. They are modelled from what the proxy relies on and are marked
external in the map.

### Runs

All runs check `SessionProperties`. Deadlock is not checked: a session that is
over has nothing left to do.

| run | bounds | what it shows |
| --- | --- | --- |
| `Session_commands` | any 2 of the 6 commands, 1 backend with up to 2 endpoints, 2 content frames each way, sockets that hold 1 frame, no TLS | `AuthorisedEgress`; `PassThroughInOrder`: what one peer sent and the other has not taken is in the sockets and buffers, in order, once; `PausedForwardsNothing`; `BlameStands`: the peer that is blamed for the end of the session stays blamed, whatever errors its sockets report later |
| `Session_live` | no side or both sides secured, a proxy protocol header, 2 backends, at most 1 `FORCE_DISCONNECT` or `BACKEND_DISCONNECT`, 1 heartbeat, no content | `IngressChain`, `EgressChain`: exactly one operation of each flow is pending until the session is finished; `OpenedByBroker`; `FinishedIsStable`; `ClientLossNoticed`; `FinishedIsReleased` |

Two endpoints reach a retry within a backend, two backends a retry of the next
one and the end of both. Two content frames are enough to tell loss,
duplication and reordering apart; `Cap = 1` makes the second one block. Two
commands cover each ordered pair of them.

`FinishedIsReleased` has one exception, `KeptByClient`. `backendDisconnect` closes
the broker's socket only; the aborted read of the broker finishes the session, and
its other read waits for a client that may stay connected and silent for good.
Two kinds of commands are left out of `Session_live`. A pause in the handshake ends
a chain of reads (`Session_pause_resume`, below). A graceful disconnect starts a
write on top of the pending operation, and while the broker is being connected it
leaves the session in `SERVER_CLOSE_SENT`, waiting for a broker that itself waits
for a `StartOk`.

Fairness (`FairSpec`): weak fairness of `IoStep`, some handler that is ready (the io
thread runs one as long as there is one; nothing is assumed of their order); of the
peers taking what they are sent and noticing a closed socket, which the kernels do;
and of a broker that hangs up some time after it sent a `Close`, which is its own
timeout. Nothing is assumed of what a peer or an operator starts.

### Where the code departs from what is said of it

`Session_pause_resume` ends in a counterexample: sessions paused in the handshake
are said to be resumed (docs/config.md), but one that received anything while it
was paused is never read again.

The model also shows four smaller differences for which no run is kept. `Close`
and `CloseOk` are said to signify a graceful close down (docs/architecture.md:108),
and a comment says of both that this "should still count as graceful"
(connector.cpp:160);
an open session is not decoded any more, and is recorded as dropped by whichever
side hung up.
`finished()` is not looked at again when a name is resolved, so that a broker may
see a connection for a client that has left (it is torn down: `FinishedIsReleased`
holds). In `OPEN_SENT` the Connector ignores a `Close`, so that a broker that
refuses the `Open` is not passed on to the client. `backendDisconnect` aborts a
read whose handler finishes the session, though the header says that the client
is left connected, and the test of it that the session is not finished
(tests/amqpprox_session.t.cpp:1283, where the handler of the read is never run).

### Proofs: `SessionProofs`, `SessionSafetyProofs`

`TypeCorrect` is `Spec => []TypeOK` and `FinishedForGood` is
`Spec => FinishedIsStable`, for all values of the constants that satisfy
`ConstantsAssumption`. Both rest on one notion: `Keeps(t, u)`, "u is a well formed
session, and finished if t is". It is transitive, so the proof follows the code:
a lemma for every method (`CloseType`, `DisconnectKeeps`, `HandleDataKeeps`, ...)
shows that the method keeps its argument, and the lemma of a handler chains those
of the methods it calls. `TypeOK` is inductive as it stands; what the proof needs
beyond it is the type of what `Process` returns (`ProcessTypeOf`), proved from
`Receive` up. `FinishedForGood` needs `TypeOK` for the same reason.

`SessionSafetyProofs` proves these safety properties, for any
number of backends, endpoints, frames and commands:

| theorem | property | hypothesis |
| --- | --- | --- |
| `OnlyAuthorised` | `AuthorisedEgress` | none |
| `OpenedInTurn` | `OpenedByBroker` | none |
| `AtMostOneOperation` | at most one operation of each flow is pending | no graceful disconnect |
| `OneIngressOperation`, `OneEgressOperation` | `IngressChain`, `EgressChain` | no graceful disconnect, no pause |

The hypotheses are on the set of commands that an operator issues, and without them
the properties are false of the program: `disconnect(false)` writes to the client on
top of the pending read; a pause in the handshake ends the chain of reads
(`Session_pause_resume`). With pauses the other half remains: never two.

None of the properties is inductive. `Guarded` adds to the types what is under way:
no `OpenOk` is in a buffer, a socket or a pending write to the client before a broker
has sent one (`Flows`), and an egress connection that is being made belongs to a
client that was allowed (`EgAuth`). `Chained` adds the account of operations
(`Chain(s, i, e)`): a flow of a session that is not finished has its read, write,
queued error or step of the connection pending, less the i and e that a handler has
taken off and owes. The parameters are what makes the proof follow the code: a
handler begins by taking its operation off, so between its methods the account is
short by one, and the lemmas in the second half of `SessionProofs` say for each method
how many operations it starts and from which debt it leads to none.

Only model-checked: `PassThroughInOrder`, whose inductive invariant relates whole
sequences of frames over three buffers and would more than double these proofs, past
what tlapm checks in reasonable time; `PausedForwardsNothing`, which rests on the same
invariant; `BlameStands`; and the two liveness properties, which are outside what TLAPS proves.

## Authentication and name resolution: `Auth`, `Authority`

`Authority` is what a `Session` relies on, whatever mechanism is configured
(`AuthInterceptInterface::authenticate`): a request is answered once and for all,
ALLOW only if the judge of that client said so, and no request stays open. `Auth`
is the code: `DefaultAuthIntercept`, `HttpAuthIntercept` with its four handlers, the
`AUTH` command, the part of `Session` that asks and goes on, and the `DNSResolver`
that both the interceptor and the search for a backend use.

| variable | in the code |
| --- | --- |
| `intercept` | `Server::d_authIntercept` |
| `session` | per client: where it is, the mechanism it was accepted with, what the service has said, what `responseCb` made of it, `d_egressRetryCounter`, `finished()`, the list of endpoints it was given and how many of them are left |
| `cache`, `timer` | `DNSResolver::d_cache` and the timer of its cleanup |
| `lookups` | operations of the system's resolver |
| `queue` | handlers in the order in which the io thread runs them: a cleanup, the posted ALLOW of the default, a cached answer, the completion of a lookup |

An answer of the DNS has an age, the number of cleanups since it was given; the copy
that a session holds while it tries its endpoints one by one ages too. Each
step of the HTTP exchange may fail, or run into the expiry of the stream, which is
the same handler with an error; the service may answer before the write of the
request has completed here. `resolve` has no expiry of its own: that every lookup
ends is assumed of the system's resolver. Pausing is checked in
`attemptConnection` too; that is in `Session`.

| run | bounds | what it shows |
| --- | --- | --- |
| `Auth` | 2 clients, 1 service, 2 backends, one of them on the host of the service, answers of up to 2 endpoints, 1 `AUTH` command, any number of cleanups | `AnswersLikeAuthority`: `Auth` implements `Authority` (safety and liveness); `AddressesFresh`: no address is older than two cleanups when the resolver hands it over, to a session or to the interceptor; `EntriesExpire`: each entry of the cache is dropped |

Two clients are enough for one to fill the cache for the other between any two of
its steps; a backend on the service's host makes both users of the resolver share
an entry. The bound of two cleanups is tight: an answer may wait in the queue
behind a cleanup before it is cached, and a hit on it behind another. It is about the
moment of the callback: a connect may take long, and the second endpoint of a list is
then tried with an address that is older (`Dialed`).

The mapping of the refinement: `answer` is "asked" while the session waits for its
mechanism and `result` otherwise; `judge` is `using`; `word` is what was said, with
a body that does not parse and an unknown result both "unclear". Fairness
(`FairSpec`): the io thread runs what is queued, the timer expires, lookups end,
and the stream's expiry ends each step of the exchange. Nothing is assumed of the
service.

Some of what the code decides is worth knowing. The status line of the response is
not looked at, the body alone decides. ALLOW is the default value of the message's
result, so a body without fields is an ALLOW. A resolution with a good code and no
endpoints is cached like any other.

### Proofs: `AuthProofs`

`ImplementsAuthority` is `Spec => A!Spec`: the safety part of the refinement, for
any clients, services, backends and commands. `AlwaysFresh` is
`Spec => AddressesFresh`, and `TypeCorrect` is `Spec => []TypeOK`. The three use
one invariant, `IInv`:

* `Ordered`: every queued handler and every lookup finds its client in the state
  it expects, and no client has two of them. Without it a second callback could
  reach a session that was answered already.
* `SessionOK`: what a session remembers fits where it is (no result while it
  waits, ALLOW from `routing` on, something said only during the exchange).
* `Young`: there is at most one cleanup in the queue, and none while the timer is
  armed; a completed lookup is at most one cleanup old, or fresh if the cleanup is
  still ahead of it, and a hit at most two, or one.

A lemma for each helper (`Resolved`, `Attempted`, `Responded`) and for each action
shows that the invariant is kept and that at most one session changes, by a `Move`,
and that what it is given on the way is fresh (`FreshlyGiven`); a cleanup changes
nothing but the ages of what is held (`OnlyHeld`). `MoveImplements` turns a move into
the step of `Authority` it stands for. The
liveness of the refinement, and `EntriesExpire`, are model-checked only.

## The wire: `Codec`

`Codec` has the formats as operators, decoders and encoders as the code has them
(`DecodeFieldTable`, `EncodeShortString`, ...), and a handshake that uses them: the
client's octets arrive in any pieces, the connector decodes what is whole, makes its
own `Start`, `Tune`, `OpenOk` and `Close`, and passes `StartOk`, with its fields
injected, `TuneOk` and `Open` on to the broker. A buffer being read is what is left
of it, one being written the room that is left.

Octets that carry numbers have the base `Base` instead of 256, so every number keeps
its count of octets and a short string its limit of `Base - 1`. The `Wire` operators
are the reference: the protocol's encoding, written without buffers, positions and
limits. `told` remembers the methods that were meant to be in the reply buffer.

| run | bounds | what it shows |
| --- | --- | --- |
| `Codec` | base 8, frames of up to 64 octets, every type of field value at its edges, tables and arrays inside each other, `StartOk` of four lengths up to the limit, short strings of no octets and of the most, six answers of the authentication | `DecodedInPieces`, `EncodedWhole`, `RoomForLengths` |

The lengths are chosen so that the injected fields fit, fit without a later one, and
do not fit. Clients keep to the frame size that was announced; `RoomForLengths` rests
on it. `'U'` is passed on as `'s'`; the reference says so (`Plain`).

A message that cannot be encoded is only logged, and the connector goes on to its
next state. The reason of a denial is cut to what a short string holds; the texts
that contain a vhost are not, so that with a very long vhost no `Close` is sent.

The decoder of field values refuses a type it does not know, but copies the octet of
the type and those of numbers with no check of its own that they are there: only the
assertion in `Buffer::skip` is (`Overrun`). `RoomForLengths` says that what clients
send that follow the protocol never meets it, nor the one of the encoders.

The decoders are recursive over values inside values; they are checked, not proved.

## Memory: `DataPath`

The buffers of an open session and the pool they come from. A flow has `rd` and `wr`
(`bufferHandle`, `bufferWriteDataHandle` of `Session`), a watermark, and one pending
operation; `pool` has the counters of each `BufferSource`, `live` the memory that is
handed out and `mem` the octets in it. Octets are numbered, so a write of the wrong
memory shows. `HandleData` is `readData`, `PacketProcessor::process` of an open
session, `copyRemaining` and the write that follows.

| run | bounds | what it shows |
| --- | --- | --- |
| `DataPath` | both flows, 2 frames each way that fit a buffer or are one octet too large, overhead 2, buckets of 1 and 4 octets, reads of any size | `WritesIntact`: memory that is being written is not reused; `ReadHasRoom`; `PoolAccounted`: no buffer is lost or handed out twice |

A frame of 3 with buckets of 1 and 4 gives reads that need a larger buffer than the
one they have, a frame of 5 one that only the heap has. `DISCONNECT_GRACEFUL` is left
out: `disconnect(false)` begins a second write on a flow whose handler also releases
`bufferWriteDataHandle` (session.cpp:725-729), and asio does not define what two
writes at a time put on the wire. Memory never runs out.

### Proofs: `DataPathProofs`

`WrittenIntact`, `ReadsHaveRoom` and `PoolIsAccounted` are the three properties of the
run, for any set of flows, any sizes of frames, buckets and reads that satisfy
`DataPathAssumption`. None is inductive. `DataPathInvariant` is the invariant they
follow from (`DataPathInv`), in three parts:

* `Held`: the memory that is handed out is what the handles hold, each piece in one of
  them, and the counters of each source agree with the number of its pieces. Acquiring,
  releasing and swapping are each shown to keep it (`AcquireHeld`, `ReleaseHeld`,
  `SwapHeld`), so the handlers need not look at the pool again.
* `Position`: how far the octets of a flow were read and written, and that both are
  where the peer's frames allow. A set of ends of frames has a last one below any bound
  (`LargestBelow`), which is where the whole frames of a read end.
* `Filled`: the octets in the memory of a pending read or write. It is what a reused
  buffer would break, so each step on one flow is shown to leave the memory of the
  others alone (`NotOfOthers`, `FilledSame`).

`AcquireBuffer` takes memory that nobody has; that there is some is a counting argument
over the handles (`FreeExists`), so the number of pieces in the model is enough.

## The limits: `ConnectionLimits`, `DataRate`

`ConnectionLimits` is `ConnectionLimiterManager` with its limiters. `limiters` are
the two maps by vhost (the limits and the ones that only log), `default` the two
defaults; `now` is the clock in ticks, and a window has `Window` of them. `chosen`
and `allowed` are history: the limits that `VHOST` commands have set, and when a
limiter allowed connections (a new limiter starts a new history: setting a limit
again forgets what was counted). Each method holds the mutex and is one step.

`LIMIT PRINT` is `PrintVhostLimits` and `PrintAllLimits`; `LimitInForce` says that it
shows the limit that is in force.

`DataRate` is the limit on the bytes read from one client: `DataRateLimit` twice
(`limit`, `alarm`), the timer of `MaybeSecureSocketAdaptor`, `DataRateLimitManager`
(`manager`), and the two threads that bring a limit from the manager to the session
in two steps, reading it and setting it (`io`, `control`). One timer carries
two waits. The refresh renews the quotas and starts the timer again; a read
without quota cancels the refresh and waits in its place until the same expiry.
Which handlers can still be cancelled depends on asio, so its queue is part of the
state: a wait that is pending in the timer can be cancelled, one that has expired
and is queued cannot. "poll" in the queue is the turn of the reactor; what it
finds ready is queued there, sockets before timers, as the epoll reactor does.
`recordUsage` is one step, though the control thread may change the quota within
it.

| run | bounds | what it shows |
| --- | --- | --- |
| `ConnectionLimits` | 2 vhosts, limits 0 and 2, windows of 2 ticks, 4 instants, any 3 commands | `LimitInForce` (docs/config.md: the specific limit takes priority, the default applies otherwise); `AverageKept`: in a span of k windows' length at most k + 1 times the limit; `RefusedOnlyWhenFull` |
| `DataRate` | quotas of 0 and 2 bytes or none, reads of up to 2, 2 commands | `ReadsGoOn`, `QuotaEnforced`, `ClosedIsReleased`, `LimitsReachSession` |

Three commands set a default, override it and remove it again. Two windows, a
limit of 2 and connections at each instant put a full window before, after and
across every boundary; a limit of 0 refuses always. Reads of up to 2 bytes use
up, exceed or leave each of the quotas. `MCDataRate` splits the bounds of `DataRate`
in two kinds of behaviours: many bytes under changing defaults, or few bytes while
defaults and the vhost's own limits change.

Three exceptions are part of the properties of `DataRate`, and each is something
the code does:

* A refresh that was queued before a read is paused cancels that read, and nothing
  begins it again, though docs/config.md:155 says that a session over its limit
  pauses for a second and reads on (`lost`; maybesecuresocketadaptor.h:411).
* With a limit of 0 bytes the paused read waits again each second, also after its
  socket was closed, and holds the session for ever.
* Of two threads that bring limits to a session at the same time the one with the
  older value may be the last; it stays until the next command (`stale`).

Fairness (`FairSpec` of `DataRate`): the io thread runs what is queued, the control
thread ends its command, time passes, and a session that no handler holds is
destroyed (`Server`).

### Proofs: `ConnectionLimitsProofs`, `DataRateProofs`

`LimitAlwaysInForce` is `Spec => []LimitInForce` under
`ConnectionLimitsAssumption`. `LimitInForce` speaks of the limiter that the next
connection meets and is not inductive: `SetDefault` and `RemoveDefault` go by the
flag that tells specific limiters from the others. The invariant `LimitersFollow`
adds that the flag is right, and that a limiter made from the default has the
current one; `PopulatedFollows` carries it over limiters made on demand. 

`AverageAlwaysKept` and `RefusedAlwaysFull` are `AverageKept` and
`RefusedOnlyWhenFull`. Their invariant `Windowed` relates a limiter to its history
(`Counted`): the connections counted in the window are the last ones of the history
and were allowed within it; the earlier ones that lie within k windows before its
beginning are at most k times the limit. The second part is what makes it inductive:
a window that ends adds at most one limit and at least one window's length. The
history is the sequence of times, so that no sum over a span is needed.

`DataRateProofs` proves `ReadsGoOn`, `QuotaEnforced` and `LimitsReachSession` with the
exceptions that they state, from `RateInv`. It says of the adaptor (`Sound`) that a
timer that was started has a wait pending or its handler queued, that at most one
of the two waits and of the handlers with which the session goes on is there, and
that what was used and what is left of the quota add up; of the session (`Ongoing`)
that it waits for something, or that the io thread is inside `updateDataRateLimits`;
and of the threads (`LimitsReaching`) that each limit has arrived or will be set yet by
one of them. The queue of handlers is of any length. `DataRateAssumption` asks of the
constants what the code guarantees: quotas are natural numbers, and the bounds are
records of the defaults, bytes and commands of a run.

Only model-checked: `ClosedIsReleased`, a liveness property.

## Routing: `Routing`

How a session gets its broker. `store`, `farms`, `map`, `default` and `dc` are
`BackendStore`, `FarmStore`, `ResourceMapper`, the default farm of
`ConnectionSelector` and `Datacenter`; `sets` is the heap of `BackendSet` objects
that farms and connection managers share; `sess` holds, for each session, its
`ConnectionManager` (the set and the snapshot of the markers), its retry counter
and the backends it attempted. `Select` is the arithmetic of
`RobinBackendSelector::select`, `Affinity` that of `AffinityPartitionPolicy`.
Every call of `getConnection` marks its partition, the ones that only look up the
current backend included.

Commands and handlers are atomic steps. Whether a connection limit refuses a
session, and whether a session was paused or finished before an attempt, are
free choices (`Limited`, "stopped"): `Session` models when they happen. The
order in which a farm's hash set lists its members is one fixed order. `ub` is
set when a handler or a policy dereferences a backend that is null or was
deleted; nothing happens after that.

| run | bounds | what it shows |
| --- | --- | --- |
| `Routing_config` | 2 sessions, a farm of 3 backends or of 2 (one of them with up to 2 endpoints) in 2 datacenters, 1 of any of the 9 commands | the selector contract of `docs/sessions.md`: never the same backend twice, partitions in order, and the settings used are those of the backend connected to, while two sessions move the same markers and the configuration changes under them; partitioned farms follow the datacenter |
| `Routing_null` | 1 session, `BACKEND DELETE` and `DATACENTER SET` | ends in a counterexample of `AllTriedBeforeGivingUp`, see below |

Two sessions and three backends are enough for the properties that pass: a
session is disturbed only through the markers of its set, and one other session
moves them by any amount it can move them at each point; three backends make two
partitions of different sizes.
Deadlock is not checked: sessions end.

A selector is said to give a valid backend as long as one was not attempted
(docs/sessions.md, line 85). When one of a farm's members was deleted and the farm is
partitioned again, its place in the set is a null pointer (farm.cpp:89); a session
whose turn comes to it takes it for the end of the list and gives up with the others
untried. `Routing_null` shows it; `NoneLeftOut` below shows that it takes both
commands.

The model also shows a difference for which no run is kept.
Round robin is said to begin with the backend that least recently had a connection
attempt (line 100); every call of `getConnection` moves the marker
(robinbackendselector.cpp:49), and a session that connects at once makes three, so
that with three backends the next session gets the same one.

### Proofs: `RoutingProofs`

All five properties are proved, for any number of sessions, backends, farms,
datacenters and commands, under `RoutingAssumption` (finitely many backends and
farms, listed in some order). `NoneLeftOut`, the proof of `AllTriedBeforeGivingUp`,
has the hypothesis that not both `BACKEND DELETE` and `DATACENTER SET` are issued:
together they are the case of `Routing_null`.

The proof has three layers.

* The algorithms. `Affinity` splits partitions without losing, doubling or
  reordering a backend (`AffinityEffect`, `RepartitionEffect`). For a set whose
  backends are all different (`Apart`) and any markers, `select` is an enumeration of
  the set: each retry count falls on one partition (`PartitionNumbers`) and one place
  in it (`Rotation`), different ones give different backends (`SelectOnce`), lower
  ones earlier partitions (`SelectInOrder`), and when the answer is none all were
  given (`SelectAll`).
* The heap. Sets are only added, and their partitions never change; commands replace
  a farm's set by a new one (`Grows`, `Rearranged`). So a manager's set and
  snapshot stay what they were while other sessions move the markers.
* The sessions. `SessionOk` says that the i-th backend that a session tried is what
  its manager answers for retry count i - 1. `RoutingInv` is this for every session,
  with the types, the sets (`HeapOk`) and `LocalFirst`; it is inductive
  (`RoutingInvariant`), and the properties follow from it and the first layer.
  `NoneLeftOut` adds `Complete`: no set holds a null pointer.

`Skipped` and `Ascending` are defined by recursion and by `CHOOSE`. What they
compute is proved by induction over sets of numbers (`Induction`, `Recursion`), from
the library's theorem that every set of natural numbers has a least element.

## The threads around the sessions: `Server`

`Session` treats a command as one step. `Server` splits commands and handlers into
what one thread does under one lock or with one atomic variable, and keeps of a
session only what the others see of it.

| variable | in the code |
| --- | --- |
| `sess` | `SessionState` (vhost, `paused`, `ready`, finished); `up`: the client's socket is open, `egress`: whether the broker's is connecting, open or was cut off by `backendDisconnect`, `held`: its handlers hold a reference |
| `table`, `deleting` | `d_sessions`, `d_deletingSessions` of `Server` |
| `vpaused` | `VhostState` |
| `listener`, `accepts` | `d_listeningSockets`, and the accepts that are pending on them |
| `posted` | what is queued for the io thread: closures, and aborted accepts, in the order in which asio runs them |
| `io` | the io thread's place between `setVirtualHost`, `isPaused`, `getSession`, `establishConnection` |
| `ctl` | the control thread's place in a command or in `SessionCleanup::cleanup`, with the copies of references it holds |
| `main`, `stopped` | the main thread's place (it configures, becomes the io thread, joins the control thread), and the io_contexts that were stopped |

`Leave` is an error on a socket that is open, `CloseOk` the end of a graceful close,
`Aborted` the handler of an operation whose socket was closed: it finishes the session
and closes nothing more. `Connected` and `Unreachable` end the search for a broker,
`PausedRead` is the read that a paused session in the handshake does not follow up,
and `Release` the return of the last handler. `SESSION DISCONNECT_GRACEFUL` is the
write it starts; the exchange that follows is in `Session`.
The pauser dereferences the session it looks up; if the cleanup has removed it
meanwhile the model stops (`crashed`), and the properties speak of runs up to then.

| run | bounds | what it shows |
| --- | --- | --- |
| `Server` | 1 vhost, 1 port; 2 sessions and any 1 of the 10 commands, or 1 session and any 3 (`MaxLoad`), at any time from the start of the control thread on | `DestroyedOnIoThread` (the comments in `cleanup` and `clearDefunctSessions`); `PausedVhostHolds`: a pause misses no session; `PortKeepsAccepting`, failed accepts included; `FinishedIsDestroyed`; `ExitEnds` |

Two orders of steps that the model has are worth knowing. A `VHOST UNPAUSE` that
clears the flag and visits the sessions between the two steps of the pauser
(`IsPaused`, `PauserPause`) leaves that session paused with nothing to resume it.
A `LISTEN STOP` with a `LISTEN START` of the same port queued right behind it
leaves two accepts on the port, one with the security of the old listener, since
the aborted accept runs after the new listener was made.

A third is the life of the program: `bind` of a port that is taken throws on the io
thread (`BindFails`), `run()` ends, and with it the service of all ports and sessions,
while the control thread goes on taking commands; `EXIT` still ends the program.

Two sessions put one in the cleanup while the other is accepted, paused or
disconnected; three commands give each ordered pair of them with an `EXIT` or a
second pause after it. Cleanup rounds are not
bounded. Deadlock is not checked: the model stops in `crashed` and when the program
has ended. `FinishedIsDestroyed` has the exception that `FinishedIsReleased` has in
`Session`: after a `BACKEND_DISCONNECT` a session is finished while its client stays
connected, and a client that neither sends nor leaves keeps it (`KeptByClient`).

Fairness (`FairSpec`): some step of the io thread that is ready is taken (`IoStep`:
the rest of a handler, a queued closure, the end of a connect, the aborted handlers
and the release of a session whose client's socket is closed), both other threads
finish what they have begun, and the timer of the cleanup is served again and again though commands may come in
between (strong fairness of `Cleanup`; asio runs ready handlers in turn).

### Proofs: `ServerProofs`

`OnIoThread` is `Spec => DestroyedOnIoThread`, `NoneMissed` is
`Spec => []PausedVhostHolds` and `KeepsAccepting` is `Spec => []PortKeepsAccepting`,
for any sessions, vhosts, ports and commands that satisfy `ServerAssumption` (the
commands are known ones, `Null` is none of the others). One invariant, `IInv`, has what the three need, in parts:

* `References`: whatever the control thread holds (the copy of the table, the
  sessions to be removed, those still to be visited) is in `table` or `deleting`,
  and it holds nothing once it has ended. So when it lets go of a session another
  reference is left, and `clearDefunctSessions` hands the last ones to the queue.
* `Accounts`: a session that has its client or knows its vhost stays in the table
  until it is finished, and only finished ones are removed. Without it the copy that `VHOST PAUSE` visits might lack one.
* `Pauses`: a session of a paused vhost is paused or finished, or the pauser is on
  its way to it, or the `PAUSE` of that vhost is still under way and has not come to
  it; and while `UNPAUSE` visits, its vhost is not paused.
* `Accepting`: until `run()` returns each listener has an accept.

There is a lemma for each helper, for each action or group of actions with the same
frame, and for the frames themselves (`OnlyTheNet`, `OneSession`, `OnlyControl`).
`FinishedIsDestroyed` and `ExitEnds` are liveness and model-checked only.

## Statistics: `Statistics`

The sessions count on the io thread (`IncrementTotals`); on the control thread a round
of the cleanup (`Cleanup`, `Collect`, `Finished`, `Emit`, `DeletedSession`, `Reset`)
collects the totals along four axes, reports the difference to the last round, takes
removed sessions out of the totals and swaps the snapshots. `functors` is the list of
`StatControlCommand`, `client` the `ControlSession`s with their reads and writes.

One number stands for the bytes, the frames and the packets of a session, which are
counted once it is open; it wraps at `Width`. The latencies are not modelled: they are
added from the handshake on (session.cpp:741), before the vhost is known, so that they
begin in one entry of their axis and move with the session to another. The totals
and the keys of a session are read in one step: a key that changes between the two
reads would be one of those that `Stable` leaves out. `rep` and `seen` are history:
what was reported, and what a session had carried when it was collected.

| run | bounds | what it shows |
| --- | --- | --- |
| `Statistics` | 2 sessions of 1 byte each on the same axes and 1 command that disturbs the accounts, or 1 session, 1 control client and any 3 of `LISTEN`, `SEND`, `STOP SEND`, `HELP`; any number of rounds | `NoByteReportedTwice` (the A-B-A problem that the comment in `deletedSession` describes), `CollectedIsReported`, `ListenersHear`, `ListenerForgotten` |

Two sessions are needed for one that follows another on the same axes; three commands
for a list in which a functor before, between or after others is erased (`MCStatistics`
has the two kinds of behaviours). Fairness (`FairSpec`): the control thread ends a
round that it has begun, begins the next again and again, and the read of a client that
left fails (strong fairness of both: other handlers may come in between).

What the model shows beyond the properties:

* `MAPHOSTNAME`, a name that becomes known to the mapper, and switching the figures per
  source on and off move a session to another entry of its axis; its bytes are reported
  again there. The properties are about the axes on which this does not happen.
* Bytes that a session carries between its collection and `deletedSession` are in the
  next report, or in none on an axis that has lost its last session.
* A session that finishes between the two is removed without being counted in the
  three `removedConnection` numbers.
* `STAT SEND` to a host that cannot be resolved ends the control thread.
* A second output to a slow control client begins while the first is being written
  (control.cpp:113); the model does not say how their octets mix.

## Plan

1. (done) `Connector`, `Session`: the data plane of one session with its peers
   and the commands that act on it; type correctness and the stability of
   `finished()` proved.
2. (done) `Routing`, `Server`, `ConnectionLimits`, `DataRate`, `Statistics`,
   `DataPath`, `Codec`, `Auth` and its refinement of `Authority`, with proofs of the
   limit in force, of the refinement's safety, of the age of addresses, and of the
   three safety properties of `Server`.
3. Refinements: an abstract session (new, connecting, open, finished) implemented
   by `Session`, and an abstract table of sessions implemented by `Server`.
4. (done) Proofs of the safety properties of `Routing`, `ConnectionLimits`,
   `DataRate` and `DataPath`, and of those of `Session` but `PassThroughInOrder`,
   `PausedForwardsNothing` and `BlameStands`.
5. The steps of `acquireConnection` between its locks, where a farm that is
   destroyed in between has a defined outcome.

## Not modelled

* Logging, `LOG`, `TLS` and the process figures: settings that are handed to
  Boost.Log and OpenSSL, and readings. No state of the proxy depends on them.
* The text of what commands and publishers print, and `HELP` beyond the fact that it
  answers.
* `amqpprox_ctl`, a client that copies a line to a socket and the answer to its output.
* The command line of the proxy: what `main` does with its threads is in `Server`.
* Subscribing to and unsubscribing from events while one is emitted: both subscribers
  subscribe before the proxy runs.
* Data races on a `shared_ptr` and references to destroyed objects, which have no
  outcome to go on from. Where the program can reach one the model stops (`ub` in
  `Routing`, `crashed` in `Server`) or the hazard has a note.
* Proofs of liveness: outside what TLAPS can prove, so those properties are
  model-checked only. So are the properties of `Codec`, whose decoders are recursive
  operators over values inside values, and those of `Statistics`: its functors run in a
  recursive operator, and its invariants are sums over sets, which need induction.
