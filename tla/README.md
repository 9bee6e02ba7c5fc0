# TLA+ verification of CpperoMQ

CpperoMQ is a header-only C++11 layer over libzmq. It has no threads of its own
and no network code; what it adds is a discipline: multipart messages built from
nested *Sendables* and taken apart by nested *Receivables*, RAII ownership of
contexts, sockets and messages, a variadic `Poller` with callbacks, a `Proxy`.
The specifications in this directory model that layer from its headers
(`src/include/CpperoMQ/`), the composites from the examples of the repository's
`README.md`, and libzmq as CpperoMQ calls it.

## Inventory

| Component | State | Operations | Interacts with |
|---|---|---|---|
| `SendingSocket`, `Sendable`, `OutgoingMessage::send` | the C++ stack of nested `send()` calls; libzmq holds back frames sent with `ZMQ_SNDMORE` | `send(first, rest...)`, `setSendTimeout`, `setLingerPeriod` | libzmq's pipe (high water mark), the peer, `~Context` of another thread |
| `ReceivingSocket`, `Receivable`, `IncomingMessage::receive` | the stack of nested `receive()` calls, one shared `moreToReceive` | `receive(first, rest...)`, `setReceiveTimeout` | libzmq's inbox, `~Context` of another thread |
| `Context`, `Socket` | the raw handle or null | constructors, `createXSocket`, moves, swapping assignment, destructors | every thread that owns a Socket of the Context; libzmq's reaper |
| `Poller`, `PollItem` | `mTimeout`; an array of `zmq_pollitem_t` and one of callbacks per call; in each item a pointer to a Socket object | `poll(items...)`, `setTimeout`, `isReceiveReady` and its like | Socket objects that may be moved from, callbacks written by the application |
| `Message` and its handles | a `zmq_msg_t` | shallow copy, swap, close | reference count of the content in libzmq |
| `Proxy` | two raw socket handles | `run`, `setCaptureSocket`, `setControlSocket`, moves, swap | sockets it does not own; the loop of `zmq_proxy_steerable`; whoever steers it |
| Socket options (mixins) | none: they are in libzmq | getters and setters with a C++ type each, `subscribe`, `unsubscribe`, `setIdentity`, the Context's settings | libzmq's checks of sizes and values |
| Socket types | none: compile-time composition of mixins | what a type offers, and which items, proxies and roles it is let into | |
| `Error`, `Version`, `Common` | `errno` at the throw | | |

What is hard to get right, and to test, in this code:

- **Message boundaries rest on one flag.** A `send()` call is one multipart
  message only because `(sizeof...(sendables) > 0)` is right at every level and
  every composite hands its own `moreToSend` to its last part. On the way in,
  each level compares `moreToReceive` with what it has left.
- **Failure between two frames.** Nothing is taken back; the next call meets
  what the failed one left, in the sender's socket or in the receiver's.
- **Blocking in the middle.** The high water mark, time-outs, signals and the
  termination of the Context by another thread reach a call at any depth.
- **Ownership through moves.** Assignments swap, destructors run in the reverse
  order of construction, exceptions unwind scopes, and `~Context` blocks until
  all sockets are gone: also those of its own thread.
- **Callbacks on a snapshot.** `poll()` runs callbacks on events noted before
  the first of them ran, and callbacks may use the sockets, move them away, poll
  again or throw.
- **A loop that is not the library's own.** `Proxy::run()` lends four sockets to
  libzmq and learns only at the end, and only with a control socket, whether the
  loop ended between two messages or in the middle of one.
- **Settings that come too late, or never.** A Context's settings reach later
  sockets only, a socket's later connections only, and what is refused (a value
  of the wrong size, an empty identity, a subscription of an XSUB socket) is
  refused by an exception each time.

`PROJECT.json` lists each of these hazards at its line.

## Modules

| Module | Models | Checked by |
|---|---|---|
| `Nesting` | what the parameters of `send()` and `receive()` are made of: messages, composites, the leaves of a list (no state) | the three modules below that extend it |
| `MultipartSend` | one sending socket, the thread that calls `send()`, the pipe | `MCMultipartSend` |
| `MultipartSend_proofs` | theorems about it | TLAPS |
| `MultipartReceive` | one receiving socket, the thread that calls `receive()`, the inbox | `MCMultipartReceive` |
| `MultipartReceive_proofs` | theorems about it | TLAPS |
| `AtomicChannel` | what the README promises of a channel: whole messages, in order, or not at all | (abstract specification) |
| `MultipartChannel` | a sender and a receiver connected: the two modules above composed with `INSTANCE`, shown to implement `AtomicChannel` | `MCMultipartChannel` |
| `MultipartChannel_proofs` | theorems about the composition | TLAPS |
| `ContextLifecycle` | Context and Socket objects in the scopes of threads, moves, destruction, termination | itself, two configurations |
| `ContextLifecycle_proofs` | theorems about it | TLAPS |
| `Poller` | `poll()`, its items, the callbacks, nested `poll()` calls, Socket objects that are moved from | `MCPoller` |
| `Poller_proofs` | theorems about it | TLAPS |
| `Proxy` | Proxy objects, `run()` with the loop of `zmq_proxy_steerable`, its peers; shown to implement `AtomicChannel` twice | `MCProxy` |
| `Proxy_proofs` | theorems about it | TLAPS |
| `MessageHandles` | message objects of two threads, the `zmq_msg_t` in each, the contents they share | `MCMessageHandles` |
| `MessageHandles_proofs` | theorems about it | TLAPS |
| `SocketOptions` | the getters and setters of Socket and the mixins, with the C++ type of each; subscriptions; the Context's settings | `MCSocketOptions`, two configurations |
| `SocketOptions_proofs` | theorems about it | TLAPS |
| `SocketTypes` | the mixins of every socket type (no state) | `Poller`, `Proxy` and `SocketOptions`, which extend it |

### Correspondence with the code

**Nesting.** `Items` is whatever has a `send()` or `receive()`, `Parts` the items
that a composite's own works through. `Leaves` says recursively what a list of
items stands for; it is the reference that the two protocols are compared with.
`NestingAssumption` excludes a composite that is a part of itself, whose `send()`
would never return, and one without parts: its author would have no frame to
give the flag to.

**MultipartSend.** The variable `pending` is the C++ call stack flattened: the
`send()` calls still to be made, innermost first, each with the `moreToSend` it
will get. `CallSend` is `SendingSocket::send` expanding its parameter pack
(`ArgumentCalls` computes the flag from the number of parameters left);
`EnterComposite` is the entry of a composite's `send()`, whose parts take its
place (`PartCalls`, the pattern of `Department::send` and
`DepartmentUpdate::send` in the repository's README). `SendMessage`,
`SendTimesOut`, `SendTerminated` and `SendInterrupted` are the outcomes of
`OutgoingMessage::send`: libzmq accepts the copy, `EAGAIN` becomes `false`,
everything else is thrown. `CompositeFails` is application code in a composite
that fails before its next part. `done` and `gone` are history variables; the
frames carry the number of their call, so that calls with equal parameters can
be told apart.

**MultipartReceive.** `todo` is the call stack: calls of `receive()` to be made
and ends of composites (`"finish"`). `FlagAgrees` is the pair of comparisons in
`ReceivingSocket::receive` and the checks in the composites of the README, which
test the flag between their parts and leave it alone after the last one.
`CompositeFails` is application code in a composite that cannot make sense of
what it has received, between two of its parts or at its end, as
`deserializeNumber` in the README. What a frame is, is a parameter (`Frames`): here the messages come from nowhere, in the
composition from a sender.

**MultipartChannel.** The sender's `pipe` is the receiver's `inbox`. Two threads
interleave between frames. Both applications give a socket up when a call
failed between two frames (`ReuseBroken`, `ReuseMisaligned` are FALSE), because
otherwise the promise does not hold: see the two violations below. `Whole` is the
set of messages that the parameter lists stand for, by `Leaves`.

**ContextLifecycle.** A C++ object is an entry `[kind, handle]` of the stack of
the thread whose scope it is in. Moves empty the source, assignments swap,
scopes end from the top. `~Context` is three actions: `DestroyContext` calls
`zmq_ctx_term`, then `TermReturns` or `TermInterrupted` ends it. libzmq's side
is what `zmq_ctx_term(3)` says: it waits for the sockets to be closed and
reaped, a closed socket with an infinite linger period is reaped when it has
nothing left to send, and blocked calls are woken up with `ETERM`.

**Poller.** `frames` is the stack of `poll()` calls in progress, with the
snapshot `revents`, the loop's position and the callbacks run. The arrays are
filled from the end, so position i holds parameter N + 1 - i. A callback does
at most one thing before it ends: it receives or sends on any socket (and may
block there), moves a Socket object away or assigns a new socket to one
(`Reassign`), sets the time-out, or polls again; it may throw. `gone` is the set
of Socket objects that have been moved from: an item points to the object
(`PollItem.hpp:65`), so `poll()` then fails its assertion (`AssertionFails`). With
`NDEBUG` there is no assertion, `zmq_poll` watches file descriptor 0 in the
object's place, and `StaleOnlyIfUsed` does not hold any more; the run has
assertions. `PollItemAssumption` compares the types that the `static_assert`s let
pass with the mixins: XPUB sockets can receive and XSUB sockets can send, and
they are refused where the message of the assertion asks only for the mixin.

**Proxy.** `handle` is `mCaptureSocketPtr` and `mControlSocketPtr` of each object;
the move assignment swaps, and the move constructor swaps with an empty Proxy.
`Run` enters libzmq's loop, `Returns` leaves it and computes what `run()` returns:
`true` without a control socket, else whether libzmq returned 0. In between, the
actions of `Library` are the steps of `zmq_proxy_steerable`, one call of libzmq
each: poll for readers, then for writers; take a command; take a frame from the
frontend until its message ends, then from the backend; copy each to the capture
socket; send it on. Commands are copied to the capture socket too. The loop
fails with `EINTR` where it waits and with `ETERM` once the Context is terminated
(`Fails`), possibly between two frames. The application runs the pair again only
if `run()` has returned `true` and the Proxy had a control socket, which is the
only case in which the value tells anything.

**MessageHandles.** `handle` is what the `zmq_msg_t` of each message object refers
to: no object, an empty message, or a content with a reference count in libzmq
(`refs`). `"copy"` is the local `OutgoingMessage` of `OutgoingMessage::send`, made
by `shallowCopy` (`SendBegins`) and destroyed on every way out (`SendFails`), also
by an exception; `zmq_msg_send` takes its reference over when it succeeds
(`SendAccepted`). `ReceiveBegins` is the close and init that
`IncomingMessage::receive` does before it waits. Moves and assignments swap;
`swap(Message&, Message&)` takes messages of either kind. The two threads share
contents, as over `inproc://`, but no message object. Small messages, which
libzmq keeps inside the `zmq_msg_t`, have no count and are the less interesting
case; they are left out.

**SocketOptions.** `SocketGetters`, `SocketSetters` and their like list the
accessors of each mixin with the C++ type that is passed, `ZmqType` the type that
libzmq documents for the option; a type has the accessors of its mixins
(`Offers`; `Accessible` and `AccessorType` say which options any mixin has, and
with which type). `SetOption` and `GetOption` go through only if the sizes agree
(`Fits`) and, for a setter, libzmq accepts the value (`Accepted`); everything else
is a step as well, `SetOptionThrows`, `GetOptionThrows` and `SubscribeThrows`,
which changes nothing and leaves in `refused` the call that threw. With these
tables `getImmediate` and `getIPv6` always throw (a `bool` where libzmq writes an
`int`), and so do `getMaxInboundMessageSize` and `setMaxInboundMessageSize` (an
`int` where libzmq has an `int64_t`): that is the run `options_types`. A `"flag"` is
a `bool` that a setter passes on as the `int` 0 or 1 (`Encode`).
`SetContextSetting` is `setIPv6Enabled` and `setBlocky`, whose values
`CreateSocket` copies into the new socket. `Subscribe` and `Unsubscribe` count, as
libzmq does; they are refused on XSUB sockets, which have them from the mixin
(`SubscribeThrows`).
An identity is its length: the default argument of `setIdentity` is the empty
one, which is refused. `getIdentity` does not compile when it is used.

**SocketTypes.** One definition for each `typedef`, the set of mixins in its
tower.

## Runs and what they show

| Run | Configuration | Shows |
|---|---|---|
| `send` | calls of one, three and four leaves, nesting depth 2, high water mark 1, the socket is used again after failures | each message is exactly the frames of one call (behind what failed calls left), in order, flags right at every depth; each leaf of the parameters is sent once, from left to right; time-outs strike only before the first frame; `send()` returns |
| `receive` | messages of 1 to 4 frames against parameters of 1, 3 and 4 leaves | no call mixes two messages; `true` means the end of one, and that each leaf of the parameters was filled once; time-outs take nothing; `receive()` returns |
| `channel` | the two composed, three parameter lists against two | the composition implements a lossy FIFO of whole messages; what `send()` returned true for is taken; back-pressure ends |
| `lifecycle` | 2 contexts, 2 sockets, 2 threads, 3 objects per thread with one context and 2 with two, `ZMQ_MAX_SOCKETS` 1 | every handle has one owner until it is given back, also when two Sockets or two Contexts are swapped; no socket outlives its context; a thread that destroys a Context within the scope of one of its Sockets waits for ever; otherwise `~Context` returns unless one of the causes named in `Held` keeps it |
| `poller` | 3 items on 2 sockets, which callbacks may move or replace, nesting depth 2 | ready items run once each, in the reverse order of the parameters; a noted event is stale only if a callback used or replaced the socket, so that no callback meets an empty Socket object otherwise; no ready item is passed over |
| `messages` | 2 outgoing and 1 incoming message per thread, 2 contents, pipes of 1 frame, symmetric | reference counts are exact through moves, swaps, repeated and failing sends; `send()` never changes a message of its thread; `receive()` changes one message, which ends with the frame taken or empty |
| `options` | 2 SUB objects and a DEALER, 6 options, of which the receive high water mark takes two values, 2 sockets, 2 settings, 1 connection, symmetric in the 2 SUB objects | getters, connections and subscriptions follow what was asked of the socket and its Context before, the latest setting over earlier ones, through swaps and refused calls |
| `proxy` | 2 Proxies, a ROUTER and a DEALER, a PUSH to capture, a PULL to control, 2 requests and 1 reply of 2 frames | a handle is held by one Proxy; `true` from a controlled `run()` leaves no message half relayed; each direction is a channel of whole messages over any number of runs; `TERMINATE` and the end of the Context end `run()` |

Four runs are expected to be violated: what the documentation or an assertion
says does not hold of the code.

- `send_glue`, `OneCallOneMessage`: README line 71, "'send' treats all of its
  parameters as a single, multipart message". A composite that fails between
  two frames leaves them in the socket and the next successful call sends them
  at the head of its own message.
- `receive_tail`, `InFullOrNotAtAll`: README line 66, "All parameters in a single
  call to `send` or `receive` are treated as the individual message parts (a.k.a.
  frames) of a multipart message". A `receive()` with too few parameters returns
  `false` and the next one returns `true` with the tail of the message. (Line 132
  says that a message is received in full or not at all; that is so of libzmq's
  delivery, not of a call of `receive()`.)
- `options_types`, `AccessorsWork`: README line 8 promises type safety. What libzmq
  refuses should then be values out of range, or calls through an object whose
  socket was moved away. `getIPv6` is refused on every socket, and so are
  `getImmediate`, both accessors of the inbound limit, and the subscriptions of an
  XSUB socket; TLC stops at the first of them. The instance has the 4 objects, an
  XSUB among them, and 1 setting.
- `term_signal`, `TermAssertionHolds`: `Context.hpp:102` asserts that
  `zmq_ctx_term` succeeded; a signal makes it fail with `EINTR`.

### Bounds, and why they are enough

- *Calls and messages* (`MaxCalls`, `MaxArrivals`). A hazard here needs one call
  that fails and one that follows it, with a message in the pipe between them:
  two or three calls. The `channel` run also passes with three calls (300
  thousand states).
- *Parameter lists*. One leaf (first and last at once), a composite before a
  message, a message before a composite whose first part is a composite: the
  flag takes every path through the two levels.
- *High water mark 1*. Then every first frame may block; the theorems cover
  every mark.
- *Two threads, two sockets, two contexts, two or three objects per scope stack*.
  Two threads are needed for one to wait for the other, two contexts for swaps of
  contexts, three objects for a Context between Sockets. The third is there as
  long as there is one context (`MaxDepth`, `MaxDepthOfMany`), which keeps the
  states within half a million. Two Sockets are alive at once with a context
  each; `ZMQ_MAX_SOCKETS` is 1, so that its limit is met.
- *Two outgoing messages, one incoming one, two contents*. Two messages of a kind
  are needed for a swap, one content is shared while the other one is new.
- *Six options, two settings*. One option for each combination of a right or
  wrong type in getter and setter, one that comes from the Context, one whose
  default is refused. Two settings are one that overwrites another, or one on
  each of two sockets, or a subscription and its end; getters, swaps, refused
  calls and a connection come anywhere between them.
- *Two nested `poll()` calls, three items*. Two items share a socket, one waits
  for both events, one has no callback.
- *Two Proxies, two requests, one reply, two frames each, queues of one message*.
  Two Proxies for moves between them; a second request arrives while the first is
  half relayed and blocks at the full queue; with two frames a loop can end
  between them; a reply shows that the directions do not mix.

### Fairness, and why the code justifies it

Weak fairness is assumed only for steps that a running thread takes without
anybody's help: `Library` (a thread inside `send()` or `receive()` that is not
blocked goes on), `Progress` in `ContextLifecycle` (a thread that unwinds, or
that libzmq wakes up, goes on) and in `Poller` (callbacks come to an end), plus
libzmq's I/O and reaper threads (`PeerTakes` in `MultipartSend`, `Reap`). In
`Proxy` the thread in libzmq's loop goes on while nothing blocks it (`Library`),
and a call on a socket of a terminated Context reports `ETERM`
(`terminated /\ Fails`); no reader of the capture socket is assumed, so `RunEnds`
makes an exception for a loop that it holds up. Nothing
obliges the application to call again, a signal or a message to arrive, or a
composite to fail. In `MultipartChannel` the receiving application calls
`receive()` again as long as its socket is good; that is an assumption about
the application, and `SentIsTaken` is meaningless without it.

Deadlock is not checked where the system may stop: all calls used up, a socket
given up, a program stopped by an assertion.

## Proofs

Every invariant, action property and refinement that a passing run checks is
also a theorem, for all values of the constants. Only liveness is not.

The theorems rest on the `ASSUME`s of the modules and on nothing else; TLC
evaluates each of them on the instance it checks. Besides types they say that
composites nest finitely (`NestingAssumption`), that calls have at least one
parameter and that high water marks are positive (`SendAssumption`,
`ReceiveAssumption`, `ChannelAssumption`, `ProxyAssumption`), that the message
objects are finite in number (`HandlesAssumption`) and which types the
`static_assert`s let pass (`PollItemAssumption`, `ProxyAssumption`). The bounds that
make the instances finite (`MaxCalls`, `MaxSockets` and their like) are arbitrary
natural numbers.

In each module `IInv` is the inductive invariant, `InitIInv` and `StepKeepsIInv` (or
`NextIInv`) are its two steps, with one lemma per action under the second, and
`Invariance` is `Spec => []IInv`. The theorems are at the end.

| Module | Theorem | Property |
|---|---|---|
| `MultipartSend_proofs` | `TypeCorrect`, `FlagsCorrect`, `HeldBackCorrect`, `SendIsAtomic`, `TimeoutIsClean`, `LeavesAreSent` | `TypeOK`, `MoreToSendDiscipline`, `HeldBack`, `AtomicSend`, `TimeoutLeavesNothing`, `SentAsLeaves` |
| `MultipartReceive_proofs` | `TypeCorrect`, `OneMessagePerCall`, `TrueIsWhole`, `TimeoutIsClean`, `LeavesAreFilled` | `TypeOK`, `CallWithinOneMessage`, `TrueMeansWhole`, `TimeoutTakesNothing`, `FilledLeaves` |
| `MultipartChannel_proofs` | `ChannelImplemented`, `DeliveredToLeaves` | `ImplementsChannel`, `R!FilledLeaves` |
| `ContextLifecycle_proofs` | `TypeCorrect`, `HandlesOwnedOnce`, `NoSocketDangles`, `SelfDeadlockStays` | `TypeOK`, `OwnedOnce`, `ContextOutlivesSockets`, `SelfDeadlockIsForGood` |
| `Poller_proofs` | `TypeCorrect`, `ReadyItemsServedOnce`, `StaleByUseOnly` | `TypeOK`, `ReadyItemsOnceInReverse`, `StaleOnlyIfUsed` |
| `Proxy_proofs` | `TypeCorrect`, `SocketsHeldOnce`, `TrueLeavesWholeMessages`, `RelaysWholeMessages` | `TypeOK`, `HeldOnce`, `TrueMeansWhole`, `ImplementsChannel` |
| `MessageHandles_proofs` | `TypeCorrect`, `CountsAreExact`, `SendingLeavesMessages`, `ReceivingIsFresh` | `TypeOK`, `CountsExact`, `SendLeavesMessages`, `ReceiveIsFresh` |
| `SocketOptions_proofs` | `TypeCorrect`, `AnswersFollowSetters`, `ConnectionsFollowSetters`, `FiltersFollowSubscriptions` | `TypeOK`, `AnswersAsAsked`, `ConnectionsAsAsked`, `FiltersAsAsked` |

### The sending socket

The inductive invariant is `TypeOK`, `MoreToSendDiscipline`, `HeldBack` and
`AtomicSend`. `AtomicSend` is not inductive alone: when the last frame is accepted,
the message is what libzmq held back plus that frame, so one has to know that it
held back the call's earlier frames (`HeldBack`), and that the frame without
`ZMQ_SNDMORE` is the call's last (`MoreToSendDiscipline`). That in turn is preserved
by `EnterComposite` because a composite's parts get `TRUE` up to the last, which
inherits the composite's own flag: lemmas `ArgumentCallsWellFormed`,
`PartCallsWellFormed` and `EnterKeepsDiscipline`. `TimeoutLeavesNothing` follows
because a message that has been begun can always be continued, which is the last
conjunct of `HeldBack`.

`LeavesAreSent` is about a recursive function, `Leaves`, and recursion over nests of
composites is not one of the inductions that the library offers. First it has to
be shown that the function exists (`LeavesCases`). `LeastClosed` is the least
relation between lists of items and lists of messages that is closed under the
cases of the definition; that it relates each list to exactly one is shown by
`NestInduction`: the composites whose parts fail would, by `NestingAssumption`, have
one among them whose parts are all good items, and a shortest failing list of good
items cannot be. The
invariant of the protocol is then `OnTheWay`: what the call has emitted, and the
leaves of the calls it has still to make, are together the leaves of its
parameters. Each frame moves one leaf across; `EnterComposite` replaces a
composite by its parts, which stand for the same.

### The receiving socket

Here the invariant needs three facts that are no properties in their own right
and are defined in the module of the proofs. `FlagFollowed`: once a call has
taken a frame, the flag says whether its message goes on, and the next thing to
do is another `receive()` only if it does; so a frame is taken after a first one
only from the same message. `TodoShape` (the call stack is `WellNested`): only
the last parameter of `socket.receive()` has nothing after it, while the last
part of a composite, which leaves the flag unchecked, is followed by the end of
the composite, where it is checked after all; so a call that ends has seen the
flag cleared. `FromTheStart`: with sockets given up in the middle of a message,
a call begins where a message begins. Lemma `FrameTaken` is the step of libzmq,
`Returned` what each level of the code makes of it, and `EnterKeepsShape` shows
that entering a composite keeps the stack well nested. `TrueIsWhole` holds for
both values of `ReuseMisaligned`.

`LeavesAreFilled` is the mirror image of `LeavesAreSent` (and takes `LeavesCases` from
there): what has been filled, and what the steps on the stack stand for
(`StandFor`, to which the ends of composites contribute nothing), are the leaves of
the parameters.

### The two connected

Nothing is proved about a socket again. `MultipartChannel_proofs` instantiates both
modules of proofs, as `SP` and `RP`, and its invariant is theirs. `ReceiverIsPeer`
shows that a step of the receiver is for the sending socket a step of its peer or
no step at all, `SenderFeeds` that a step of the sender is for the receiving
socket a message that comes in, or nothing. The refinement maps the queue of
`AtomicChannel` to the message in the receiver's hand and those in the pipe. The
sender's last frame puts a message there (`SendMessagePuts`: of the leaves of some
parameters, which is `SentAsLeaves` and `AtomicSend`); the end of a call of
`receive()` takes the one in hand out, delivered if it returned true and lost
otherwise (`MessageInHand`, which needs `TrueMeansWhole`); all else changes nothing.

### Contexts and sockets

`OwnedOnce` counts the owners of a handle. What is inductive is a correspondence
(`Owned`): an object with a handle owns it (`HandlesOwned`), no handle is in two
places (`OnePlace`), and every handle still to be given back is in one (`AllHeld`).
Moves and swaps preserve it whichever thread's scope the other object is in.
`TermShape` says that the topmost object of a thread in `~Context` is that Context,
so that the end of the wait destroys the right one. `NoSocketDangles` needs of
libzmq only that `zmq_ctx_term` returns when the sockets are gone.
`SelfDeadlockStays` is about pairs of states: the Socket that a thread waits for
cannot leave its scope, nor be closed by anyone else, while the thread waits.

### Poller

The calls of `poll()` in progress are in different states: the innermost may be
between two callbacks, all others are in one. `Ran` says what each has run so far.
`Asserted` says that what each has noted is still true or was used, and holds only
with assertions in the build: `StaleByUseOnly` has the hypothesis `~NDEBUG`, the
other two theorems do not.

### Proxy

What `run()` leaves behind depends on where the loop was. `Relaying` says it for
both cases: while the sockets may be used (`Good`), each direction is between two
messages or has the frames of one spread in order over what was sent, the loop's
hand and what is still to come (`InStep`, `Transfer`); otherwise a message may have
lost its head. `Focus` says that at most one direction is between two frames, and
that the loop will not turn to the other one or take a command before that
message ends, which is why `true` from a controlled `run()` means whole messages.
`Admitted` and `Polled` say that the loop still finds room for the rest of a message
it has begun, in the capture socket and at the peer. For `RelaysWholeMessages` the
queue of `AtomicChannel` is the message half relayed, as the whole that it was, and
the untouched ones (`Halfway`, `Untouched`).

### Message handles

`CountsExact` compares a count with the size of the set of message objects and
frames in pipes that hold the content. The lemmas of the first part say by how
much one step changes these sets: assigning one handle (`HandleSet`), a frame added
at the end of a pipe (`FrameAdded`) or taken from its head, which renumbers the
others (`FrameTaken`). `Allocated` (nothing refers to a content that does not exist
yet) is needed for a new content to begin with no holders, `Reset` for
`ReceivingIsFresh`.

### Options

`AnswersAsAsked` compares a getter's answer with the log of what was asked, by
`CHOOSE` of the latest entry. The invariant speaks of a relation (`Tells`) of which
that is the value: it is stable when the log grows by an entry about something
else, and the entry of a socket's creation tells what it took from the Context.
`FiltersFollowSubscriptions` has an invariant of
its own, `FiltersMost`: the count that libzmq keeps, which does not go below zero, is
the maximum over all moments of the log of the net subscriptions since then.

### Only model-checked

- Liveness: `SendReturns`, `ReceiveReturns`, `SentIsTaken`, `BackPressureEnds`,
  `TerminationEnds`, `ReadyIsServed`, `RunEnds`. The prover does not reason about
  fairness or `ENABLED`. `TerminationEnds` is checked with two contexts and two
  sockets, the others on the instances above.
- The four runs that end in a violation: a counterexample is a behaviour of an
  instance.

## What is not modelled, and why

- Contents of messages. A frame is a name; `size`, `data`, `charData` are left
  out.
- libzmq beyond its documented interface: no peer that disconnects in the middle
  of a message, no `ZMQ_CONFLATE`, no routing. `terminated` stands for the moment
  at which a socket has processed the stop command of `zmq_ctx_term`.
- `bind`, `unbind`, `connect`, `disconnect`: one libzmq call each, errors thrown.
- Creating a socket in a Context whose destructor has begun in another thread,
  which is a use of an object whose lifetime is over.
- A capture or control socket that is destroyed while a Proxy refers to it: what
  libzmq does with a closed handle is undefined, and nothing in the code guards
  against it. Moves and swaps of the Socket object are harmless, as the Proxy has
  the handle of libzmq. A SUB control socket without subscriptions hears nothing.
- `zmq_proxy_steerable` with an invalid command, or one of several frames, which it
  answers by an assertion of its own.
- Options that are read as strings (the last endpoint), the matching of topics,
  the other settings of the Context and its getters: each is one call of libzmq.
- `Error` and `Version`: `errno` at the throw, and three constants.

## Plan

1. *(done)* The multipart protocol, both sides, their composition and its
   refinement; the ownership of contexts and sockets; the poller; message
   handles; socket options. Theorems about the sending and the receiving side.
2. *(done)* `Proxy` with libzmq's loop, as a channel in each direction; Socket
   objects that are moved from under a `PollItem`; the socket types, with what
   each offers and is let into; subscriptions, identities and the Context's
   settings.
3. *(done)* Theorems about every other module, and with them about every
   invariant and every action property that a run checks.
4. *(done)* Both refinements of `AtomicChannel` as theorems.
5. What a further round can add: the safety half of the liveness arguments
   (what a blocked `send()` or a waiting `~Context` waits for, and that nothing but
   the exceptions named in the properties can take it away), and shorter proofs,
   with the lemmas about sequences that several modules have in common in one.
