------------------------------- MODULE Poller -------------------------------
(***************************************************************************)
(* poller.poll(items...): the items are copied into an array, in the       *)
(* reverse order of the parameters; zmq_poll waits and notes in the array  *)
(* which of the sockets are ready; then the callbacks of the items that    *)
(* are run, in the order of the array, on what zmq_poll noted.             *)
(*                                                                         *)
(* A callback is application code: it may receive or send on any of the    *)
(* sockets, which changes what is ready, move one of the Socket objects    *)
(* away or assign a new socket to it (the PollItems point to the object),  *)
(* call poll() again, change the time-out of the Poller, or throw.  The    *)
(* poll() calls in progress are the sequence `frames', innermost first.    *)
(***************************************************************************)
EXTENDS Integers, Sequences, SocketTypes

CONSTANTS
  Sockets,   \* the application's Socket objects
  SocketType, \* their C++ types
  Items,     \* the PollItems of a poll(), in the order of its parameters
  Capacity,  \* messages that wait in a socket, in either direction
  Movable,   \* Socket objects that the application moves or assigns to
  NDEBUG,    \* whether the build has no assertions
  MaxDepth   \* bound on the nesting of poll() calls

Events == {"in", "out"}

\* The kinds of PollItems: their events, and the types that they can be for.
IsReceiveReady ==
  [events |-> {"in"},
   types |-> {"Dealer", "XSub", "Pull", "Rep", "Req", "Router", "Sub"}]
IsSendReady ==
  [events |-> {"out"},
   types |-> {"Dealer", "XPub", "Pub", "Push", "Rep", "Req", "Router"}]
IsSendOrReceiveReady ==
  [events |-> Events, types |-> {"Dealer", "Rep", "Req", "Router"}]
\* The message of the static_asserts asks for the mixin; XPUB and XSUB sockets
\* have it and are refused all the same.
ASSUME PollItemAssumption ==
  /\ IsReceiveReady.types = Having("Receiving") \ {"XPub"}
  /\ IsSendReady.types = Having("Sending") \ {"XSub"}
  /\ IsSendOrReceiveReady.types = IsReceiveReady.types \cap IsSendReady.types

Kinds == {IsReceiveReady, IsSendReady, IsSendOrReceiveReady}

\* An item is what isReceiveReady and its like return, moved any number of
\* times; the PollItem that it was moved from is not used.
PollItem(kind, s, callable) ==
  [socket |-> s, events |-> kind.events, callable |-> callable]
PollItems == [socket : Sockets, events : SUBSET Events, callable : BOOLEAN]

ASSUME PollerAssumption ==
  /\ SocketType \in [Sockets -> Types]
  /\ Items \in Seq(PollItems) /\ Items # <<>>
  /\ \A i \in 1 .. Len(Items) :
       \E kind \in Kinds, s \in Sockets, callable \in BOOLEAN :
         SocketType[s] \in kind.types /\ Items[i] = PollItem(kind, s, callable)
  /\ Movable \subseteq Sockets /\ NDEBUG \in BOOLEAN
  /\ Capacity \in Nat \ {0}
  /\ MaxDepth \in Nat

VARIABLES
  inbox,    \* number of messages that wait to be received, for each socket
  outbox,   \* number of messages that wait to be sent, for each socket
  gone,     \* Socket objects that have been moved from: they hold nullptr
  timeout,  \* mTimeout: "infinite" or "finite"
  at,       \* where the thread is
  on,       \* the socket it receives or sends on
  frames    \* the poll() calls in progress, innermost first

vars == <<inbox, outbox, gone, timeout, at, on, frames>>

N == Len(Items)

\* Position i of the array holds parameter N + 1 - i.
ItemAt(i) == Items[N + 1 - i]

\* revents: what zmq_poll noted; next: the loop's position; ran: positions
\* whose callbacks were run; used: sockets that callbacks have received from
\* or sent to, or replaced, since the call; acted: the callback did its part.
Frames == [waits : BOOLEAN, revents : [1 .. N -> SUBSET Events],
           next : 1 .. N + 1, ran : Seq(1 .. N),
           used : [Events -> SUBSET Sockets], acted : BOOLEAN]

Inner == frames[1]
----------------------------------------------------------------------------
Init ==
  /\ inbox = [s \in Sockets |-> 0] /\ outbox = [s \in Sockets |-> 0]
  /\ gone = {} /\ timeout = "infinite"
  /\ at = "app" /\ on = {} /\ frames = <<>>

Ready(s, event) ==
  /\ s \notin gone
  /\ \/ event = "in" /\ inbox[s] > 0
     \/ event = "out" /\ outbox[s] < Capacity

ReadyEvents(i) == {e \in ItemAt(i).events : Ready(ItemAt(i).socket, e)}

\* A callback does at most one thing before it ends.
Acts == IF frames = <<>> THEN frames ELSE [frames EXCEPT ![1].acted = TRUE]
MayAct == at = "callback" /\ ~Inner.acted

Null == \E i \in 1 .. N : ItemAt(i).socket \in gone

\* CPPEROMQ_ASSERT(nullptr != pollItem.getRawSocket()).
AssertionFails ==
  /\ at = "app" \/ MayAct
  /\ Len(frames) < MaxDepth /\ Null /\ ~NDEBUG
  /\ at' = "aborted"
  /\ UNCHANGED <<inbox, outbox, gone, timeout, on, frames>>

\* Mutant: poll() does not look at the sockets.
CallPollUnasserted ==
  /\ at = "app" \/ MayAct
  /\ Len(frames) < MaxDepth
  /\ at' = "poll"
  /\ frames' = <<[waits |-> timeout = "infinite",
                  revents |-> [i \in 1 .. N |-> {}], next |-> 1, ran |-> <<>>,
                  used |-> [e \in Events |-> {}], acted |-> FALSE]>> \o Acts
  /\ UNCHANGED <<inbox, outbox, gone, timeout, on>>

\* poll() is called, by the application or in a callback, and reads mTimeout.
CallPoll ==
  /\ at = "app" \/ MayAct
  /\ Len(frames) < MaxDepth /\ (Null => NDEBUG)
  /\ at' = "poll"
  /\ frames' = <<[waits |-> timeout = "infinite",
                  revents |-> [i \in 1 .. N |-> {}], next |-> 1, ran |-> <<>>,
                  used |-> [e \in Events |-> {}], acted |-> FALSE]>> \o Acts
  /\ UNCHANGED <<inbox, outbox, gone, timeout, on>>

SetTimeout(t) ==
  /\ at = "app" \/ MayAct
  /\ timeout' = t
  /\ frames' = Acts
  /\ UNCHANGED <<inbox, outbox, gone, at, on>>

\* zmq_poll returns when one of the sockets is ready, or the time-out is over.
\* An item without a socket waits for file descriptor 0, whatever that is.
ZmqPollReturns ==
  /\ at = "poll"
  /\ \E stdin \in IF Null THEN SUBSET Events ELSE {{}} :
       LET Found(i) == IF ItemAt(i).socket \in gone
                       THEN stdin \cap ItemAt(i).events ELSE ReadyEvents(i)
       IN  /\ Inner.waits => \E i \in 1 .. N : Found(i) # {}
           /\ frames' = [frames EXCEPT ![1].revents =
                                          [i \in 1 .. N |-> Found(i)]]
  /\ at' = "loop"
  /\ UNCHANGED <<inbox, outbox, gone, timeout, on>>

\* if POLLIN ... else if POLLOUT: one call for an item, whatever is ready.
RunCallback ==
  /\ at = "loop"
  /\ Inner.next <= N
  /\ ItemAt(Inner.next).callable /\ Inner.revents[Inner.next] # {}
  /\ at' = "callback"
  /\ frames' = [frames EXCEPT ![1].ran = Append(@, Inner.next),
                              ![1].acted = FALSE]
  /\ UNCHANGED <<inbox, outbox, gone, timeout, on>>

SkipItem ==
  /\ at = "loop"
  /\ Inner.next <= N
  /\ ~ItemAt(Inner.next).callable \/ Inner.revents[Inner.next] = {}
  /\ frames' = [frames EXCEPT ![1].next = @ + 1]
  /\ UNCHANGED <<inbox, outbox, gone, timeout, at, on>>

\* Mutant: after if POLLIN ... if POLLOUT, without the else: an item of which
\* both are ready has its callback run twice.
CallbackReturnsNoElse ==
  /\ at = "callback"
  /\ at' = "loop"
  /\ frames' = IF Inner.revents[Inner.next] = Events
               THEN [frames EXCEPT ![1].revents[Inner.next] = {"out"}]
               ELSE [frames EXCEPT ![1].next = @ + 1]
  /\ UNCHANGED <<inbox, outbox, gone, timeout, on>>

CallbackReturns ==
  /\ at = "callback"
  /\ at' = "loop"
  /\ frames' = [frames EXCEPT ![1].next = @ + 1]
  /\ UNCHANGED <<inbox, outbox, gone, timeout, on>>

\* Mutant: the loop ends before the last position.
PollReturnsEarly ==
  /\ at = "loop"
  /\ Inner.next >= N
  /\ frames' = Tail(frames)
  /\ at' = IF Tail(frames) = <<>> THEN "app" ELSE "callback"
  /\ UNCHANGED <<inbox, outbox, gone, timeout, on>>

PollReturns ==
  /\ at = "loop"
  /\ Inner.next > N
  /\ frames' = Tail(frames)
  /\ at' = IF Tail(frames) = <<>> THEN "app" ELSE "callback"
  /\ UNCHANGED <<inbox, outbox, gone, timeout, on>>

\* An exception leaves n of the poll() calls: an Error from zmq_poll (EINTR,
\* ETERM) or from a callback's own call.  Their other callbacks are not run.
Throw(n) ==
  /\ at \in {"poll", "callback", "receive", "send"}
  /\ frames' = SubSeq(frames, n + 1, Len(frames))
  /\ at' = "caught"
  /\ on' = {}
  /\ UNCHANGED <<inbox, outbox, gone, timeout>>

\* The application, or the callback that had called poll(), has caught it.
Catch ==
  /\ at = "caught"
  /\ at' = IF frames = <<>> THEN "app" ELSE "callback"
  /\ UNCHANGED <<inbox, outbox, gone, timeout, on, frames>>

\* In a callback: socket.receive() or socket.send(), which block.  With a
\* Socket that was moved from they throw at once.
CallbackCalls(s, call) ==
  /\ MayAct /\ s \notin gone
  /\ at' = call
  /\ on' = {s}
  /\ frames' = Acts
  /\ UNCHANGED <<inbox, outbox, gone, timeout>>

Uses(event) ==
  [j \in 1 .. Len(frames) |->
     [frames[j] EXCEPT !.used[event] = @ \cup on]]

\* Mutant: receive() goes on with a socket that is not ready.
ReceiveReturnsEmpty ==
  /\ at = "receive"
  /\ \E s \in on : inbox' = [inbox EXCEPT ![s] = @ - 1]
  /\ at' = "callback" /\ on' = {}
  /\ frames' = Uses("in")
  /\ UNCHANGED <<outbox, gone, timeout>>

ReceiveReturns ==
  /\ at = "receive"
  /\ \E s \in on : inbox[s] > 0 /\ inbox' = [inbox EXCEPT ![s] = @ - 1]
  /\ at' = "callback" /\ on' = {}
  /\ frames' = Uses("in")
  /\ UNCHANGED <<outbox, gone, timeout>>

SendReturns ==
  /\ at = "send"
  /\ \E s \in on :
       outbox[s] < Capacity /\ outbox' = [outbox EXCEPT ![s] = @ + 1]
  /\ at' = "callback" /\ on' = {}
  /\ frames' = Uses("out")
  /\ UNCHANGED <<inbox, gone, timeout>>

\* The Socket object is moved from, or a new socket is moved to it.
Reassign(s, now) ==
  /\ at = "app" \/ MayAct
  /\ gone' = now
  /\ inbox' = [inbox EXCEPT ![s] = 0] /\ outbox' = [outbox EXCEPT ![s] = 0]
  /\ frames' = [j \in 1 .. Len(Acts) |->
       [Acts[j] EXCEPT !.used = [e \in Events |-> @[e] \cup {s}]]]
  /\ UNCHANGED <<timeout, at, on>>

\* The peers.
Arrive(s) ==
  /\ s \notin gone /\ inbox[s] < Capacity
  /\ inbox' = [inbox EXCEPT ![s] = @ + 1]
  /\ UNCHANGED <<outbox, gone, timeout, at, on, frames>>

PeerTakes(s) ==
  /\ outbox[s] > 0
  /\ outbox' = [outbox EXCEPT ![s] = @ - 1]
  /\ UNCHANGED <<inbox, gone, timeout, at, on, frames>>

Callback ==
  \/ \E s \in Sockets, call \in {"receive", "send"} : CallbackCalls(s, call)
  \/ CallbackReturns

Progress ==
  \/ Callback
  \/ ZmqPollReturns
  \/ RunCallback
  \/ SkipItem
  \/ PollReturns
  \/ Catch
  \/ ReceiveReturns
  \/ SendReturns

Next ==
  \/ CallPoll
  \/ AssertionFails
  \/ \E s \in Movable :
       Reassign(s, gone \cup {s}) \/ Reassign(s, gone \ {s})
  \/ \E t \in {"infinite", "finite"} : SetTimeout(t)
  \/ Progress
  \/ \E n \in 1 .. Len(frames) : Throw(n)
  \/ \E s \in Sockets : Arrive(s) \/ PeerTakes(s)

\* The thread goes on while nothing blocks it; callbacks come to an end.
Spec == Init /\ [][Next]_vars /\ WF_vars(Progress)
----------------------------------------------------------------------------
(* Properties.                                                             *)

TypeOK ==
  /\ inbox \in [Sockets -> 0 .. Capacity]
  /\ outbox \in [Sockets -> 0 .. Capacity]
  /\ timeout \in {"infinite", "finite"}
  /\ at \in {"app", "poll", "loop", "callback", "receive", "send",
            "caught", "aborted"}
  /\ gone \subseteq Movable
  /\ on \subseteq Sockets
  /\ frames \in Seq(Frames) /\ Len(frames) <= MaxDepth
  /\ frames = <<>> => at \in {"app", "caught", "aborted"}
  /\ at = "app" => frames = <<>>

InCallback(j) ==
  j > 1 \/ at \in {"callback", "receive", "send", "caught", "aborted"}

\* Each poll() in progress has run the callback of every item it has passed
\* that was ready, of no other one, each once, and the later the parameter the
\* sooner; no callback, nested poll() or exception upsets that.
ReadyItemsOnceInReverse ==
  \A j \in 1 .. Len(frames) :
    LET f == frames[j]
        passed == IF InCallback(j) THEN f.next ELSE f.next - 1
    IN  /\ {f.ran[k] : k \in 1 .. Len(f.ran)} =
             {i \in 1 .. passed : ItemAt(i).callable /\ f.revents[i] # {}}
        /\ \A k, l \in 1 .. Len(f.ran) : k < l => f.ran[k] < f.ran[l]

\* What zmq_poll noted may be out of date when a callback is run, but only
\* because callbacks used or replaced that very socket since: as long as none
\* has, the Socket object holds a socket (PollItem.hpp:108, Poller.hpp:92), it
\* is ready, and using it does not block.
StaleOnlyIfUsed ==
  \A j \in 1 .. Len(frames) : \A i \in frames[j].next .. N :
    \A e \in frames[j].revents[i] :
      Ready(ItemAt(i).socket, e) \/ ItemAt(i).socket \in frames[j].used[e]

\* The thread waits for a peer, in a callback or in a poll().
Blocked ==
  \/ at = "poll" /\ Inner.waits /\ \A i \in 1 .. N : ReadyEvents(i) = {}
  \/ at = "receive" /\ \A s \in on : inbox[s] = 0
  \/ at = "send" /\ \A s \in on : outbox[s] = Capacity

\* A socket that becomes ready while the thread waits in zmq_poll has its
\* callback run, unless another callback blocks or an exception ends the
\* poll(): no item is passed over, however often the callbacks poll again.
ReadyIsServed ==
  \A i \in 1 .. N :
    at = "poll" /\ ItemAt(i).callable /\ ReadyEvents(i) # {}
      ~> \/ Blocked
         \/ at \in {"caught", "aborted"}
         \/ \E j \in 1 .. Len(frames) :
              \E k \in 1 .. Len(frames[j].ran) : frames[j].ran[k] = i
=============================================================================
