-------------------------------- MODULE Proxy ---------------------------------
(***************************************************************************)
(* Proxy objects and Proxy::run, which lends two sockets and the handles   *)
(* of the Proxy to zmq_proxy_steerable.                                    *)
(*                                                                         *)
(* A Proxy holds the raw handles of a capture and of a control socket;     *)
(* moves and swaps of Proxy objects exchange them.  While run() goes on,   *)
(* its thread is in libzmq's loop: it polls, obeys a command, and forwards *)
(* a message in each direction, frame by frame, every frame first copied   *)
(* to the capture socket, which may block.  The loop ends with -1 (EINTR,  *)
(* ETERM) or, on TERMINATE, with 0.  The application runs its two sockets  *)
(* again, by any of its Proxies, only if run() has returned true by a      *)
(* Proxy with a control socket.                                            *)
(***************************************************************************)
EXTENDS Integers, Sequences, SocketTypes

CONSTANTS
  Proxies,      \* the application's Proxy objects
  Frontend, Backend, \* the types of the two sockets of run()
  CaptureType,  \* the types of the capture sockets, by socket
  ControlType,  \* the types of the control sockets, by socket
  null,         \* nullptr
  Lengths,      \* the numbers of frames of the messages to relay
  MaxMessages,  \* bounds on the messages that arrive, by direction
  HighWaterMark \* messages that a queue to or from a peer holds

Captures == DOMAIN CaptureType
Controls == DOMAIN ControlType
Commands == {"PAUSE", "RESUME", "TERMINATE"}

Ways == {"request", "reply"}

\* What the static_asserts let pass.
RelayPairs ==
  {<<"Router", "Dealer">>, <<"Dealer", "Router">>, <<"XSub", "XPub">>,
   <<"XPub", "XSub">>, <<"Pull", "Push">>, <<"Push", "Pull">>}
CaptureTypes == {"Dealer", "Pub", "Push"}
ControlTypes == {"Pull", "Sub"}

ASSUME ProxyAssumption ==
  /\ <<Frontend, Backend>> \in RelayPairs
  /\ \A s \in Captures : CaptureType[s] \in CaptureTypes
  /\ \A s \in Controls : ControlType[s] \in ControlTypes
  /\ null \notin Captures \cup Controls \cup Proxies
  /\ Lengths \subseteq Nat \ {0}
  /\ MaxMessages \in [Ways -> Nat]
  /\ HighWaterMark \in Nat \ {0}

\* send() on these waits while the queue is full; the others drop.
Blocking == {"Dealer", "Push"}

From(d) == IF d = "request" THEN Frontend ELSE Backend
To(d) == IF d = "request" THEN Backend ELSE Frontend
Directions == {d \in Ways : From(d) \in Having("Receiving")}

VARIABLES
  handle,   \* mCaptureSocketPtr and mControlSocketPtr of each Proxy
  result,   \* what the latest run() returned, and whether it was controlled
  at,       \* where the thread is: "idle", or in the loop of libzmq
  self,     \* the Proxy whose run() is in progress, or null
  paused,
  ready,    \* directions that zmq_poll found readable, and writable
  hand,     \* the frame that the loop has received and not yet sent
  way,      \* the queues of each direction
  inbox,    \* commands that wait in each control socket
  load,     \* messages that wait in each capture socket
  terminated \* the context is terminated

loop == <<at, self, paused, ready, hand>>
vars == <<handle, result, loop, way, inbox, load, terminated>>

Message(d, n, length) ==
  [i \in 1 .. length |-> [dir |-> d, no |-> n, at |-> i, of |-> length]]
\* A command is a message of one frame.
Command(c) == [dir |-> c, no |-> 0, at |-> 1, of |-> 1]
More(f) == f.at < f.of
Nothing == [dir |-> "none", no |-> 0, at |-> 0, of |-> 0]

Capture == handle[self].capture
Control == handle[self].control
Commanded == Control # null /\ inbox[Control] # <<>>

\* send() of the frame in hand on the capture socket blocks.
CaptureBlocked ==
  /\ at = "copy" /\ Capture # null
  /\ CaptureType[Capture] \in Blocking
  /\ hand.at = 1 /\ load[Capture] = HighWaterMark
----------------------------------------------------------------------------
Init ==
  /\ handle = [p \in Proxies |-> [capture |-> null, control |-> null]]
  /\ result = [value |-> TRUE, controlled |-> TRUE]
  /\ at = "idle" /\ self = null /\ paused = FALSE
  /\ ready = {} /\ hand = Nothing
  /\ way = [d \in Ways |-> [arrived |-> 0, incoming |-> <<>>,
                            open |-> <<>>, relayed |-> <<>>, waiting |-> 0]]
  /\ inbox = [s \in Controls |-> <<>>]
  /\ load = [s \in Captures |-> 0]
  /\ terminated = FALSE

(* The Proxy objects, while no run() is in progress.                       *)

Object(change) ==
  /\ at = "idle"
  /\ handle' = change
  /\ UNCHANGED <<result, loop, way, inbox, load, terminated>>

\* The application gives a socket to one Proxy only.
SetCaptureSocket(p, s) ==
  /\ \A q \in Proxies : handle[q].capture # s
  /\ Object([handle EXCEPT ![p].capture = s])

SetControlSocket(p, s) ==
  /\ \A q \in Proxies : handle[q].control # s
  /\ Object([handle EXCEPT ![p].control = s])

\* swap, and the move assignment, which swaps.
SwapProxies(p, q) ==
  Object([handle EXCEPT ![p] = handle[q], ![q] = handle[p]])

\* Mutant: the handles are copied, as a compiler's move constructor would.
MoveConstructCopies(p, q) == Object([handle EXCEPT ![p] = handle[q]])

\* p is destroyed and constructed anew, from q: Proxy(), then swap.
MoveConstruct(p, q) ==
  Object([handle EXCEPT ![p] = handle[q],
                        ![q] = [capture |-> null, control |-> null]])

(* run(): the loop of zmq_proxy_steerable.                                 *)

Run(p) ==
  /\ at = "idle" /\ result.value /\ result.controlled
  /\ at' = "poll" /\ self' = p
  /\ UNCHANGED <<handle, result, paused, ready, hand, way, inbox, load,
                 terminated>>

\* Mutant: only a Proxy without sockets of its own cannot tell.
ReturnsOtherPointer(ok) ==
  /\ at' = "idle" /\ self' = null /\ hand' = Nothing
  /\ paused' = FALSE /\ ready' = {}
  /\ result' = [value |-> IF Capture # null THEN ok ELSE TRUE,
                controlled |-> Control # null]

\* zmq_proxy_steerable returns 0 (ok) or -1, and then run() its value.
Returns(ok) ==
  /\ at' = "idle" /\ self' = null /\ hand' = Nothing
  /\ paused' = FALSE /\ ready' = {}
  /\ result' = [value |-> IF Control # null THEN ok ELSE TRUE,
                controlled |-> Control # null]

\* Mutant: the second zmq_poll, for POLLOUT, is left out.
PollReadable ==
  /\ at = "poll" /\ ~terminated
  /\ Commanded \/ \E d \in Directions : way[d].incoming # <<>>
  /\ ready' = {d \in Directions : way[d].incoming # <<>>}
  /\ at' = IF Commanded THEN "control" ELSE "forward"
  /\ UNCHANGED <<handle, result, self, paused, hand, way, inbox, load,
                 terminated>>

Poll ==
  /\ at = "poll" /\ ~terminated
  /\ Commanded \/ \E d \in Directions : way[d].incoming # <<>>
  /\ ready' = {d \in Directions :
                 /\ way[d].incoming # <<>>
                 /\ To(d) \in Blocking => way[d].waiting < HighWaterMark}
  /\ at' = IF Commanded THEN "control" ELSE "forward"
  /\ UNCHANGED <<handle, result, self, paused, hand, way, inbox, load,
                 terminated>>

\* recv() of a command.
TakeCommand ==
  /\ at = "control"
  /\ at' = "copy" /\ hand' = Head(inbox[Control])
  /\ inbox' = [inbox EXCEPT ![Control] = Tail(@)]
  /\ UNCHANGED <<handle, result, self, paused, ready, way, load, terminated>>

\* A copy of the frame, or of the command, is sent on the capture socket.
Copy ==
  /\ at = "copy" /\ ~CaptureBlocked
  /\ at' = IF hand.dir \in Directions THEN "send" ELSE "obey"
  /\ load' = [s \in Captures |->
                IF s = Capture /\ CaptureType[s] \in Blocking /\ ~More(hand)
                THEN load[s] + 1 ELSE load[s]]
  /\ UNCHANGED <<handle, result, self, paused, ready, hand, way, inbox,
                 terminated>>

\* Mutant: TERMINATE only pauses.
ObeyPauses ==
  /\ at = "obey"
  /\ at' = "forward" /\ paused' = (hand.dir \in {"PAUSE", "TERMINATE"})
  /\ hand' = Nothing
  /\ UNCHANGED <<handle, self, ready, way, inbox, load, terminated, result>>

Obey ==
  /\ at = "obey"
  /\ IF hand.dir = "TERMINATE"
     THEN Returns(TRUE)
     ELSE /\ at' = "forward" /\ paused' = (hand.dir = "PAUSE")
          /\ hand' = Nothing /\ UNCHANGED <<result, self, ready>>
  /\ UNCHANGED <<handle, way, inbox, load, terminated>>

\* recv() of the next frame: the request's message first, then the reply's.
Receive ==
  /\ at = "forward" /\ ~paused /\ ready # {}
  /\ LET d == IF "request" \in ready THEN "request" ELSE "reply"
         rest == Tail(way[d].incoming[1])
     IN  /\ hand' = way[d].incoming[1][1]
         /\ way' = [way EXCEPT ![d].incoming =
                      IF rest = <<>> THEN Tail(@) ELSE <<rest>> \o Tail(@)]
  /\ at' = "copy"
  /\ UNCHANGED <<handle, result, self, paused, ready, inbox, load,
                 terminated>>

\* send() of the frame, with SNDMORE if it has a successor.
Send ==
  /\ at = "send"
  /\ LET d == hand.dir
         message == Append(way[d].open, hand)
     IN  IF More(hand)
         THEN way' = [way EXCEPT ![d].open = message] /\ UNCHANGED ready
         ELSE /\ way' = [way EXCEPT ![d].open = <<>>,
                   ![d].relayed = Append(@, message),
                   ![d].waiting = IF To(d) \in Blocking THEN @ + 1 ELSE @]
              /\ ready' = ready \ {d}
  /\ hand' = Nothing /\ at' = "forward"
  /\ UNCHANGED <<handle, result, self, paused, inbox, load, terminated>>

LoopAgain ==
  /\ at = "forward" /\ (paused \/ ready = {})
  /\ at' = "poll"
  /\ UNCHANGED <<handle, result, self, paused, ready, hand, way, inbox,
                 load, terminated>>

\* A call of libzmq's loop fails: EINTR where it waits, ETERM anywhere.
Fails ==
  /\ \/ at = "poll"
     \/ CaptureBlocked
     \/ terminated /\ at \in {"control", "forward", "send"}
     \/ terminated /\ at = "copy" /\ Capture # null
  /\ Returns(FALSE)
  /\ UNCHANGED <<handle, way, inbox, load, terminated>>

(* The peers.                                                              *)

Unmoved == <<handle, result, loop, terminated>>

Arrive(d, length) ==
  /\ way[d].arrived < MaxMessages[d]
  /\ way' = [way EXCEPT ![d].arrived = @ + 1,
       ![d].incoming = Append(@, Message(d, way[d].arrived + 1, length))]
  /\ UNCHANGED <<Unmoved, inbox, load>>

PeerTakes(d) ==
  /\ way[d].waiting > 0
  /\ way' = [way EXCEPT ![d].waiting = @ - 1]
  /\ UNCHANGED <<Unmoved, inbox, load>>

CaptureTaken(s) ==
  /\ load[s] > 0
  /\ load' = [load EXCEPT ![s] = @ - 1]
  /\ UNCHANGED <<Unmoved, way, inbox>>

Steer(s, c) ==
  /\ Len(inbox[s]) < HighWaterMark
  /\ inbox' = [inbox EXCEPT ![s] = Append(@, Command(c))]
  /\ UNCHANGED <<Unmoved, way, load>>

TerminateContext ==
  /\ ~terminated /\ terminated' = TRUE
  /\ UNCHANGED <<handle, result, loop, way, inbox, load>>

Library ==
  Poll \/ TakeCommand \/ Copy \/ Obey \/ Receive \/ Send \/ LoopAgain

Next ==
  \/ \E p \in Proxies :
       \/ Run(p)
       \/ \E s \in Captures : SetCaptureSocket(p, s)
       \/ \E s \in Controls : SetControlSocket(p, s)
       \/ \E q \in Proxies \ {p} : SwapProxies(p, q) \/ MoveConstruct(p, q)
  \/ Library
  \/ Fails
  \/ \E d \in Directions : PeerTakes(d) \/ \E n \in Lengths : Arrive(d, n)
  \/ \E s \in Captures : CaptureTaken(s)
  \/ \E s \in Controls, c \in Commands : Steer(s, c)
  \/ TerminateContext

\* The thread goes on while nothing blocks it, and libzmq reports ETERM.
Spec ==
  /\ Init /\ [][Next]_vars
  /\ WF_vars(Library) /\ WF_vars(terminated /\ Fails)
----------------------------------------------------------------------------
(* Properties.                                                             *)

TypeOK ==
  /\ handle \in [Proxies -> [capture : Captures \cup {null},
                             control : Controls \cup {null}]]
  /\ result \in [value : BOOLEAN, controlled : BOOLEAN]
  /\ at \in {"idle", "poll", "control", "copy", "obey", "forward", "send"}
  /\ self \in Proxies \cup {null} /\ (self = null <=> at = "idle")
  /\ paused \in BOOLEAN /\ ready \subseteq Directions
  /\ at \in {"control", "obey"} => Control # null
  /\ at = "send" => hand.dir \in ready
  /\ \A d \in Directions : way[d].waiting \in 0 .. HighWaterMark
  /\ \A s \in Captures : load[s] \in 0 .. HighWaterMark
  /\ at = "idle" => hand = Nothing /\ ~paused /\ ready = {}

\* However the Proxies are moved and swapped, a capture or control socket that
\* was given to one of them is held by one at most (Proxy.hpp:70-82, 135): two
\* loops never share a socket, nor compete for its commands.
HeldOnce ==
  \A p, q \in Proxies : p # q =>
    /\ handle[p].capture = handle[q].capture => handle[p].capture = null
    /\ handle[p].control = handle[q].control => handle[p].control = null

\* If run() returns true, and the Proxy has a control socket (Proxy.hpp:107),
\* no message is left half relayed, with its other frames still to be received
\* or with the message that its frames were sent for not ended.
TrueMeansWhole ==
  at = "idle" /\ result.value /\ result.controlled =>
    \A d \in Directions :
      /\ way[d].open = <<>>
      /\ \A i \in 1 .. Len(way[d].incoming) : way[d].incoming[i][1].at = 1

\* The message of which frames have been received, if it may still be relayed.
Taken(d) == IF hand.dir = d THEN Append(way[d].open, hand) ELSE way[d].open
Halfway(d) ==
  IF at = "idle" \/ Taken(d) = <<>> THEN <<>>
  ELSE <<Message(d, Taken(d)[1].no, Taken(d)[1].of)>>

\* The messages that no frame has been received of.
Untouched(d) ==
  LET q == way[d].incoming
  IN  IF q # <<>> /\ q[1][1].at > 1 THEN Tail(q) ELSE q

Queue(d) == Halfway(d) \o Untouched(d)
WholeMessages(d) ==
  {Message(d, n, length) : n \in 1 .. MaxMessages[d], length \in Lengths}

Requests == INSTANCE AtomicChannel WITH
  Whole <- WholeMessages("request"),
  queue <- Queue("request"), delivered <- way["request"].relayed
Replies == INSTANCE AtomicChannel WITH
  Whole <- WholeMessages("reply"),
  queue <- Queue("reply"), delivered <- way["reply"].relayed

\* Each direction of a proxied pair is a channel of whole messages, in order,
\* through any number of runs by any of the Proxies, under any commands and
\* failures: what an interrupted run has taken is lost, never half relayed.
ImplementsChannel == Requests!Spec /\ Replies!Spec

\* TERMINATE ends run(), paused or not, unless the capture socket blocks, and
\* a terminated context ends it always.
TerminateWaits ==
  Commanded /\ \E i \in 1 .. Len(inbox[Control]) :
                 inbox[Control][i].dir = "TERMINATE"
RunEnds ==
  /\ at # "idle" /\ TerminateWaits ~> at = "idle" \/ CaptureBlocked
  /\ at # "idle" /\ terminated ~> at = "idle"
=============================================================================
