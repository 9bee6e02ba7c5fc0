--------------------------- MODULE MessageHandles ---------------------------
(***************************************************************************)
(* OutgoingMessage and IncomingMessage objects, the zmq_msg_t in each, and *)
(* the contents that libzmq allocates and counts the references to.        *)
(*                                                                         *)
(* Two threads exchange messages over a pair of sockets in one process, so *)
(* that a content is not copied on its way: the sender's OutgoingMessage,  *)
(* the copy that send() makes of it, the frame in the pipe and the         *)
(* receiver's IncomingMessage refer to the same one.  Every thread works   *)
(* on message objects of its own.                                          *)
(***************************************************************************)
EXTENDS Integers, Sequences, FiniteSets

CONSTANTS
  Threads,     \* the two threads
  Outgoing,    \* the names of a thread's OutgoingMessage objects
  Incoming,    \* the names of a thread's IncomingMessage objects
  Capacity,    \* frames that a pipe holds
  MaxContents  \* bound on the contents allocated in a behaviour

ASSUME HandlesAssumption ==
  /\ IsFiniteSet(Threads) /\ Cardinality(Threads) = 2
  /\ IsFiniteSet(Outgoing) /\ IsFiniteSet(Incoming)
  /\ Outgoing \cap Incoming = {}
  /\ "copy" \notin Outgoing \cup Incoming
  /\ Capacity \in Nat \ {0}
  /\ MaxContents \in Nat

Messages == Outgoing \cup Incoming

\* What a zmq_msg_t refers to: a content, nothing (zmq_msg_init); NoObject
\* when there is no object at all.
NoObject == -1
Empty == 0

VARIABLES
  handle,  \* per thread: what its messages, and the copy in send(), refer to
  at,      \* per thread: in its own code, or blocked in a call
  into,    \* per thread: the message of the latest receive()
  pipe,    \* per thread: the frames on their way to it
  refs     \* the reference count of every content allocated so far

vars == <<handle, at, into, pipe, refs>>

Other(t) == CHOOSE u \in Threads : u # t
Handles == NoObject .. MaxContents
----------------------------------------------------------------------------
(* libzmq's operations on a handle.                                        *)

Share(h) == IF h > 0 THEN [refs EXCEPT ![h] = @ + 1] ELSE refs
Close(h) == IF h > 0 THEN [refs EXCEPT ![h] = @ - 1] ELSE refs

Init ==
  /\ handle = [t \in Threads |-> [m \in Messages \cup {"copy"} |-> NoObject]]
  /\ at = [t \in Threads |-> "app"]
  /\ into = [t \in Threads |-> {}]
  /\ pipe = [t \in Threads |-> <<>>]
  /\ refs = <<>>

Idle(t) == at[t] = "app"
Exists(t, m) == handle[t][m] # NoObject

\* Message(): zmq_msg_init.
Construct(t, m) ==
  /\ Idle(t) /\ ~Exists(t, m)
  /\ handle' = [handle EXCEPT ![t][m] = Empty]
  /\ UNCHANGED <<at, into, pipe, refs>>

\* Message(size, sourceData): zmq_msg_init_size and memcpy.
ConstructFrom(t, m) ==
  /\ Idle(t) /\ ~Exists(t, m)
  /\ m \in Outgoing
  /\ Len(refs) < MaxContents
  /\ refs' = Append(refs, 1)
  /\ handle' = [handle EXCEPT ![t][m] = Len(refs')]
  /\ UNCHANGED <<at, into, pipe>>

\* Message(Message&&): an empty message, swapped with the source.
MoveConstruct(t, m, from) ==
  /\ Idle(t) /\ ~Exists(t, m) /\ Exists(t, from)
  /\ {m, from} \subseteq Outgoing \/ {m, from} \subseteq Incoming
  /\ handle' = [handle EXCEPT ![t][m] = handle[t][from], ![t][from] = Empty]
  /\ UNCHANGED <<at, into, pipe, refs>>

\* operator=, which swaps, and swap(Message&, Message&), which takes messages
\* of either kind: a frame that was received can be sent on.
SwapMessages(t, m, n) ==
  /\ Idle(t) /\ Exists(t, m) /\ Exists(t, n)
  /\ handle' = [handle EXCEPT ![t][m] = handle[t][n], ![t][n] = handle[t][m]]
  /\ UNCHANGED <<at, into, pipe, refs>>

\* ~Message: zmq_msg_close.
Destroy(t, m) ==
  /\ Idle(t) /\ Exists(t, m)
  /\ refs' = Close(handle[t][m])
  /\ handle' = [handle EXCEPT ![t][m] = NoObject]
  /\ UNCHANGED <<at, into, pipe>>

\* Mutant: the message itself is given to zmq_msg_send.
SendBeginsMoving(t, m) ==
  /\ Idle(t) /\ m \in Outgoing /\ Exists(t, m)
  /\ handle' = [handle EXCEPT ![t]["copy"] = handle[t][m], ![t][m] = Empty]
  /\ at' = [at EXCEPT ![t] = "send"]
  /\ UNCHANGED <<into, pipe, refs>>

\* OutgoingMessage::send makes a shallow copy in a local message and calls
\* zmq_msg_send with that, which may block.
SendBegins(t, m) ==
  /\ Idle(t) /\ m \in Outgoing /\ Exists(t, m)
  /\ refs' = Share(handle[t][m])
  /\ handle' = [handle EXCEPT ![t]["copy"] = handle[t][m]]
  /\ at' = [at EXCEPT ![t] = "send"]
  /\ UNCHANGED <<into, pipe>>

\* zmq_msg_send takes the reference over and leaves the copy empty, so that its
\* destructor, when send() returns true, has nothing to give back.
SendAccepted(t) ==
  /\ at[t] = "send"
  /\ Len(pipe[Other(t)]) < Capacity
  /\ pipe' = [pipe EXCEPT ![Other(t)] = Append(@, handle[t]["copy"])]
  /\ handle' = [handle EXCEPT ![t]["copy"] = NoObject]
  /\ at' = [at EXCEPT ![t] = "app"]
  /\ UNCHANGED <<into, refs>>

\* Mutants: after a failure the copy lives on, or is left to libzmq.
SendFailsKeepingCopy(t) ==
  /\ at[t] = "send"
  /\ at' = [at EXCEPT ![t] = "app"]
  /\ UNCHANGED <<handle, into, pipe, refs>>

SendFailsUnclosed(t) ==
  /\ at[t] = "send"
  /\ handle' = [handle EXCEPT ![t]["copy"] = NoObject]
  /\ at' = [at EXCEPT ![t] = "app"]
  /\ UNCHANGED <<into, pipe, refs>>

\* zmq_msg_send fails (EAGAIN, ETERM, EINTR) and leaves the copy alone: its
\* destructor closes it on the way out, by return or by exception.
SendFails(t) ==
  /\ at[t] = "send"
  /\ refs' = Close(handle[t]["copy"])
  /\ handle' = [handle EXCEPT ![t]["copy"] = NoObject]
  /\ at' = [at EXCEPT ![t] = "app"]
  /\ UNCHANGED <<into, pipe>>

\* Mutant: the message is not closed and initialised before the wait.
ReceiveBeginsFull(t, m) ==
  /\ Idle(t) /\ m \in Incoming /\ Exists(t, m)
  /\ into' = [into EXCEPT ![t] = {m}]
  /\ at' = [at EXCEPT ![t] = "receive"]
  /\ UNCHANGED <<handle, pipe, refs>>

\* IncomingMessage::receive closes and initialises the message before it calls
\* zmq_msg_recv, which may block.
ReceiveBegins(t, m) ==
  /\ Idle(t) /\ m \in Incoming /\ Exists(t, m)
  /\ refs' = Close(handle[t][m])
  /\ handle' = [handle EXCEPT ![t][m] = Empty]
  /\ into' = [into EXCEPT ![t] = {m}]
  /\ at' = [at EXCEPT ![t] = "receive"]
  /\ UNCHANGED pipe

ReceiveReturns(t) ==
  /\ at[t] = "receive"
  /\ pipe[t] # <<>>
  /\ \E m \in into[t] : handle' = [handle EXCEPT ![t][m] = Head(pipe[t])]
  /\ pipe' = [pipe EXCEPT ![t] = Tail(@)]
  /\ at' = [at EXCEPT ![t] = "app"]
  /\ UNCHANGED <<into, refs>>

\* zmq_msg_recv fails (EAGAIN, ETERM, EINTR).
ReceiveFails(t) ==
  /\ at[t] = "receive"
  /\ at' = [at EXCEPT ![t] = "app"]
  /\ UNCHANGED <<handle, into, pipe, refs>>

\* libzmq drops what is still on its way to t when one of the sockets is closed.
DropFrame(t) ==
  /\ pipe[t] # <<>>
  /\ refs' = Close(Head(pipe[t]))
  /\ pipe' = [pipe EXCEPT ![t] = Tail(@)]
  /\ UNCHANGED <<handle, at, into>>

Application(t) ==
  \E m \in Messages :
    \/ Construct(t, m)
    \/ ConstructFrom(t, m)
    \/ \E n \in Messages \ {m} : MoveConstruct(t, m, n) \/ SwapMessages(t, m, n)
    \/ Destroy(t, m)
    \/ SendBegins(t, m)
    \/ ReceiveBegins(t, m)

Next ==
  \E t \in Threads :
    \/ Application(t)
    \/ SendAccepted(t) \/ SendFails(t)
    \/ ReceiveReturns(t) \/ ReceiveFails(t)
    \/ DropFrame(t)

Spec == Init /\ [][Next]_vars
----------------------------------------------------------------------------
(* Properties.                                                             *)

TypeOK ==
  /\ handle \in [Threads -> [Messages \cup {"copy"} -> Handles]]
  /\ at \in [Threads -> {"app", "send", "receive"}]
  /\ into \in [Threads -> SUBSET Incoming]
  /\ pipe \in [Threads -> Seq(Empty .. MaxContents)]
  /\ refs \in Seq(Nat) /\ Len(refs) <= MaxContents
  /\ \A t \in Threads : Len(pipe[t]) <= Capacity
  /\ \A t \in Threads : at[t] = "send" <=> Exists(t, "copy")

\* All that refers to a content, in either thread and between them.
Holders(c) ==
  {p \in Threads \X (Messages \cup {"copy"}) : handle[p[1]][p[2]] = c}
Frames(c) ==
  {p \in Threads \X (1 .. Capacity) :
     p[2] <= Len(pipe[p[1]]) /\ pipe[p[1]][p[2]] = c}

\* Through moves, swaps across the two kinds of messages, repeated sends of one
\* message and failures, libzmq's count is the number of what refers to a
\* content: it is freed when the last of them is gone, never before, and once.
CountsExact ==
  \A c \in 1 .. Len(refs) :
    refs[c] = Cardinality(Holders(c)) + Cardinality(Frames(c))

\* send() is const: from its call to its end, whatever that is, every message of
\* the thread keeps its content, so that it can be sent again after a time-out
\* or to another socket (OutgoingMessage::send).
SendLeavesMessages ==
  [][\A t \in Threads : \A m \in Messages :
       at[t] = "send" \/ at'[t] = "send" => handle'[t][m] = handle[t][m]]_vars

\* The message that thread t receives into is empty while it waits and at the
\* end has the frame that the call took, or nothing; no other message changes.
ReceivesFresh(t) ==
  /\ \A m \in into'[t] :
       /\ at'[t] = "receive" => handle'[t][m] = Empty
       /\ at'[t] = "app" =>
            handle'[t][m]
              = IF pipe'[t] = pipe[t] THEN Empty ELSE Head(pipe[t])
  /\ \A m \in Messages \ into'[t] : handle'[t][m] = handle[t][m]

\* From its call to its end, whatever that is, receive() changes the message it
\* was given and no other, and leaves nothing there of what an earlier call had
\* put into it (IncomingMessage::receive).
ReceiveIsFresh ==
  [][\A t \in Threads :
       at[t] = "receive" \/ at'[t] = "receive" => ReceivesFresh(t)]_vars
=============================================================================
