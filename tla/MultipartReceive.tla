-------------------------- MODULE MultipartReceive --------------------------
(***************************************************************************)
(* One receiving socket of CpperoMQ and the thread that calls              *)
(*                                                                         *)
(*     socket.receive(receivable, receivables...)                          *)
(*                                                                         *)
(* on it.  Every parameter is a Receivable: an IncomingMessage, which      *)
(* takes one frame off the socket, or a composite written by the           *)
(* application, whose receive() calls receive() on other Receivables.  A   *)
(* frame says whether more frames of its message follow; the answer comes  *)
(* back through the reference `moreToReceive', and each level compares it  *)
(* with the receivables it has left.                                       *)
(*                                                                         *)
(* The C++ call stack is the sequence `todo' of what is left to do,        *)
(* innermost first: receive() calls to be made, and the ends of composites *)
(* that have been entered.                                                 *)
(***************************************************************************)
EXTENDS Nesting

CONSTANTS
  Calls,           \* the parameter lists the application passes to receive()
  Lengths,         \* numbers of frames of the messages that arrive
  Frames,          \* the frames that can arrive
  ReuseMisaligned, \* TRUE: the application goes on using a socket that a call
                   \* left in the middle of a message; FALSE: it gives it up
  MaxArrivals      \* bound on the number of messages that arrive

Receivables == Items

ASSUME ReceiveAssumption ==
  /\ \A a \in Calls : a \in Seq(Receivables) /\ a # <<>>
  /\ Lengths \subseteq Nat \ {0}
  /\ \A n \in Lengths : (1 .. MaxArrivals) \X (1 .. n) \subseteq Frames
  /\ ReuseMisaligned \in BOOLEAN
  /\ MaxArrivals \in Nat

VARIABLES
  todo,          \* what the running call has left to do
  args,          \* the parameters of the latest call
  stored,        \* the frames the latest call took, each with its receivable
  moreToReceive, \* the flag as of the latest frame
  result,        \* how the latest call ended, or "running"
  rcvTimeout,    \* TRUE: ZMQ_RCVTIMEO is finite
  \* libzmq
  current,       \* the message whose first frame was taken last
  read,          \* how many of its frames have been taken
  inbox,         \* whole messages that wait to be received
  terminated,    \* the socket knows that its context is being terminated
  \* history
  arrived,       \* number of messages that have arrived
  received       \* args, stored and current of each call that returned true

sockVars == <<todo, args, stored, moreToReceive, result, rcvTimeout>>
zmqVars  == <<current, read, inbox, terminated>>
history  == <<arrived, received>>
vars     == <<sockVars, zmqVars, history>>

Results == {"none", "running", "true", "false", "throw"}
----------------------------------------------------------------------------
(* The steps that a list of Receivables turns into.                        *)

\* A call of item.receive(), or the end of that of a composite.  `last': no
\* item follows in the same parameter list or composite; `nested': it is in a
\* composite.
Steps == [op : {"receive", "finish"}, item : Receivables,
          last : BOOLEAN, nested : BOOLEAN]

Receives(items, inComposite) ==
  [i \in 1 .. Len(items) |->
     [op |-> "receive", item |-> items[i],
      last |-> i = Len(items), nested |-> inComposite]]
----------------------------------------------------------------------------
Init ==
  /\ todo = <<>> /\ args = <<>> /\ stored = <<>> /\ moreToReceive = FALSE
  /\ result = "none" /\ rcvTimeout = FALSE
  /\ current = <<>> /\ read = 0 /\ inbox = <<>> /\ terminated = FALSE
  /\ arrived = 0 /\ received = <<>>

Running == todo # <<>>
Misaligned == read < Len(current)

\* Mutant: the application does not call again after a call returned false.
CallReceiveNoRetry(a) ==
  /\ ~Running
  /\ result # "false"
  /\ args' = a
  /\ todo' = Receives(a, FALSE)
  /\ stored' = <<>>
  /\ moreToReceive' = FALSE
  /\ result' = "running"
  /\ UNCHANGED <<rcvTimeout, zmqVars, history>>

\* The application calls socket.receive(a[1], ..., a[n]).
CallReceive(a) ==
  /\ ~Running
  /\ ReuseMisaligned \/ ~Misaligned
  /\ args' = a
  /\ todo' = Receives(a, FALSE)
  /\ stored' = <<>>
  /\ moreToReceive' = FALSE
  /\ result' = "running"
  /\ UNCHANGED <<rcvTimeout, zmqVars, history>>

\* receive() of a composite is entered.
EnterComposite ==
  /\ Running
  /\ Head(todo).op = "receive"
  /\ Head(todo).item \in Composites
  /\ todo' = Receives(Parts[Head(todo).item], TRUE)
               \o <<[Head(todo) EXCEPT !.op = "finish"]>> \o Tail(todo)
  /\ UNCHANGED <<args, stored, moreToReceive, result, rcvTimeout, zmqVars,
                 history>>

\* Mutant: the outcome is lost.
GiveUpSilently(outcome) ==
  /\ todo' = <<>>
  /\ UNCHANGED <<args, result, rcvTimeout, received>>

\* The call ends at every level.
GiveUp(outcome) ==
  /\ todo' = <<>>
  /\ result' = outcome
  /\ UNCHANGED <<args, rcvTimeout, received>>

\* Mutants: one of the two comparisons is left out.
FlagAgreesUnlessShort(step, more) == step.last => step.nested \/ ~more
FlagAgreesUnlessLong(step, more) == step.last \/ more

\* What the caller of a receive() that returned true does with the flag.  In
\* ReceivingSocket::receive it must be set exactly when receivables are left;
\* a composite checks it after all of its parts up to the last.
FlagAgrees(step, more) ==
  IF step.last THEN step.nested \/ ~more ELSE more

\* Mutant: the call ends as soon as its message does.
NextReceivableEager ==
  /\ UNCHANGED <<args, rcvTimeout>>
  /\ IF Tail(todo) = <<>> \/ ~moreToReceive'
     THEN /\ todo' = <<>>
          /\ result' = "true"
          /\ received' = Append(received, [args |-> args,
                                           stored |-> stored',
                                           message |-> current'])
     ELSE /\ todo' = Tail(todo)
          /\ UNCHANGED <<result, received>>

\* receive() of the first item of `todo' returned true.
NextReceivable ==
  IF FlagAgrees(Head(todo), moreToReceive')
  THEN /\ todo' = Tail(todo)
       /\ IF Tail(todo) = <<>>
          THEN /\ result' = "true"
               /\ received' = Append(received, [args |-> args,
                                                stored |-> stored',
                                                message |-> current'])
          ELSE UNCHANGED <<result, received>>
       /\ UNCHANGED <<args, rcvTimeout>>
  ELSE GiveUp("false")

\* Mutant: the frames of a message arrive one by one.
FrameAvailableSingly == ~terminated /\ inbox # <<>>

\* libzmq hands over the next frame of the message that was begun, or begins
\* the oldest one in the inbox; a message is there as a whole or not at all.
FrameAvailable == ~terminated /\ (Misaligned \/ inbox # <<>>)

ZmqTake ==
  IF Misaligned
  THEN /\ read' = read + 1
       /\ UNCHANGED <<current, inbox>>
  ELSE /\ current' = Head(inbox)
       /\ inbox' = Tail(inbox)
       /\ read' = 1

AtMessage ==
  /\ Running
  /\ Head(todo).op = "receive"
  /\ Head(todo).item \in Messages

\* IncomingMessage::receive, when zmq_msg_recv succeeds.
ReceiveFrame ==
  /\ AtMessage
  /\ FrameAvailable
  /\ ZmqTake
  /\ moreToReceive' = (read' < Len(current'))
  /\ stored' = Append(stored, [into |-> Head(todo).item,
                               frame |-> current'[read']])
  /\ NextReceivable
  /\ UNCHANGED <<terminated, arrived>>

\* receive() of a composite returns true.
FinishComposite ==
  /\ Running
  /\ Head(todo).op = "finish"
  /\ UNCHANGED <<stored, moreToReceive, zmqVars, arrived>>
  /\ NextReceivable

\* The application's code in a composite fails on what has been received, before
\* its next part or at its end, for instance because it cannot make sense of a
\* frame (deserializeNumber in README.md).
CompositeFails ==
  /\ Running
  /\ Head(todo).nested \/ Head(todo).item \in Composites
  /\ stored # <<>>
  /\ \E outcome \in {"false", "throw"} : GiveUp(outcome)
  /\ UNCHANGED <<stored, moreToReceive, zmqVars, arrived>>

\* zmq_msg_recv gives up on an empty inbox after a finite ZMQ_RCVTIMEO (EAGAIN):
\* IncomingMessage::receive returns false.
ReceiveTimesOut ==
  /\ AtMessage
  /\ ~FrameAvailable /\ ~terminated
  /\ rcvTimeout
  /\ moreToReceive' = FALSE
  /\ GiveUp("false")
  /\ UNCHANGED <<stored, zmqVars, arrived>>

\* Mutant: the termination is noticed only by a call with a time-out.
ReceiveTerminatedLate ==
  /\ AtMessage
  /\ terminated /\ rcvTimeout
  /\ moreToReceive' = FALSE
  /\ GiveUp("throw")
  /\ UNCHANGED <<stored, zmqVars, arrived>>

\* ETERM and EINTR are thrown.
ReceiveTerminated ==
  /\ AtMessage
  /\ terminated
  /\ moreToReceive' = FALSE
  /\ GiveUp("throw")
  /\ UNCHANGED <<stored, zmqVars, arrived>>

ReceiveInterrupted ==
  /\ AtMessage
  /\ ~FrameAvailable /\ ~terminated
  /\ moreToReceive' = FALSE
  /\ GiveUp("throw")
  /\ UNCHANGED <<stored, zmqVars, arrived>>

SetReceiveTimeout(finite) ==
  /\ ~Running /\ ~terminated
  /\ rcvTimeout' = finite
  /\ UNCHANGED <<todo, args, stored, moreToReceive, result, zmqVars, history>>

\* libzmq's I/O thread has received a whole message of n frames, each told
\* apart by the number of the message and its place in it.
Arrive(n) ==
  /\ arrived < MaxArrivals
  /\ arrived' = arrived + 1
  /\ inbox' = Append(inbox, [i \in 1 .. n |-> <<arrived', i>>])
  /\ UNCHANGED <<sockVars, current, read, terminated, received>>

\* Another thread destroys the Context.
TerminateContext ==
  /\ ~terminated
  /\ terminated' = TRUE
  /\ UNCHANGED <<sockVars, current, read, inbox, history>>

Application ==
  \/ \E a \in Calls : CallReceive(a)
  \/ \E finite \in BOOLEAN : SetReceiveTimeout(finite)

Library ==
  \/ EnterComposite
  \/ ReceiveFrame
  \/ FinishComposite
  \/ ReceiveTimesOut
  \/ ReceiveTerminated

Next ==
  \/ Application
  \/ Library
  \/ CompositeFails
  \/ ReceiveInterrupted
  \/ \E n \in Lengths : Arrive(n)
  \/ TerminateContext

\* A thread inside receive() keeps running.  Nothing obliges a message to
\* arrive, a composite to fail or a signal to come.
Fairness == WF_vars(Library)

Spec == Init /\ [][Next]_vars /\ Fairness
----------------------------------------------------------------------------
(* Properties.                                                             *)

TypeOK ==
  /\ todo \in Seq(Steps)
  /\ args \in Seq(Receivables)
  /\ stored \in Seq([into : Messages, frame : Frames])
  /\ moreToReceive \in BOOLEAN
  /\ result \in Results
  /\ rcvTimeout \in BOOLEAN
  /\ current \in Seq(Frames)
  /\ read \in 0 .. Len(current)
  /\ inbox \in Seq(Seq(Frames) \ {<<>>})
  /\ terminated \in BOOLEAN
  /\ arrived \in 0 .. MaxArrivals
  /\ received \in Seq([args : Seq(Receivables),
                       stored : Seq([into : Messages, frame : Frames]),
                       message : Seq(Frames)])
  /\ Running <=> result = "running"

\* However its parameters are nested, a call never takes frames of two
\* messages: what it has stored is the stretch of the current message that
\* ends at the frame read last.
CallWithinOneMessage ==
  /\ Len(stored) <= read
  /\ \A i \in 1 .. Len(stored) :
       stored[i].frame = current[read - Len(stored) + i]

\* receive() returns true only at the end of a message, with all that the
\* socket still held of it; that is the whole message if the socket is given
\* up once a call has stopped in the middle of one.
TrueMeansWhole ==
  \A k \in 1 .. Len(received) :
    LET call == received[k] IN
    /\ Len(call.stored) <= Len(call.message)
    /\ \A i \in 1 .. Len(call.stored) :
         call.stored[i].frame
           = call.message[Len(call.message) - Len(call.stored) + i]
    /\ ReuseMisaligned \/ Len(call.stored) = Len(call.message)

\* The receivables that the frames in a list were taken into.
Filled(takings) == [i \in 1 .. Len(takings) |-> takings[i].into]

\* A call that returned true has filled exactly the leaves of its parameters,
\* in order and each once (ReceivingSocket::receive, the composites).
FilledLeaves ==
  \A k \in 1 .. Len(received) :
    Filled(received[k].stored) = Leaves[received[k].args]

\* A receive() that times out may simply be called again: no frame was taken,
\* and none of the current message is left.
TimeoutTakesNothing ==
  [][ReceiveTimesOut => stored = <<>> /\ ~Misaligned]_vars

\* A call of receive() that has something to receive, or whose Context is being
\* destroyed, returns or throws.
ReceiveReturns ==
  Running /\ (Misaligned \/ inbox # <<>> \/ terminated) ~> ~Running

\* src/README.md:66: "All parameters in a single call to `send` or `receive` are
\* treated as the individual message parts (a.k.a. frames) of a multipart
\* message."  Not so when the call before has returned false in the middle of a
\* message: this one takes the rest of it for a message, and returns true.
InFullOrNotAtAll ==
  \A k \in 1 .. Len(received) :
    Len(received[k].stored) = Len(received[k].message)
=============================================================================
