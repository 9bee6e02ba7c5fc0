--------------------------- MODULE MultipartSend ---------------------------
(***************************************************************************)
(* One sending socket of CpperoMQ and the thread that calls                *)
(*                                                                         *)
(*     socket.send(sendable, sendables...)                                 *)
(*                                                                         *)
(* on it.  Every parameter is a Sendable: an OutgoingMessage, which puts   *)
(* one frame on the socket, or a composite written by the application,     *)
(* whose send() calls send() on other Sendables.  The only thing that      *)
(* makes the frames of a call one multipart message is the flag            *)
(* `moreToSend' handed down these calls: ZMQ_SNDMORE on every frame but    *)
(* the last.                                                               *)
(*                                                                         *)
(* The C++ call stack is the sequence `pending' of the send() calls that   *)
(* are still to be made, innermost first.  A step is one send() call, so   *)
(* the peer that empties the pipe and the thread that destroys the Context *)
(* interleave between the frames of a call.                                *)
(***************************************************************************)
EXTENDS Nesting

CONSTANTS
  Calls,         \* the parameter lists the application passes to send()
  HighWaterMark, \* number of whole messages the outbound pipe holds
  ReuseBroken,   \* TRUE: the application goes on using a socket on which a
                 \* call failed between two frames; FALSE: it gives it up
  MaxCalls       \* bound on the number of send() calls of a behaviour

Sendables == Items

ASSUME SendAssumption ==
  /\ \A a \in Calls : a \in Seq(Sendables) /\ a # <<>>
  /\ HighWaterMark \in Nat \ {0}
  /\ ReuseBroken \in BOOLEAN
  /\ MaxCalls \in Nat

VARIABLES
  pending,     \* the send() calls still to be made by the running call
  calls,       \* number of calls of SendingSocket::send made so far
  args,        \* the parameters of the latest call
  emitted,     \* frames of the latest call that libzmq has accepted
  result,      \* how the latest call ended, or "running"
  sndTimeout,  \* TRUE: ZMQ_SNDTIMEO is finite
  \* libzmq
  unfinished,  \* frames sent with ZMQ_SNDMORE, of a message without its last
  pipe,        \* whole messages on their way to the peer
  terminated,  \* the socket knows that its context is being terminated
  \* history
  carried,     \* what unfinished held when the latest call began
  gone,        \* the messages that have left the pipe, oldest first
  done         \* for each call that returned true, in order, its args, the
               \* frames it carried and the frames it emitted

sockVars == <<pending, calls, args, emitted, result, sndTimeout>>
zmqVars  == <<unfinished, pipe, terminated>>
history  == <<carried, gone, done>>
vars     == <<sockVars, zmqVars, history>>

\* A frame carries the number of the call that sent it, so that two calls
\* with equal parameters can be told apart.
Frames == (1 .. MaxCalls) \X Messages
Results == {"none", "running", "true", "false", "throw"}
----------------------------------------------------------------------------
(* The calls that a list of Sendables turns into.                          *)

\* One pending call sendable.send(socket, moreToSend); `nested' when it is
\* made by the send() of a composite.
SendCalls == [sendable : Sendables, moreToSend : BOOLEAN, nested : BOOLEAN]

\* Mutant: the last parameter but one is told that nothing follows.
ArgumentCallsOffByOne(a) ==
  [i \in 1 .. Len(a) |->
     [sendable |-> a[i], moreToSend |-> i + 1 < Len(a), nested |-> FALSE]]

\* SendingSocket::send walks its parameters and passes (rest > 0).
ArgumentCalls(a) ==
  [i \in 1 .. Len(a) |->
     [sendable |-> a[i], moreToSend |-> i < Len(a), nested |-> FALSE]]

\* Mutant: a composite closes the message after its own last part.
PartCallsIgnoreMore(c, moreToSend) ==
  [i \in 1 .. Len(Parts[c]) |->
     [sendable |-> Parts[c][i],
      moreToSend |-> i < Len(Parts[c]),
      nested |-> TRUE]]

\* The documented pattern of a composite: true for every part up to the last
\* one, which gets the composite's own moreToSend.
PartCalls(c, moreToSend) ==
  [i \in 1 .. Len(Parts[c]) |->
     [sendable |-> Parts[c][i],
      moreToSend |-> i < Len(Parts[c]) \/ moreToSend,
      nested |-> TRUE]]
----------------------------------------------------------------------------
Init ==
  /\ pending = <<>> /\ calls = 0 /\ args = <<>> /\ emitted = <<>>
  /\ result = "none" /\ sndTimeout = FALSE
  /\ unfinished = <<>> /\ pipe = <<>> /\ terminated = FALSE
  /\ carried = <<>> /\ gone = <<>> /\ done = <<>>

Running == pending # <<>>

\* The application calls socket.send(a[1], ..., a[n]).
CallSend(a) ==
  /\ ~Running
  /\ calls < MaxCalls
  /\ ReuseBroken \/ unfinished = <<>>
  /\ calls' = calls + 1
  /\ args' = a
  /\ pending' = ArgumentCalls(a)
  /\ emitted' = <<>>
  /\ carried' = unfinished
  /\ result' = "running"
  /\ UNCHANGED <<sndTimeout, zmqVars, gone, done>>

\* Mutant: the parts are sent after the parameters that follow.
EnterCompositeLate ==
  /\ Running
  /\ Head(pending).sendable \in Composites
  /\ pending' = Tail(pending)
                  \o PartCalls(Head(pending).sendable, Head(pending).moreToSend)
  /\ UNCHANGED <<calls, args, emitted, result, sndTimeout, zmqVars, history>>

\* send() of a composite is entered: its parts are sent in its place.
EnterComposite ==
  /\ Running
  /\ Head(pending).sendable \in Composites
  /\ pending' = PartCalls(Head(pending).sendable, Head(pending).moreToSend)
                  \o Tail(pending)
  /\ UNCHANGED <<calls, args, emitted, result, sndTimeout, zmqVars, history>>

\* Mutants: no high water mark; a high water mark that counts frames.
CanAcceptAlways == ~terminated
CanAcceptFrames == ~terminated /\ Len(pipe) + Len(unfinished) < HighWaterMark

\* libzmq: a message is begun only while the pipe is below its high water
\* mark; once begun, its other frames are always accepted.
CanAccept == ~terminated /\ (unfinished # <<>> \/ Len(pipe) < HighWaterMark)

\* Mutant: the frames held back are not handed over with the last one.
ZmqAcceptSingly(frame, sndmore) ==
  IF sndmore
  THEN /\ unfinished' = Append(unfinished, frame)
       /\ UNCHANGED pipe
  ELSE /\ pipe' = Append(pipe, <<frame>>)
       /\ UNCHANGED unfinished

\* zmq_msg_send: a frame without ZMQ_SNDMORE completes the message, and only
\* whole messages are handed to the pipe.
ZmqAccept(frame, sndmore) ==
  IF sndmore
  THEN /\ unfinished' = Append(unfinished, frame)
       /\ UNCHANGED pipe
  ELSE /\ pipe' = Append(pipe, Append(unfinished, frame))
       /\ unfinished' = <<>>

\* The innermost call returned true: the next one is made, and
\* SendingSocket::send returns true after the last of its parameters.
NextSendable ==
  /\ pending' = Tail(pending)
  /\ IF Tail(pending) = <<>>
     THEN /\ result' = "true"
          /\ done' = Append(done, [args |-> args, carried |-> carried,
                                  frames |-> emitted'])
     ELSE UNCHANGED <<result, done>>

\* OutgoingMessage::send, when libzmq accepts the copy of the message.
SendMessage ==
  /\ Running
  /\ Head(pending).sendable \in Messages
  /\ CanAccept
  /\ LET frame == <<calls, Head(pending).sendable>> IN
       /\ emitted' = Append(emitted, frame)
       /\ ZmqAccept(frame, Head(pending).moreToSend)
  /\ NextSendable
  /\ UNCHANGED <<calls, args, sndTimeout, terminated, carried, gone>>

\* A call gives up: every level returns false, or lets the exception through.
\* Nothing takes back the frames that were already sent.
GiveUp(outcome) ==
  /\ pending' = <<>>
  /\ result' = outcome
  /\ UNCHANGED <<calls, args, emitted, sndTimeout, zmqVars, history>>

\* OutgoingMessage::send, when zmq_msg_send gives up at the high water mark
\* after a finite ZMQ_SNDTIMEO (EAGAIN): it returns false.
SendTimesOut ==
  /\ Running
  /\ Head(pending).sendable \in Messages
  /\ ~CanAccept /\ ~terminated
  /\ sndTimeout
  /\ GiveUp("false")

\* Mutant: the termination is noticed only by a call with a time-out.
SendTerminatedLate ==
  /\ Running
  /\ Head(pending).sendable \in Messages
  /\ terminated /\ sndTimeout
  /\ GiveUp("throw")

\* Every other error is thrown: ETERM once the Context is being destroyed ...
SendTerminated ==
  /\ Running
  /\ Head(pending).sendable \in Messages
  /\ terminated
  /\ GiveUp("throw")

\* ... and EINTR when a signal reaches the thread while it is blocked.
SendInterrupted ==
  /\ Running
  /\ Head(pending).sendable \in Messages
  /\ ~CanAccept /\ ~terminated
  /\ GiveUp("throw")

\* The application's code in a composite fails before its next part, for
\* instance because constructing the OutgoingMessage throws.
CompositeFails ==
  /\ Running
  /\ Head(pending).nested \/ Head(pending).sendable \in Composites
  /\ \E outcome \in {"false", "throw"} : GiveUp(outcome)

SetSendTimeout(finite) ==
  /\ ~Running /\ ~terminated
  /\ sndTimeout' = finite
  /\ UNCHANGED <<pending, calls, args, emitted, result, zmqVars, history>>

\* libzmq's I/O thread hands the oldest message to the peer.
PeerTakes ==
  /\ pipe # <<>>
  /\ gone' = Append(gone, Head(pipe))
  /\ pipe' = Tail(pipe)
  /\ UNCHANGED <<sockVars, unfinished, terminated, carried, done>>

\* Another thread destroys the Context: the socket is told to stop, which wakes
\* it up if it is blocked.
TerminateContext ==
  /\ ~terminated
  /\ terminated' = TRUE
  /\ UNCHANGED <<sockVars, unfinished, pipe, history>>

Application ==
  \/ \E a \in Calls : CallSend(a)
  \/ \E finite \in BOOLEAN : SetSendTimeout(finite)

Library == EnterComposite \/ SendMessage \/ SendTimesOut \/ SendTerminated

Next ==
  \/ Application
  \/ Library
  \/ SendInterrupted
  \/ CompositeFails
  \/ PeerTakes
  \/ TerminateContext

\* A thread inside send() keeps running, and the peer keeps receiving.  Nothing
\* obliges the application to call again, a signal to arrive, a composite to
\* fail or another thread to destroy the Context.
Fairness == WF_vars(Library) /\ WF_vars(PeerTakes)

Spec == Init /\ [][Next]_vars /\ Fairness
----------------------------------------------------------------------------
(* Properties.                                                             *)

\* Everything that has been handed to the pipe.
Flushed == gone \o pipe

\* Types, and the pipe within its high water mark.
TypeOK ==
  /\ pending \in Seq(SendCalls)
  /\ calls \in 0 .. MaxCalls
  /\ args \in Seq(Sendables)
  /\ emitted \in Seq(Frames)
  /\ result \in Results
  /\ sndTimeout \in BOOLEAN
  /\ unfinished \in Seq(Frames)
  /\ pipe \in Seq(Seq(Frames)) /\ Len(pipe) <= HighWaterMark
  /\ terminated \in BOOLEAN
  /\ gone \in Seq(Seq(Frames))
  /\ carried \in Seq(Frames)
  /\ done \in Seq([args : Seq(Sendables), carried : Seq(Frames),
                   frames : Seq(Frames)])
  /\ Running <=> result = "running"

\* The flag discipline, for every nesting of composites: of the send() calls
\* still to be made exactly the last one is told that nothing follows.
MoreToSendDiscipline ==
  \A i \in 1 .. Len(pending) : pending[i].moreToSend <=> i < Len(pending)

\* The messages on the wire and the calls that returned true correspond one to
\* one and in order, whatever fails, times out or is terminated in between: a
\* message is the frames of its call, behind those that failed calls left in
\* the socket, and behind nothing if such a socket is not used again.
AtomicSend ==
  /\ Len(Flushed) = Len(done)
  /\ \A k \in 1 .. Len(done) :
       /\ Flushed[k] = done[k].carried \o done[k].frames
       /\ ReuseBroken \/ done[k].carried = <<>>

\* The messages in a list of frames.
MessagesOf(frames) == [i \in 1 .. Len(frames) |-> frames[i][2]]

\* A call that returned true has put exactly the leaves of its parameters on
\* the socket, in order and each once (SendingSocket::send, the composites).
SentAsLeaves ==
  \A k \in 1 .. Len(done) : MessagesOf(done[k].frames) = Leaves[done[k].args]

\* While a call runs, libzmq holds back exactly what the call has emitted,
\* behind what it found; and a message that was begun can be completed, because
\* nothing else fills the pipe in the meantime.
HeldBack ==
  /\ Running => /\ calls > 0
                /\ unfinished = carried \o emitted
                /\ ReuseBroken \/ carried = <<>>
  /\ unfinished # <<>> => Len(pipe) < HighWaterMark

\* A send() that times out may simply be called again: the time-out cannot
\* have struck between two frames, and it leaves nothing behind.
TimeoutLeavesNothing ==
  [][SendTimesOut => emitted = <<>> /\ unfinished = <<>>]_vars

\* A call of send() returns or throws, provided the peer keeps receiving: no
\* nesting of composites keeps it going, and back-pressure only delays it.
SendReturns == Running ~> ~Running

\* README.md: "'send' treats all of its parameters as a single, multipart
\* message."  It does not hold once a socket is used again
\* after a call that failed between two frames.
OneCallOneMessage ==
  /\ Len(Flushed) = Len(done)
  /\ \A k \in 1 .. Len(done) : Flushed[k] = done[k].frames
=============================================================================
