-------------------------- MODULE MultipartChannel --------------------------
(***************************************************************************)
(* A sending socket and the receiving socket it is connected to, each with *)
(* a thread of its own: MultipartSend and MultipartReceive composed over   *)
(* libzmq's pipe, which is the `pipe' of the one and the `inbox' of the    *)
(* other.  Both applications give a socket up when a call on it has ended  *)
(* between two frames.  The steps of the two threads interleave within     *)
(* their calls.                                                            *)
(***************************************************************************)
EXTENDS Nesting

CONSTANTS
  SendArgs,                    \* the parameter lists of send()
  ReceiveArgs,                 \* the parameter lists of receive()
  HighWaterMark,               \* messages the pipe holds: both sockets' marks
  MaxCalls                     \* bound on the number of calls of send()

ASSUME ChannelAssumption ==
  /\ \A a \in SendArgs \cup ReceiveArgs : a \in Seq(Items) /\ a # <<>>
  /\ HighWaterMark \in Nat \ {0}
  /\ MaxCalls \in Nat

VARIABLES
  \* the sending socket
  pending, calls, args, emitted, result, sndTimeout, unfinished, terminated,
  carried, done,
  \* the pipe and the messages whose first frame has been taken out of it
  pipe, gone,
  \* the receiving socket
  todo, rcvArgs, stored, moreToReceive, rcvResult, rcvTimeout, current, read,
  rcvTerminated, received

S == INSTANCE MultipartSend WITH Calls <- SendArgs, ReuseBroken <- FALSE

\* Nothing arrives but through the pipe.
R == INSTANCE MultipartReceive WITH
       Calls <- ReceiveArgs, ReuseMisaligned <- FALSE,
       Frames <- S!Frames, Lengths <- {}, MaxArrivals <- 0, arrived <- 0,
       args <- rcvArgs, result <- rcvResult, inbox <- pipe,
       terminated <- rcvTerminated

sendOnly == <<pending, calls, args, emitted, result, sndTimeout, unfinished,
              terminated, carried, done>>
receiveOnly == <<todo, rcvArgs, stored, moreToReceive, rcvResult, rcvTimeout,
                 current, read, rcvTerminated, received>>
vars == <<sendOnly, pipe, gone, receiveOnly>>

Init == S!Init /\ R!Init

SenderSteps ==
  \/ S!Application
  \/ S!Library
  \/ S!SendInterrupted
  \/ S!CompositeFails
  \/ S!TerminateContext

SenderStep == SenderSteps /\ UNCHANGED receiveOnly

\* The receiver takes a first frame, and with it the message, off the pipe.
Taken ==
  gone' = IF pipe' = pipe THEN gone ELSE Append(gone, Head(pipe))

ReceiverSteps ==
  \/ R!Application
  \/ R!Library
  \/ R!CompositeFails
  \/ R!ReceiveInterrupted
  \/ R!TerminateContext

ReceiverStep == ReceiverSteps /\ Taken /\ UNCHANGED sendOnly

Next == SenderStep \/ ReceiverStep

\* Threads inside send() and receive() keep running; the receiving application
\* calls receive() again as long as its socket is good.
SenderFairness == WF_vars(S!Library /\ UNCHANGED receiveOnly)
ReceiverFairness ==
  /\ WF_vars(R!Library /\ Taken /\ UNCHANGED sendOnly)
  /\ WF_vars((\E a \in ReceiveArgs : R!CallReceive(a))
               /\ Taken /\ UNCHANGED sendOnly)

Spec == Init /\ [][Next]_vars /\ SenderFairness /\ ReceiverFairness
----------------------------------------------------------------------------
(* Properties.                                                             *)

\* What calls of send() stand for: the leaves of their parameters, with the
\* number of the call in each frame.
Whole ==
  {[i \in 1 .. Len(Leaves[a]) |-> <<n, Leaves[a][i]>>] :
      n \in 1 .. MaxCalls, a \in SendArgs}

\* The message that a running receive() has taken the first frames of.
Taking == R!Running /\ stored # <<>>

FramesIn(call) == [i \in 1 .. Len(call.stored) |-> call.stored[i].frame]

\* A message is in the channel from the send() of its last frame until the
\* receive() that has taken its first frame returns.
Channel == INSTANCE AtomicChannel WITH
  queue <- IF Taking THEN <<current>> \o pipe ELSE pipe,
  delivered <- [k \in 1 .. Len(received) |-> FramesIn(received[k])]

\* The two sockets implement the channel of README.md: messages composed of
\* any nesting of Sendables are received in full, by any nesting of
\* Receivables, in order, or not at all.
ImplementsChannel == Channel!Spec

\* The receiver may stop for good: its context is being destroyed, or a call
\* has left its socket in the middle of a message.
ReceiverStopped == rcvTerminated \/ (R!Misaligned /\ ~R!Running)

\* Back-pressure ends: what send() returned true for is taken by the receiver,
\* and a send() blocked at the high water mark returns, unless the receiver has
\* stopped for good.
SentIsTaken ==
  \A n \in 1 .. MaxCalls : Len(done) >= n ~> Len(gone) >= n \/ ReceiverStopped
BackPressureEnds == S!Running ~> ~S!Running \/ ReceiverStopped
=============================================================================
