----------------------- MODULE MultipartChannel_proofs -----------------------
(***************************************************************************)
(* The two sockets implement the channel that README.md of CpperoMQ        *)
(* promises, for every set of Sendables and Receivables, every nesting,    *)
(* every high water mark and any number of calls.                          *)
(*                                                                         *)
(* Nothing is proved about a socket again: MultipartSend_proofs and        *)
(* MultipartReceive_proofs are instantiated like the modules they are      *)
(* about.  A step of the receiver is, to the sending socket, a step of its *)
(* peer or none (ReceiverIsPeer); a step of the sender is, to the          *)
(* receiving socket, a message that comes in or nothing (SenderFeeds).     *)
(***************************************************************************)
EXTENDS MultipartChannel, SequenceTheorems, TLAPS

SP == INSTANCE MultipartSend_proofs WITH Calls <- SendArgs, ReuseBroken <- FALSE

RP == INSTANCE MultipartReceive_proofs WITH
        Calls <- ReceiveArgs, ReuseMisaligned <- FALSE,
        Frames <- S!Frames, Lengths <- {}, MaxArrivals <- 0, arrived <- 0,
        args <- rcvArgs, result <- rcvResult, inbox <- pipe,
        terminated <- rcvTerminated

SendInv == SP!IInv /\ SP!LeavesInv
ReceiveInv == RP!IInv /\ RP!LeavesInv
IInv == SendInv /\ ReceiveInv
----------------------------------------------------------------------------
(* The sockets, seen from their own modules.                               *)

\* What those modules assume of their constants.
LEMMA Assumptions ==
  /\ SP!NestingAssumption /\ SP!SendAssumption
  /\ RP!NestingAssumption /\ RP!ReceiveAssumption
<1>1. SP!NestingAssumption
  BY NestingAssumption DEF SP!NestingAssumption, SP!Items, Items
<1>2. SP!SendAssumption
  BY ChannelAssumption DEF SP!SendAssumption, SP!Sendables, SP!Items, Items
<1>3. RP!NestingAssumption
  BY NestingAssumption DEF RP!NestingAssumption, RP!Items, Items
<1>4. RP!ReceiveAssumption
  BY ChannelAssumption DEF RP!ReceiveAssumption, RP!Receivables, RP!Items, Items
<1>5. QED
  BY <1>1, <1>2, <1>3, <1>4

LEMMA SameLeaves == SP!Leaves = Leaves
  BY DEF SP!Leaves, Leaves, SP!Items, Items

\* The initial states and the actions of the sending socket.
LEMMA SenderActions ==
  /\ S!Init <=> SP!Init
  /\ \A a : S!CallSend(a) <=> SP!CallSend(a)
  /\ \A finite : S!SetSendTimeout(finite) <=> SP!SetSendTimeout(finite)
  /\ S!EnterComposite <=> SP!EnterComposite
  /\ S!SendMessage <=> SP!SendMessage
  /\ S!SendTimesOut <=> SP!SendTimesOut
  /\ S!SendTerminated <=> SP!SendTerminated
  /\ S!SendInterrupted <=> SP!SendInterrupted
  /\ S!CompositeFails <=> SP!CompositeFails
  /\ S!TerminateContext <=> SP!TerminateContext
<1> USE DEF S!Running, SP!Running, S!zmqVars, SP!zmqVars, S!history,
            SP!history, S!sockVars, SP!sockVars, S!CanAccept, SP!CanAccept,
            S!GiveUp, SP!GiveUp
<1>1. S!Init <=> SP!Init
  BY DEF S!Init, SP!Init
<1>2. \A a : S!CallSend(a) <=> SP!CallSend(a)
  BY DEF S!CallSend, SP!CallSend, S!ArgumentCalls, SP!ArgumentCalls
<1>3. \A finite : S!SetSendTimeout(finite) <=> SP!SetSendTimeout(finite)
  BY DEF S!SetSendTimeout, SP!SetSendTimeout
<1>4. S!EnterComposite <=> SP!EnterComposite
  BY DEF S!EnterComposite, SP!EnterComposite, S!PartCalls, SP!PartCalls
<1>5. S!SendMessage <=> SP!SendMessage
  BY DEF S!SendMessage, SP!SendMessage, S!ZmqAccept, SP!ZmqAccept,
         S!NextSendable, SP!NextSendable
<1>6. S!SendTimesOut <=> SP!SendTimesOut
  BY DEF S!SendTimesOut, SP!SendTimesOut
<1>7. S!SendTerminated <=> SP!SendTerminated
  BY DEF S!SendTerminated, SP!SendTerminated
<1>8. S!SendInterrupted <=> SP!SendInterrupted
  BY DEF S!SendInterrupted, SP!SendInterrupted
<1>9. S!CompositeFails <=> SP!CompositeFails
  BY DEF S!CompositeFails, SP!CompositeFails
<1>10. S!TerminateContext <=> SP!TerminateContext
  BY DEF S!TerminateContext, SP!TerminateContext
<1>11. QED
  BY <1>1, <1>2, <1>3, <1>4, <1>5, <1>6, <1>7, <1>8, <1>9, <1>10, Zenon

\* And of the receiving one.
LEMMA ReceiverActions ==
  /\ R!Init <=> RP!Init
  /\ R!Running <=> RP!Running
  /\ \A a : R!CallReceive(a) <=> RP!CallReceive(a)
  /\ \A finite : R!SetReceiveTimeout(finite) <=> RP!SetReceiveTimeout(finite)
  /\ R!EnterComposite <=> RP!EnterComposite
  /\ R!ReceiveFrame <=> RP!ReceiveFrame
  /\ R!FinishComposite <=> RP!FinishComposite
  /\ R!CompositeFails <=> RP!CompositeFails
  /\ R!ReceiveTimesOut <=> RP!ReceiveTimesOut
  /\ R!ReceiveTerminated <=> RP!ReceiveTerminated
  /\ R!ReceiveInterrupted <=> RP!ReceiveInterrupted
  /\ R!TerminateContext <=> RP!TerminateContext
<1> USE DEF R!Running, RP!Running, R!zmqVars, RP!zmqVars, R!history,
            RP!history, R!sockVars, RP!sockVars, R!GiveUp, RP!GiveUp,
            R!Misaligned, RP!Misaligned, R!FrameAvailable, RP!FrameAvailable,
            R!AtMessage, RP!AtMessage, R!NextReceivable, RP!NextReceivable,
            R!FlagAgrees, RP!FlagAgrees, R!Receives, RP!Receives
<1>1. (R!Init <=> RP!Init) /\ (R!Running <=> RP!Running)
  BY DEF R!Init, RP!Init
<1>2. \A a : R!CallReceive(a) <=> RP!CallReceive(a)
  BY DEF R!CallReceive, RP!CallReceive
<1>3. \A finite : R!SetReceiveTimeout(finite) <=> RP!SetReceiveTimeout(finite)
  BY DEF R!SetReceiveTimeout, RP!SetReceiveTimeout
<1>4. R!EnterComposite <=> RP!EnterComposite
  BY DEF R!EnterComposite, RP!EnterComposite
<1>5. R!ReceiveFrame <=> RP!ReceiveFrame
  BY DEF R!ReceiveFrame, RP!ReceiveFrame, R!ZmqTake, RP!ZmqTake
<1>6. R!FinishComposite <=> RP!FinishComposite
  BY DEF R!FinishComposite, RP!FinishComposite
<1>7. R!ReceiveTimesOut <=> RP!ReceiveTimesOut
  BY DEF R!ReceiveTimesOut, RP!ReceiveTimesOut
<1>8. R!ReceiveTerminated <=> RP!ReceiveTerminated
  BY DEF R!ReceiveTerminated, RP!ReceiveTerminated
<1>9. R!ReceiveInterrupted <=> RP!ReceiveInterrupted
  BY DEF R!ReceiveInterrupted, RP!ReceiveInterrupted
<1>10. R!TerminateContext <=> RP!TerminateContext
  BY DEF R!TerminateContext, RP!TerminateContext
<1>11. R!CompositeFails <=> RP!CompositeFails
  BY DEF R!CompositeFails, RP!CompositeFails
<1>12. QED
  BY <1>1, <1>2, <1>3, <1>4, <1>5, <1>6, <1>7, <1>8, <1>9, <1>10, <1>11, Zenon
----------------------------------------------------------------------------
(* The steps of one socket, as the other one sees them.                    *)

\* What send() puts into the pipe, if anything, is what one of its calls
\* stands for.
LEMMA SendMessagePuts ==
  ASSUME SendInv, SP!SendMessage
  PROVE  \/ pipe' = pipe
         \/ /\ pipe' = Append(pipe, emitted')
            /\ emitted' \in Whole /\ emitted' \in Seq(S!Frames) \ {<<>>}
<1> DEFINE h == Head(pending)
           frame == <<calls, h.sendable>>
<1>1. /\ pending \in Seq(SP!SendCalls) /\ pending # <<>>
      /\ emitted \in Seq(SP!Frames) /\ args \in Seq(SP!Items)
  BY DEF SendInv, SP!IInv, SP!TypeOK, SP!SendMessage, SP!Running, SP!Sendables
<1>2. /\ emitted' = Append(emitted, frame)
      /\ IF h.moreToSend THEN pipe' = pipe
         ELSE pipe' = Append(pipe, Append(unfinished, frame))
  BY DEF SP!SendMessage, SP!ZmqAccept
<1>3. CASE h.moreToSend
  BY <1>2, <1>3
<1>4. CASE ~h.moreToSend
  <2>1. Tail(pending) = <<>>
    <3>1. /\ h = pending[1] /\ Len(pending) \in Nat \ {0}
          /\ Tail(pending) \in Seq(SP!SendCalls)
          /\ Len(Tail(pending)) = Len(pending) - 1
      BY <1>1, HeadTailProperties, EmptySeq
    <3>2. 1 \in 1 .. Len(pending)
      BY <3>1
    <3>3. pending[1].moreToSend <=> 1 < Len(pending)
      BY <3>2 DEF SendInv, SP!IInv, SP!MoreToSendDiscipline
    <3>4. Len(Tail(pending)) = 0
      BY <1>4, <3>1, <3>3
    <3>5. QED
      BY <3>1, <3>4, EmptySeq
  <2>2. /\ args \in SendArgs /\ calls \in 1 .. MaxCalls
        /\ \A i \in 1 .. Len(emitted') : emitted'[i][1] = calls
        /\ SP!MessagesOf(emitted') = SP!Leaves[args]
    BY <2>1, SP!SendMessageLeaves, Assumptions DEF SendInv
  <2>3. emitted' \in Seq(SP!Frames) /\ emitted' # <<>> /\ Len(emitted') \in Nat
    <3>1. frame \in SP!Frames
      <4>1. h \in SP!SendCalls
        BY <1>1, HeadTailProperties
      <4>2. h.sendable \in Messages
        BY DEF SP!SendMessage
      <4>3. QED
        BY <2>2, <4>2 DEF SP!Frames
    <3> HIDE DEF frame
    <3>2. QED
      BY <1>1, <1>2, <3>1, AppendProperties, LenProperties
  <2>4. unfinished = emitted
    <3>1. unfinished = carried \o emitted /\ carried = <<>>
      BY <1>1 DEF SendInv, SP!IInv, SP!HeldBack, SP!Running
    <3>2. QED
      BY <1>1, <3>1, ConcatEmptySeq
  <2>5. pipe' = Append(pipe, emitted')
    BY <1>2, <1>4, <2>4
  <2>6. emitted' \in Whole
    <3> DEFINE m == [i \in 1 .. Len(Leaves[args]) |-> <<calls, Leaves[args][i]>>]
    <3>1. m \in Whole
      BY <2>2 DEF Whole
    <3>2. SP!MessagesOf(emitted') = Leaves[args]
      BY <2>2, SameLeaves
    <3>3. /\ Leaves[args] = [i \in 1 .. Len(emitted') |-> emitted'[i][2]]
          /\ Len(Leaves[args]) = Len(emitted')
      BY <2>3, <3>2 DEF SP!MessagesOf
    <3>4. ASSUME NEW i \in 1 .. Len(emitted')
          PROVE  emitted'[i] = <<calls, Leaves[args][i]>>
      <4>1. emitted'[i] \in (1 .. MaxCalls) \X Messages
        BY <2>3, ElementOfSeq DEF SP!Frames
      <4>2. emitted'[i] = <<emitted'[i][1], emitted'[i][2]>>
        BY <4>1
      <4>3. emitted'[i][1] = calls
        BY <2>2
      <4>4. Leaves[args][i] = emitted'[i][2]
        BY <3>3
      <4>5. QED
        BY <4>2, <4>3, <4>4, Zenon
    <3>5. emitted' = [i \in 1 .. Len(emitted') |-> emitted'[i]]
      BY <2>3
    <3>6. emitted' = m
      BY <3>3, <3>4, <3>5
    <3>7. QED
      BY <3>1, <3>6, Zenon
  <2>7. SP!Frames = S!Frames
    BY DEF SP!Frames, S!Frames
  <2>8. QED
    BY <2>3, <2>5, <2>6, <2>7
<1>5. QED
  BY <1>3, <1>4

\* To the receiving socket, a step of the sender is a message that comes in, or
\* nothing.
LEMMA SenderFeeds ==
  ASSUME IInv, SenderStep
  PROVE  /\ SendInv'
         /\ UNCHANGED receiveOnly
         /\ \/ pipe' = pipe
            \/ /\ pipe' = Append(pipe, emitted')
               /\ emitted' \in Whole /\ emitted' \in Seq(S!Frames) \ {<<>>}
<1>1. SP!Next
  BY SenderActions DEF SenderStep, SenderSteps, S!Application, S!Library,
     SP!Next, SP!Application, SP!Library
<1>2. SendInv'
  BY <1>1, SP!NextIInv, SP!NextLeavesInv, Assumptions DEF IInv, SendInv
<1>3. SP!SendMessage \/ pipe' = pipe
  BY SenderActions DEF SenderStep, SenderSteps, S!Application, S!Library,
     SP!CallSend, SP!SetSendTimeout, SP!EnterComposite, SP!SendTimesOut,
     SP!SendTerminated, SP!SendInterrupted, SP!CompositeFails,
     SP!TerminateContext, SP!GiveUp, SP!zmqVars
<1>4. QED
  BY <1>2, <1>3, SendMessagePuts DEF IInv, SenderStep

\* To the sending socket, a step of the receiver is its peer's taking a message
\* off the pipe, or nothing.
LEMMA ReceiverIsPeer ==
  ASSUME IInv, ReceiverStep
  PROVE  /\ UNCHANGED sendOnly
         /\ RP!Next
         /\ \/ pipe' = pipe /\ gone' = gone
            \/ SP!PeerTakes
<1>1. UNCHANGED sendOnly /\ Taken
  BY DEF ReceiverStep
<1>2. RP!Next
  BY ReceiverActions DEF ReceiverStep, ReceiverSteps, R!Application, R!Library,
     RP!Next, RP!Application, RP!Library
<1>3. RP!ReceiveFrame \/ pipe' = pipe
  BY ReceiverActions DEF ReceiverStep, ReceiverSteps, R!Application, R!Library,
     RP!CallReceive, RP!SetReceiveTimeout, RP!EnterComposite,
     RP!FinishComposite, RP!CompositeFails, RP!ReceiveTimesOut,
     RP!ReceiveTerminated,
     RP!ReceiveInterrupted, RP!TerminateContext, RP!zmqVars
<1>4. CASE pipe' = pipe
  BY <1>1, <1>2, <1>4 DEF Taken
<1>5. CASE RP!ReceiveFrame /\ pipe' # pipe
  <2>1. pipe # <<>> /\ pipe' = Tail(pipe)
    BY <1>5 DEF RP!ReceiveFrame, RP!ZmqTake, RP!FrameAvailable
  <2>2. gone' = Append(gone, Head(pipe))
    BY <1>1, <1>5 DEF Taken
  <2>3. SP!PeerTakes
    BY <1>1, <2>1, <2>2 DEF SP!PeerTakes, SP!sockVars, sendOnly
  <2>4. QED
    BY <1>1, <1>2, <2>3
<1>6. QED
  BY <1>3, <1>4, <1>5

\* The invariants of both sockets hold when they are connected.
LEMMA InitIInv == Init => IInv
<1> SUFFICES ASSUME Init PROVE IInv
  OBVIOUS
<1>1. SP!Init /\ RP!Init
  BY SenderActions, ReceiverActions DEF Init
<1>2. SendInv
  BY <1>1, SP!InitIInv, SP!InitLeavesInv, Assumptions DEF SendInv
<1>3. ReceiveInv
  BY <1>1, RP!InitIInv, RP!InitLeavesInv, Assumptions DEF ReceiveInv
<1>4. QED
  BY <1>2, <1>3 DEF IInv

LEMMA NextIInv == IInv /\ [Next]_vars => IInv'
<1> SUFFICES ASSUME IInv, [Next]_vars PROVE IInv'
  OBVIOUS
<1>1. CASE SenderStep
  <2>1. SendInv' /\ UNCHANGED receiveOnly
    BY <1>1, SenderFeeds
  <2>2. /\ UNCHANGED <<RP!sockVars, current, read, rcvTerminated, received>>
        /\ received' = received /\ UNCHANGED <<todo, rcvArgs, stored>>
    BY <2>1 DEF receiveOnly, RP!sockVars
  <2>3. RP!LeavesInv'
    BY <2>2, RP!LeavesKept, Assumptions DEF IInv, ReceiveInv
  <2>4. CASE pipe' = pipe
    <3>1. UNCHANGED RP!vars
      BY <2>2, <2>4 DEF RP!vars, RP!zmqVars, RP!history
    <3>2. RP!IInv'
      BY <3>1, RP!NextIInv, Assumptions DEF IInv, ReceiveInv
    <3>3. QED
      BY <2>1, <2>3, <3>2 DEF IInv, ReceiveInv
  <2>5. CASE /\ pipe' = Append(pipe, emitted')
             /\ emitted' \in Seq(S!Frames) \ {<<>>}
    <3>1. emitted' \in RP!WholeMessages /\ 0 \in 0 .. 0
      BY <2>5 DEF RP!WholeMessages
    <3>2. RP!IInv'
      BY <2>2, <2>5, <3>1, RP!InboxGrows, Assumptions DEF IInv, ReceiveInv
    <3>3. QED
      BY <2>1, <2>3, <3>2 DEF IInv, ReceiveInv
  <2>6. QED
    BY <1>1, <2>4, <2>5, SenderFeeds
<1>2. CASE ReceiverStep
  <2>1. /\ UNCHANGED sendOnly /\ RP!Next
        /\ (pipe' = pipe /\ gone' = gone) \/ SP!PeerTakes
    BY <1>2, ReceiverIsPeer
  <2>2. ReceiveInv'
    BY <2>1, RP!NextIInv, RP!NextLeavesInv, Assumptions
       DEF IInv, ReceiveInv
  <2>3. [SP!Next]_SP!vars
    BY <2>1 DEF SP!Next, SP!vars, SP!sockVars, SP!zmqVars, SP!history, sendOnly
  <2>4. SendInv'
    BY <2>3, SP!NextIInv, SP!NextLeavesInv, Assumptions DEF IInv, SendInv
  <2>5. QED
    BY <2>2, <2>4 DEF IInv
<1>3. CASE UNCHANGED vars
  <2>1. UNCHANGED SP!vars /\ UNCHANGED RP!vars
    BY <1>3 DEF vars, sendOnly, receiveOnly, SP!vars, SP!sockVars, SP!zmqVars,
       SP!history, RP!vars, RP!sockVars, RP!zmqVars, RP!history
  <2>2. SendInv'
    BY <2>1, SP!NextIInv, SP!NextLeavesInv, Assumptions DEF IInv, SendInv
  <2>3. ReceiveInv'
    BY <2>1, RP!NextIInv, RP!NextLeavesInv, Assumptions
       DEF IInv, ReceiveInv
  <2>4. QED
    BY <2>2, <2>3 DEF IInv
<1>4. QED
  BY <1>1, <1>2, <1>3 DEF Next

LEMMA Invariance == Spec => []IInv
  BY InitIInv, NextIInv, PTL DEF Spec
----------------------------------------------------------------------------
(* The channel.                                                            *)

Queue == IF Taking THEN <<current>> \o pipe ELSE pipe
Delivered == [k \in 1 .. Len(received) |-> FramesIn(received[k])]

\* Its steps, in terms of these.
LEMMA ChannelMoves ==
  /\ Queue = <<>> /\ Delivered = <<>> => Channel!Init
  /\ \A m \in Whole :
       Queue' = Append(Queue, m) /\ Delivered' = Delivered => Channel!Next
  /\ /\ Queue # <<>> /\ Queue' = Tail(Queue)
     /\ Delivered' = Append(Delivered, Head(Queue)) \/ Delivered' = Delivered
     => Channel!Next
  /\ Queue' = Queue /\ Delivered' = Delivered => UNCHANGED Channel!vars
<1>1. Queue = <<>> /\ Delivered = <<>> => Channel!Init
  BY DEF Channel!Init, Queue, Delivered
<1>2. ASSUME NEW m \in Whole, Queue' = Append(Queue, m), Delivered' = Delivered
      PROVE  Channel!Next
  <2>1. Channel!Put(m)
    BY <1>2 DEF Channel!Put, Queue, Delivered
  <2>2. QED
    BY <2>1 DEF Channel!Next
<1>3. ASSUME Queue # <<>>, Queue' = Tail(Queue),
             Delivered' = Append(Delivered, Head(Queue))
      PROVE  Channel!Next
  <2>1. Channel!Get
    BY <1>3 DEF Channel!Get, Queue, Delivered
  <2>2. QED
    BY <2>1 DEF Channel!Next
<1>4. ASSUME Queue # <<>>, Queue' = Tail(Queue), Delivered' = Delivered
      PROVE  Channel!Next
  <2>1. Channel!Lose
    BY <1>4 DEF Channel!Lose, Queue, Delivered
  <2>2. QED
    BY <2>1 DEF Channel!Next
<1>5. Queue' = Queue /\ Delivered' = Delivered => UNCHANGED Channel!vars
  BY DEF Channel!vars, Queue, Delivered
<1>6. QED
  BY <1>1, <1>2, <1>3, <1>4, <1>5

\* The types on which the rest relies.
LEMMA ChannelTypes ==
  ASSUME ReceiveInv
  PROVE  /\ current \in Seq(S!Frames) /\ pipe \in Seq(Seq(S!Frames))
         /\ received \in Seq(RP!Outcomes)
         /\ todo \in Seq(RP!Steps)
         /\ <<current>> \in Seq(Seq(S!Frames))
<1>1. RP!CallTyped /\ RP!FramesTyped
  BY RP!TypeOKSplits, Assumptions DEF ReceiveInv, RP!IInv
<1>2. pipe \in Seq(RP!WholeMessages) /\ current \in Seq(S!Frames)
  BY <1>1 DEF RP!FramesTyped
<1>3. pipe \in Seq(Seq(S!Frames))
  BY <1>2, SeqMonotonic DEF RP!WholeMessages
<1>4. received \in Seq(RP!Outcomes) /\ todo \in Seq(RP!Steps)
  BY <1>1 DEF RP!CallTyped
<1>5. <<current>> \in Seq(Seq(S!Frames))
  BY <1>2
<1>6. QED
  BY <1>2, <1>3, <1>4, <1>5

\* A message in front of others.
LEMMA InFront ==
  ASSUME NEW m \in Seq(S!Frames), NEW p \in Seq(Seq(S!Frames))
  PROVE  /\ <<m>> \o p # <<>>
         /\ Head(<<m>> \o p) = m /\ Tail(<<m>> \o p) = p
<1> DEFINE q == <<m>> \o p
<1>1. /\ <<m>> \in Seq(Seq(S!Frames)) /\ Len(<<m>>) = 1 /\ <<m>>[1] = m
      /\ Len(p) \in Nat
  BY LenProperties
<1>2. /\ q \in Seq(Seq(S!Frames)) /\ Len(q) = Len(p) + 1
      /\ \A i \in 1 .. Len(p) + 1 : q[i] = IF i <= 1 THEN <<m>>[i] ELSE p[i - 1]
  BY <1>1, ConcatProperties
<1> HIDE DEF q
<1>3. q # <<>>
  BY <1>1, <1>2, EmptySeq
<1>4. /\ Head(q) = q[1] /\ Tail(q) \in Seq(Seq(S!Frames))
      /\ Len(Tail(q)) = Len(p)
      /\ \A i \in 1 .. Len(p) : Tail(q)[i] = q[i + 1]
  BY <1>1, <1>2, <1>3, HeadTailProperties
<1>5. Head(q) = m
  BY <1>1, <1>2, <1>4
<1>6. ASSUME NEW i \in 1 .. Len(p)
      PROVE  Tail(q)[i] = p[i]
  <2>1. i + 1 \in 1 .. Len(p) + 1 /\ ~(i + 1 <= 1) /\ (i + 1) - 1 = i
    BY <1>1
  <2>2. q[i + 1] = p[(i + 1) - 1]
    BY <1>2, <2>1, Zenon
  <2>3. QED
    BY <1>4, <2>1, <2>2, Zenon
<1>7. Tail(q) = p
  BY <1>4, <1>6, SeqEqual
<1>8. QED
  BY <1>3, <1>5, <1>7 DEF q

\* What a call that has returned true delivers is the whole message.
LEMMA DeliversWhole ==
  ASSUME NEW call \in RP!Outcomes, RP!Whole(call)
  PROVE  FramesIn(call) = call.message
<1>1. call.message \in Seq(S!Frames) /\ call.stored \in Seq(RP!Takings)
  BY DEF RP!Outcomes
<1>2. /\ Len(call.stored) = Len(call.message)
      /\ \A i \in 1 .. Len(call.stored) :
           call.stored[i].frame
             = call.message[Len(call.message) - Len(call.stored) + i]
  BY DEF RP!Whole
<1>3. Len(call.message) \in Nat
  BY <1>1, LenProperties
<1>4. ASSUME NEW i \in 1 .. Len(call.message)
      PROVE  call.stored[i].frame = call.message[i]
  <2>1. Len(call.message) - Len(call.message) + i = i
    BY <1>3
  <2>2. QED
    BY <1>2, <2>1
<1>5. FramesIn(call) = [i \in 1 .. Len(call.message) |-> call.message[i]]
  BY <1>2, <1>4 DEF FramesIn
<1>6. call.message = [i \in 1 .. Len(call.message) |-> call.message[i]]
  BY <1>1
<1>7. QED
  BY <1>5, <1>6

\* The sender only ever adds to the queue, and only what a call stands for.
LEMMA SenderPuts ==
  ASSUME IInv, SenderStep
  PROVE  Channel!Next \/ UNCHANGED Channel!vars
<1>1. /\ UNCHANGED receiveOnly
      /\ \/ pipe' = pipe
         \/ /\ pipe' = Append(pipe, emitted')
            /\ emitted' \in Whole /\ emitted' \in Seq(S!Frames) \ {<<>>}
  BY SenderFeeds
<1>2. (Taking' <=> Taking) /\ current' = current /\ Delivered' = Delivered
  BY <1>1 DEF receiveOnly, Taking, R!Running, Delivered, FramesIn
<1>3. CASE pipe' = pipe
  <2>1. Queue' = Queue
    BY <1>2, <1>3 DEF Queue
  <2>2. QED
    BY <1>2, <2>1, ChannelMoves
<1>4. CASE /\ pipe' = Append(pipe, emitted')
           /\ emitted' \in Whole /\ emitted' \in Seq(S!Frames) \ {<<>>}
  <2>1. Queue' = Append(Queue, emitted')
    <3>1. CASE Taking
      <4>1. /\ pipe \in Seq(Seq(S!Frames)) /\ <<current>> \in Seq(Seq(S!Frames))
            /\ emitted' \in Seq(S!Frames)
        BY <1>4, ChannelTypes DEF IInv
      <4>2. <<current>> \o Append(pipe, emitted') = Append(<<current>> \o pipe, emitted')
        BY <4>1, SP!ConcatAppend, Assumptions
      <4>3. QED
        BY <1>2, <1>4, <3>1, <4>2 DEF Queue
    <3>2. CASE ~Taking
      BY <1>2, <1>4, <3>2 DEF Queue
    <3>3. QED
      BY <3>1, <3>2
  <2>2. QED
    BY <1>2, <1>4, <2>1, ChannelMoves
<1>5. QED
  BY <1>1, <1>3, <1>4

\* A running call has the message that is first in the queue in hand: it goes
\* on, it returns true with the message, or it gives the message up.
LEMMA MessageInHand ==
  ASSUME ReceiveInv', RP!CallTyped, Queue = <<current'>> \o pipe',
         stored' # <<>>,
         RP!NextReceivable \/ (\E outcome \in {"false", "throw"} : RP!GiveUp(outcome))
  PROVE  Channel!Next \/ UNCHANGED Channel!vars
<1>1. current' \in Seq(S!Frames) /\ pipe' \in Seq(Seq(S!Frames))
  <2>1. S!Frames' = S!Frames
    BY DEF S!Frames
  <2>2. /\ current' \in Seq(S!Frames)
        /\ pipe' \in Seq(Seq(S!Frames) \ {<<>>})
    BY <2>1 DEF ReceiveInv, RP!IInv, RP!TypeOK
  <2>3. QED
    BY <2>2, SeqMonotonic
<1>2. Queue # <<>> /\ Head(Queue) = current' /\ Tail(Queue) = pipe'
  BY <1>1, InFront
<1>3. CASE received' = received /\ todo' # <<>>
  <2>1. Taking' /\ Delivered' = Delivered
    BY <1>3 DEF Taking, R!Running, Delivered, FramesIn
  <2>2. Queue' = Queue
    BY <2>1 DEF Queue
  <2>3. QED
    BY <2>1, <2>2, ChannelMoves
<1>4. CASE received' = received /\ todo' = <<>>
  <2>1. ~Taking' /\ Delivered' = Delivered
    BY <1>4 DEF Taking, R!Running, Delivered, FramesIn
  <2>2. Queue' = Tail(Queue)
    BY <1>2, <2>1 DEF Queue
  <2>3. QED
    BY <1>2, <2>1, <2>2, ChannelMoves
<1>5. CASE /\ todo' = <<>>
           /\ received' = Append(received, [args |-> rcvArgs, stored |-> stored',
                                            message |-> current'])
  <2> DEFINE call == [args |-> rcvArgs, stored |-> stored', message |-> current']
  <2>1. ~Taking'
    BY <1>5 DEF Taking, R!Running
  <2>2. Queue' = Tail(Queue)
    BY <1>2, <2>1 DEF Queue
  <2>3. /\ Len(received) \in Nat /\ Len(received') = Len(received) + 1
        /\ \A k \in 1 .. Len(received) : received'[k] = received[k]
        /\ received'[Len(received) + 1] = call
    <3>1. received \in Seq(RP!Outcomes \cup {call}) /\ call \in RP!Outcomes \cup {call}
      BY SeqMonotonic DEF RP!CallTyped
    <3> HIDE DEF call
    <3>2. received' = Append(received, call)
      BY <1>5 DEF call
    <3>3. QED
      BY <3>1, <3>2, AppendProperties, LenProperties
  <2>4. FramesIn(call) = current'
    <3>1. Len(received) + 1 \in 1 .. Len(received')
      BY <2>3
    <3>2. RP!Whole(received'[Len(received) + 1])
      BY <3>1 DEF ReceiveInv, RP!IInv, RP!TrueMeansWhole, RP!Whole
    <3>3. received'[Len(received) + 1] \in RP!Outcomes
      <4>1. received' \in Seq(RP!Outcomes)
        BY DEF ReceiveInv, RP!IInv, RP!TypeOK, RP!Outcomes, RP!Takings, S!Frames
      <4>2. QED
        BY <3>1, <4>1, ElementOfSeq
    <3>4. FramesIn(call) = call.message
      BY <2>3, <3>2, <3>3, DeliversWhole
    <3>5. QED
      BY <3>4 DEF call
  <2> HIDE DEF call
  <2>5. Delivered' = Append(Delivered, Head(Queue))
    <3>1. /\ Delivered' = [k \in 1 .. Len(received') |-> FramesIn(received'[k])]
          /\ Delivered = [k \in 1 .. Len(received) |-> FramesIn(received[k])]
      BY DEF Delivered, FramesIn
    <3>2. QED
      BY <1>2, <2>3, <2>4, <3>1
  <2>6. QED
    BY <1>2, <2>2, <2>5, ChannelMoves
<1>6. QED
  BY <1>3, <1>4, <1>5 DEF RP!NextReceivable, RP!GiveUp

\* A frame is taken: of the message in hand, or of the first one in the pipe,
\* which is in hand from then on.
LEMMA FrameInHand ==
  ASSUME IInv, RP!ReceiveFrame
  PROVE  Queue = <<current'>> \o pipe' /\ stored' # <<>>
<1>1. /\ todo \in Seq(RP!Steps) /\ todo # <<>> /\ RP!Running /\ R!Running
      /\ todo[1].op = "receive"
  <2>1. todo \in Seq(RP!Steps)
    BY ChannelTypes DEF IInv
  <2>2. todo # <<>> /\ Head(todo).op = "receive"
    BY DEF RP!ReceiveFrame, RP!AtMessage, RP!Running
  <2>3. Head(todo) = todo[1]
    BY <2>1, <2>2, HeadTailProperties
  <2>4. QED
    BY <2>1, <2>2, <2>3 DEF RP!Running, R!Running
<1>2. /\ stored # <<>> => RP!Misaligned
      /\ stored = <<>> => ~RP!Misaligned
  BY <1>1 DEF IInv, ReceiveInv, RP!IInv, RP!FlagFollowed, RP!FromTheStart
<1>3. stored' # <<>>
  <2>1. RP!TypeOK /\ RP!FlagFollowed /\ RP!FromTheStart /\ RP!CallWithinOneMessage
    BY DEF IInv, ReceiveInv, RP!IInv
  <2>2. QED
    BY <2>1, RP!FrameTaken, Assumptions
<1>4. CASE RP!Misaligned
  <2>1. Taking
    BY <1>1, <1>2, <1>4 DEF Taking
  <2>2. current' = current /\ pipe' = pipe
    BY <1>4 DEF RP!ReceiveFrame, RP!ZmqTake
  <2>3. QED
    BY <1>3, <2>1, <2>2 DEF Queue
<1>5. CASE ~RP!Misaligned
  <2>1. ~Taking
    BY <1>2, <1>5 DEF Taking
  <2>2. pipe # <<>> /\ current' = Head(pipe) /\ pipe' = Tail(pipe)
    BY <1>5 DEF RP!ReceiveFrame, RP!ZmqTake, RP!FrameAvailable
  <2>3. pipe \in Seq(Seq(S!Frames))
    BY ChannelTypes DEF IInv
  <2>4. <<Head(pipe)>> \o Tail(pipe) = pipe
    <3>1. Append(<<>>, Head(pipe)) \o Tail(pipe) = <<>> \o pipe
      BY <2>2, <2>3, EmptySeq, SP!MoveHead, Assumptions
    <3>2. Append(<<>>, Head(pipe)) = <<Head(pipe)>> /\ <<>> \o pipe = pipe
      BY <2>3, ConcatEmptySeq
    <3>3. QED
      BY <3>1, <3>2
  <2>5. QED
    BY <1>3, <2>1, <2>2, <2>4 DEF Queue
<1>6. QED
  BY <1>4, <1>5

\* A call of receive() that has nothing to do with the channel.
LEMMA NothingMoves ==
  ASSUME UNCHANGED <<current, pipe, received>>, Taking' <=> Taking
  PROVE  UNCHANGED Channel!vars
<1>1. Queue' = Queue /\ Delivered' = Delivered
  BY DEF Queue, Delivered, FramesIn
<1>2. QED
  BY <1>1, ChannelMoves

\* The receiver gets or loses the first message of the queue, whole.
LEMMA ReceiverGets ==
  ASSUME IInv, IInv', ReceiverStep
  PROVE  Channel!Next \/ UNCHANGED Channel!vars
<1>1. RP!CallTyped
  BY RP!TypeOKSplits, Assumptions DEF IInv, ReceiveInv, RP!IInv
<1>2. ReceiveInv'
  BY DEF IInv
<1>3. ASSUME NEW a \in ReceiveArgs, RP!CallReceive(a)
      PROVE  Channel!Next \/ UNCHANGED Channel!vars
  <2>1. ~Taking /\ ~Taking' /\ UNCHANGED <<current, pipe, received>>
    BY <1>3 DEF RP!CallReceive, RP!Running, R!Running, RP!zmqVars, RP!history,
       Taking
  <2>2. QED
    BY <2>1, NothingMoves
<1>4. ASSUME NEW finite \in BOOLEAN, RP!SetReceiveTimeout(finite)
      PROVE  Channel!Next \/ UNCHANGED Channel!vars
  <2>1. (Taking' <=> Taking) /\ UNCHANGED <<current, pipe, received>>
    BY <1>4 DEF RP!SetReceiveTimeout, R!Running, RP!zmqVars, RP!history, Taking
  <2>2. QED
    BY <2>1, NothingMoves
<1>5. CASE RP!EnterComposite
  <2>1. RP!TodoShape /\ todo \in Seq(RP!Steps)
    BY <1>1 DEF IInv, ReceiveInv, RP!IInv, RP!CallTyped
  <2>2. todo # <<>> /\ todo' # <<>>
    BY <1>5, <2>1, RP!EnterKeepsShape, Assumptions DEF RP!EnterComposite, RP!Running
  <2>3. UNCHANGED <<current, pipe, received, stored>>
    BY <1>5 DEF RP!EnterComposite, RP!zmqVars, RP!history
  <2>4. QED
    BY <2>2, <2>3, NothingMoves DEF Taking, R!Running
<1>6. CASE RP!ReceiveFrame
  <2>1. Queue = <<current'>> \o pipe' /\ stored' # <<>>
    BY <1>6, FrameInHand
  <2>2. RP!NextReceivable
    BY <1>6 DEF RP!ReceiveFrame
  <2>3. QED
    BY <1>1, <1>2, <2>1, <2>2, MessageInHand
<1>7. CASE RP!FinishComposite
  <2>1. /\ todo # <<>> /\ Head(todo).op = "finish"
        /\ UNCHANGED <<current, pipe, stored>> /\ RP!NextReceivable
    BY <1>7 DEF RP!FinishComposite, RP!Running, RP!zmqVars
  <2>2. stored # <<>>
    <3>1. todo \in Seq(RP!Steps)
      BY <1>1 DEF RP!CallTyped
    <3>2. Head(todo) = todo[1]
      BY <2>1, <3>1, HeadTailProperties
    <3>3. QED
      BY <2>1, <3>2 DEF IInv, ReceiveInv, RP!IInv, RP!FlagFollowed, RP!Running
  <2>3. Taking
    BY <2>1, <2>2 DEF Taking, R!Running
  <2>4. Queue = <<current'>> \o pipe' /\ stored' # <<>>
    BY <2>1, <2>2, <2>3 DEF Queue
  <2>5. QED
    BY <1>1, <1>2, <2>1, <2>4, MessageInHand
<1>8. CASE \/ RP!CompositeFails \/ RP!ReceiveTimesOut \/ RP!ReceiveTerminated
           \/ RP!ReceiveInterrupted
  <2>1. /\ UNCHANGED <<current, pipe, received, stored>>
        /\ todo' = <<>>
        /\ \E outcome \in {"false", "throw"} : RP!GiveUp(outcome)
    BY <1>8 DEF RP!CompositeFails, RP!ReceiveTimesOut, RP!ReceiveTerminated,
       RP!ReceiveInterrupted, RP!GiveUp, RP!zmqVars
  <2>2. CASE Taking
    <3>1. Queue = <<current'>> \o pipe' /\ stored' # <<>>
      BY <2>1, <2>2 DEF Queue, Taking
    <3>2. QED
      BY <1>1, <1>2, <2>1, <3>1, MessageInHand
  <2>3. CASE ~Taking
    <3>1. ~Taking'
      BY <2>1 DEF Taking, R!Running
    <3>2. QED
      BY <2>1, <2>3, <3>1, NothingMoves
  <2>4. QED
    BY <2>2, <2>3
<1>9. CASE RP!TerminateContext
  <2>1. (Taking' <=> Taking) /\ UNCHANGED <<current, pipe, received>>
    BY <1>9 DEF RP!TerminateContext, R!Running, RP!sockVars, RP!history, Taking
  <2>2. QED
    BY <2>1, NothingMoves
<1>10. QED
  BY <1>3, <1>4, <1>5, <1>6, <1>7, <1>8, <1>9, ReceiverActions
     DEF ReceiverStep, ReceiverSteps, R!Application, R!Library
----------------------------------------------------------------------------
(* Theorems.                                                               *)

\* README.md: a multipart message is "either received in full or not received
\* at all".  Each message of a call of send() that returned true is delivered
\* whole, by one call of receive(), in the order sent and at most once, or is
\* lost whole: whatever the two threads do within their calls, and whichever of
\* those fail.
THEOREM ChannelImplemented == Spec => ImplementsChannel
<1>1. Init => Channel!Init
  <2> SUFFICES ASSUME Init PROVE Channel!Init
    OBVIOUS
  <2>1. pipe = <<>> /\ received = <<>> /\ stored = <<>>
    BY DEF Init, R!Init
  <2>2. Queue = <<>>
    BY <2>1 DEF Queue, Taking
  <2>3. Delivered = <<>>
    BY <2>1 DEF Delivered
  <2>4. QED
    BY <2>2, <2>3, ChannelMoves
<1>2. IInv /\ IInv' /\ [Next]_vars => [Channel!Next]_Channel!vars
  <2> SUFFICES ASSUME IInv, IInv', [Next]_vars
               PROVE  Channel!Next \/ UNCHANGED Channel!vars
    OBVIOUS
  <2>1. CASE SenderStep
    BY <2>1, SenderPuts
  <2>2. CASE ReceiverStep
    BY <2>2, ReceiverGets
  <2>3. CASE UNCHANGED vars
    <3>1. UNCHANGED <<current, pipe, received>> /\ (Taking' <=> Taking)
      BY <2>3 DEF vars, receiveOnly, Taking, R!Running
    <3>2. QED
      BY <3>1, NothingMoves
  <2>4. QED
    BY <2>1, <2>2, <2>3 DEF Next
<1>3. QED
  BY <1>1, <1>2, Invariance, PTL DEF Spec, Channel!Spec, ImplementsChannel

\* And what is delivered has been taken into the leaves of the receiver's
\* parameters, in order and each once.
THEOREM DeliveredToLeaves == Spec => []R!FilledLeaves
<1>1. IInv => R!FilledLeaves
  BY DEF IInv, ReceiveInv, RP!LeavesInv, RP!FilledLeaves, R!FilledLeaves,
     RP!Filled, R!Filled, RP!Leaves, R!Leaves, RP!Items, R!Items
<1>2. QED
  BY <1>1, Invariance, PTL
=============================================================================
