------------------------ MODULE MultipartSend_proofs ------------------------
(***************************************************************************)
(* Proofs about MultipartSend, for every set of Sendables, every nesting   *)
(* of composites, every high water mark and any number of calls.           *)
(*                                                                         *)
(* AtomicSend is not inductive: that a call which returns true has flushed *)
(* its frames as one message depends on what libzmq has held back while    *)
(* the call ran (HeldBack), and on the flag's being cleared for the last   *)
(* frame and for no other one (MoreToSendDiscipline).                      *)
(*                                                                         *)
(* That a call puts exactly the leaves of its parameters on the socket     *)
(* follows from OnTheWay: what is emitted and what is still to be sent     *)
(* stand, in this order, for the parameters.                               *)
(***************************************************************************)
EXTENDS MultipartSend, SequenceTheorems, WellFoundedInduction, TLAPS

IInv == TypeOK /\ MoreToSendDiscipline /\ HeldBack /\ AtomicSend

----------------------------------------------------------------------------
(* Sequences.                                                              *)

\* Moving the head of t to the end of s does not change s \o t.
LEMMA MoveHead ==
  ASSUME NEW S, NEW s \in Seq(S), NEW t \in Seq(S), t # <<>>
  PROVE  Append(s, Head(t)) \o Tail(t) = s \o t
<1>1. /\ Head(t) \in S /\ Head(t) = t[1] /\ Tail(t) \in Seq(S)
      /\ Len(t) \in Nat \ {0} /\ Len(Tail(t)) = Len(t) - 1
      /\ \A i \in 1 .. Len(Tail(t)) : Tail(t)[i] = t[i + 1]
  BY HeadTailProperties, EmptySeq
<1>2. <<Head(t)>> \in Seq(S) /\ Len(<<Head(t)>>) = 1 /\ <<Head(t)>>[1] = t[1]
  BY <1>1
<1>3. <<Head(t)>> \o Tail(t) = t
  <2> DEFINE u == <<Head(t)>> \o Tail(t)
  <2>1. /\ u \in Seq(S) /\ Len(u) = Len(t)
        /\ \A i \in 1 .. Len(t) :
             u[i] = IF i <= 1 THEN <<Head(t)>>[i] ELSE Tail(t)[i - 1]
    BY <1>1, <1>2, ConcatProperties
  <2> HIDE DEF u
  <2>2. \A i \in 1 .. Len(t) : u[i] = t[i]
    BY <1>1, <1>2, <2>1
  <2>3. u = t
    BY <2>1, <2>2, SeqEqual
  <2>4. QED
    BY <2>3 DEF u
<1>4. Append(s, Head(t)) = s \o <<Head(t)>>
  BY <1>1, AppendIsConcat
<1>5. QED
  BY <1>1, <1>2, <1>3, <1>4, ConcatAssociative

\* Appending to t appends to s \o t.
LEMMA ConcatAppend ==
  ASSUME NEW S, NEW s \in Seq(S), NEW t \in Seq(S), NEW e \in S
  PROVE  s \o Append(t, e) = Append(s \o t, e)
<1>1. /\ Append(t, e) = t \o <<e>> /\ <<e>> \in Seq(S)
      /\ s \o t \in Seq(S)
  BY AppendIsConcat, ConcatProperties
<1>2. Append(s \o t, e) = (s \o t) \o <<e>>
  BY <1>1, AppendIsConcat
<1>3. QED
  BY <1>1, <1>2, ConcatAssociative
----------------------------------------------------------------------------
(* The flag `moreToSend'.                                                  *)

\* The parameters of socket.send() as send() calls: typed, and told about what
\* follows as the discipline asks (SendingSocket.hpp:87).
LEMMA ArgumentCallsWellFormed ==
  ASSUME NEW a \in Calls
  PROVE  /\ ArgumentCalls(a) \in Seq(SendCalls)
         /\ ArgumentCalls(a) # <<>>
         /\ \A i \in 1 .. Len(ArgumentCalls(a)) :
              ArgumentCalls(a)[i].moreToSend <=> i < Len(ArgumentCalls(a))
<1>1. a \in Seq(Sendables) /\ a # <<>>
  BY SendAssumption
<1>2. Len(a) \in Nat \ {0} /\ \A i \in 1 .. Len(a) : a[i] \in Sendables
  BY <1>1, EmptySeq, ElementOfSeq
<1>3. ArgumentCalls(a) \in [1 .. Len(a) -> SendCalls]
  BY <1>2 DEF ArgumentCalls, SendCalls
<1>4. ArgumentCalls(a) \in Seq(SendCalls) /\ Len(ArgumentCalls(a)) = Len(a)
  BY <1>2, <1>3, SeqDef
<1>5. QED
  BY <1>2, <1>4 DEF ArgumentCalls

\* The parts of a composite as send() calls: typed, and all told that more
\* follows but the last, which is told what the composite was told.
LEMMA PartCallsWellFormed ==
  ASSUME NEW c \in Composites, NEW more \in BOOLEAN
  PROVE  /\ PartCalls(c, more) \in Seq(SendCalls)
         /\ Len(PartCalls(c, more)) \in Nat \ {0}
         /\ \A i \in 1 .. Len(PartCalls(c, more)) :
              PartCalls(c, more)[i].moreToSend
                <=> (i < Len(PartCalls(c, more)) \/ more)
<1>1. Parts[c] \in Seq(Sendables) /\ Parts[c] # <<>>
  BY NestingAssumption DEF Sendables
<1>2. Len(Parts[c]) \in Nat \ {0}
      /\ \A i \in 1 .. Len(Parts[c]) : Parts[c][i] \in Sendables
  BY <1>1, EmptySeq, ElementOfSeq
<1>3. PartCalls(c, more) \in [1 .. Len(Parts[c]) -> SendCalls]
  BY <1>2 DEF PartCalls, SendCalls
<1>4. /\ PartCalls(c, more) \in Seq(SendCalls)
      /\ Len(PartCalls(c, more)) = Len(Parts[c])
  BY <1>2, <1>3, SeqDef
<1>5. QED
  BY <1>2, <1>4 DEF PartCalls

\* Entering a composite keeps the discipline at every depth of nesting.
LEMMA EnterKeepsDiscipline ==
  ASSUME TypeOK, MoreToSendDiscipline, EnterComposite
  PROVE  /\ pending' \in Seq(SendCalls)
         /\ pending' # <<>>
         /\ MoreToSendDiscipline'
<1> DEFINE c == Head(pending).sendable
           more == Head(pending).moreToSend
           parts == PartCalls(c, more)
           rest == Tail(pending)
<1>1. /\ pending \in Seq(SendCalls) /\ pending # <<>>
      /\ c \in Composites
      /\ pending' = parts \o rest
  BY DEF TypeOK, EnterComposite, Running
<1>2. /\ Head(pending) \in SendCalls /\ Head(pending) = pending[1]
      /\ Len(pending) \in Nat \ {0}
      /\ rest \in Seq(SendCalls) /\ Len(rest) = Len(pending) - 1
      /\ \A i \in 1 .. Len(rest) : rest[i] = pending[i + 1]
  BY <1>1, HeadTailProperties, EmptySeq
<1>3. more \in BOOLEAN
  BY <1>2 DEF SendCalls
<1>4. /\ parts \in Seq(SendCalls)
      /\ Len(parts) \in Nat \ {0}
      /\ \A i \in 1 .. Len(parts) :
           parts[i].moreToSend <=> (i < Len(parts) \/ more)
  BY <1>1, <1>3, PartCallsWellFormed
<1>5. /\ pending' \in Seq(SendCalls)
      /\ Len(pending') = Len(parts) + Len(rest)
      /\ \A i \in 1 .. Len(parts) + Len(rest) :
           pending'[i] = IF i <= Len(parts) THEN parts[i]
                                            ELSE rest[i - Len(parts)]
  BY <1>1, <1>2, <1>4, ConcatProperties
<1>6. more <=> 1 < Len(pending)
  BY <1>2 DEF MoreToSendDiscipline
<1>7. ASSUME NEW i \in 1 .. Len(pending')
      PROVE  pending'[i].moreToSend <=> i < Len(pending')
  <2>1. CASE i <= Len(parts)
    BY <1>2, <1>4, <1>5, <1>6, <2>1
  <2>2. CASE i > Len(parts)
    <3>1. i - Len(parts) \in 1 .. Len(rest)
      BY <1>2, <1>4, <1>5, <2>2
    <3>2. /\ pending'[i] = pending[i - Len(parts) + 1]
          /\ i - Len(parts) + 1 \in 1 .. Len(pending)
      BY <1>2, <1>4, <1>5, <2>2, <3>1
    <3>3. pending'[i].moreToSend <=> i - Len(parts) + 1 < Len(pending)
      BY <3>2 DEF MoreToSendDiscipline
    <3>4. QED
      BY <1>2, <1>4, <1>5, <3>3
  <2>3. QED
    BY <1>2, <1>4, <1>5, <2>1, <2>2
<1>8. Len(pending') # 0
  BY <1>2, <1>4, <1>5
<1>9. QED
  BY <1>5, <1>7, <1>8, EmptySeq DEF MoreToSendDiscipline
----------------------------------------------------------------------------
(* The steps of the sending socket.                                        *)

\* Every message in the channel is that of a call, so HeldBack and AtomicSend
\* speak of sequences of frames.
LEMMA SequenceTypes ==
  ASSUME TypeOK
  PROVE  /\ unfinished \in Seq(Frames) /\ emitted \in Seq(Frames)
         /\ carried \in Seq(Frames)
         /\ pipe \in Seq(Seq(Frames)) /\ gone \in Seq(Seq(Frames))
         /\ Flushed \in Seq(Seq(Frames))
         /\ Len(Flushed) = Len(gone) + Len(pipe)
BY ConcatProperties DEF TypeOK, Flushed

LEMMA InitIInv == Init => IInv
<1> SUFFICES ASSUME Init PROVE IInv
  OBVIOUS
<1>1. TypeOK
  <2>1. /\ pending \in Seq(SendCalls) /\ args \in Seq(Sendables)
        /\ emitted \in Seq(Frames) /\ unfinished \in Seq(Frames)
        /\ carried \in Seq(Frames)
        /\ pipe \in Seq(Seq(Frames)) /\ gone \in Seq(Seq(Frames))
        /\ done \in Seq([args : Seq(Sendables), carried : Seq(Frames),
                         frames : Seq(Frames)])
    BY EmptySeq DEF Init
  <2>2. Len(pipe) <= HighWaterMark /\ calls \in 0 .. MaxCalls
    BY SendAssumption DEF Init
  <2>3. QED
    BY <2>1, <2>2 DEF Init, TypeOK, Running, Results
<1>2. MoreToSendDiscipline
  BY DEF Init, MoreToSendDiscipline
<1>3. HeldBack
  BY DEF Init, HeldBack, Running
<1>4. AtomicSend
  BY DEF Init, AtomicSend, Flushed
<1>5. QED
  BY <1>1, <1>2, <1>3, <1>4 DEF IInv

\* The application calls send(): what libzmq holds back is what it carries.
LEMMA CallSendStep ==
  ASSUME IInv, NEW a \in Calls, CallSend(a)
  PROVE  IInv'
<1> USE DEF CallSend, zmqVars
<1>1. /\ pending' = ArgumentCalls(a) /\ pending' # <<>>
      /\ pending' \in Seq(SendCalls)
      /\ MoreToSendDiscipline'
  BY ArgumentCallsWellFormed DEF MoreToSendDiscipline
<1>2. a \in Seq(Sendables)
  BY SendAssumption
<1>3. calls' \in 1 .. MaxCalls
  BY SendAssumption DEF IInv, TypeOK
<1>4. TypeOK'
  <2>1. Frames' = Frames
    BY DEF Frames
  <2>2. emitted' \in Seq(Frames)
    BY EmptySeq
  <2>3. QED
    BY <1>1, <1>2, <1>3, <2>1, <2>2 DEF IInv, TypeOK, Results, Running
<1>5. HeldBack'
  <2>1. unfinished = unfinished \o <<>>
    BY SequenceTypes, ConcatEmptySeq DEF IInv
  <2>2. QED
    BY <1>1, <1>3, <2>1 DEF IInv, HeldBack, Running
<1>6. AtomicSend'
  BY DEF IInv, AtomicSend, Flushed
<1>7. QED
  BY <1>1, <1>4, <1>5, <1>6 DEF IInv

LEMMA EnterCompositeStep ==
  ASSUME IInv, EnterComposite
  PROVE  IInv'
<1>1. /\ pending' \in Seq(SendCalls) /\ pending' # <<>>
      /\ MoreToSendDiscipline'
  BY EnterKeepsDiscipline DEF IInv
<1>2. UNCHANGED <<calls, args, emitted, result, sndTimeout, zmqVars, history>>
  BY DEF EnterComposite
<1>3. pending # <<>>
  BY DEF EnterComposite, Running
<1>4. TypeOK'
  BY <1>1, <1>2, <1>3 DEF IInv, TypeOK, Running, zmqVars, history
<1>5. HeldBack' /\ AtomicSend'
  BY <1>1, <1>2, <1>3
  DEF IInv, HeldBack, AtomicSend, Flushed, Running, zmqVars, history
<1>6. QED
  BY <1>1, <1>4, <1>5 DEF IInv

\* A call that gives up leaves what libzmq holds back to the next call.
LEMMA GiveUpStep ==
  ASSUME IInv, NEW outcome \in {"false", "throw"}, GiveUp(outcome)
  PROVE  IInv'
<1> USE DEF GiveUp, zmqVars, history
<1>1. TypeOK'
  <2>1. pending' \in Seq(SendCalls)
    BY EmptySeq
  <2>2. QED
    BY <2>1 DEF IInv, TypeOK, Running, Results
<1>2. MoreToSendDiscipline'
  BY DEF MoreToSendDiscipline
<1>3. HeldBack' /\ AtomicSend'
  BY DEF IInv, HeldBack, AtomicSend, Flushed, Running
<1>4. QED
  BY <1>1, <1>2, <1>3 DEF IInv

\* The peer's taking a message moves it from the pipe to gone.
LEMMA PeerTakesStep ==
  ASSUME IInv, PeerTakes
  PROVE  IInv'
<1> USE DEF PeerTakes, sockVars
<1>1. /\ pipe \in Seq(Seq(Frames)) /\ pipe # <<>> /\ gone \in Seq(Seq(Frames))
  BY DEF IInv, TypeOK
<1>2. /\ Head(pipe) \in Seq(Frames) /\ Head(pipe) = pipe[1]
      /\ pipe' \in Seq(Seq(Frames)) /\ Len(pipe') = Len(pipe) - 1
      /\ Len(pipe) \in Nat \ {0}
      /\ \A i \in 1 .. Len(pipe') : pipe'[i] = pipe[i + 1]
  BY <1>1, HeadTailProperties, EmptySeq
<1>3. /\ gone' \in Seq(Seq(Frames)) /\ Len(gone') = Len(gone) + 1
      /\ \A i \in 1 .. Len(gone) : gone'[i] = gone[i]
      /\ gone'[Len(gone) + 1] = pipe[1]
  BY <1>1, <1>2, AppendProperties
<1>4. Flushed' = Flushed
  BY <1>1, MoveHead DEF Flushed
<1>5. TypeOK'
  BY <1>2, <1>3, SendAssumption DEF IInv, TypeOK, Running
<1>6. MoreToSendDiscipline'
  BY DEF IInv, MoreToSendDiscipline
<1>7. HeldBack'
  BY <1>2, SendAssumption DEF IInv, HeldBack, Running
<1>8. AtomicSend'
  BY <1>4 DEF IInv, AtomicSend
<1>9. QED
  BY <1>5, <1>6, <1>7, <1>8 DEF IInv

\* libzmq accepts a frame.  On all but the last the flag is set and the frame
\* is held back; on the last it is not, the message goes to the pipe and the
\* call returns true.
LEMMA SendMessageStep ==
  ASSUME IInv, SendMessage
  PROVE  IInv'
<1> DEFINE message == Head(pending).sendable
           more == Head(pending).moreToSend
           frame == <<calls, message>>
           call == [args |-> args, carried |-> carried, frames |-> emitted']
<1>1. /\ pending \in Seq(SendCalls) /\ pending # <<>> /\ message \in Messages
      /\ CanAccept
      /\ emitted' = Append(emitted, frame) /\ ZmqAccept(frame, more)
      /\ pending' = Tail(pending)
      /\ IF Tail(pending) = <<>>
         THEN result' = "true" /\ done' = Append(done, call)
         ELSE UNCHANGED <<result, done>>
      /\ UNCHANGED <<calls, args, sndTimeout, terminated, carried, gone>>
  BY DEF IInv, TypeOK, SendMessage, NextSendable, Running
<1>2. /\ Head(pending) = pending[1] /\ Len(pending) \in Nat \ {0}
      /\ Head(pending) \in SendCalls
      /\ pending' \in Seq(SendCalls) /\ Len(pending') = Len(pending) - 1
      /\ \A i \in 1 .. Len(pending') : pending'[i] = pending[i + 1]
  BY <1>1, HeadTailProperties, EmptySeq
<1>3. MoreToSendDiscipline'
  BY <1>2 DEF IInv, MoreToSendDiscipline
<1>4. more <=> Tail(pending) # <<>>
  <2>1. more <=> 1 < Len(pending)
    BY <1>2 DEF IInv, MoreToSendDiscipline
  <2>2. Tail(pending) = <<>> <=> Len(pending') = 0
    BY <1>1, <1>2, EmptySeq
  <2>3. QED
    BY <1>2, <2>1, <2>2
<1>5. calls \in 1 .. MaxCalls /\ frame \in Frames
  BY <1>1 DEF IInv, HeldBack, TypeOK, Running, Frames
<1> HIDE DEF frame, call
<1>6. /\ unfinished \in Seq(Frames) /\ emitted \in Seq(Frames)
      /\ carried \in Seq(Frames)
      /\ pipe \in Seq(Seq(Frames)) /\ gone \in Seq(Seq(Frames))
      /\ Len(pipe) \in Nat /\ Len(pipe) <= HighWaterMark
      /\ done \in Seq([args : Seq(Sendables), carried : Seq(Frames),
                       frames : Seq(Frames)])
      /\ args \in Seq(Sendables) /\ result = "running"
  BY <1>1, LenProperties DEF IInv, TypeOK, Running
<1>7. /\ emitted' \in Seq(Frames)
      /\ Append(unfinished, frame) \in Seq(Frames)
      /\ Append(unfinished, frame) = carried \o emitted'
  <2>1. unfinished = carried \o emitted
    BY <1>1 DEF IInv, HeldBack, Running
  <2>2. /\ emitted' \in Seq(Frames)
        /\ Append(unfinished, frame) \in Seq(Frames)
    BY <1>1, <1>5, <1>6, AppendProperties
  <2>3. carried \o Append(emitted, frame) = Append(carried \o emitted, frame)
    BY <1>5, <1>6, ConcatAppend
  <2>4. QED
    BY <1>1, <2>1, <2>2, <2>3
<1>8. Len(pipe) < HighWaterMark
  BY <1>1, <1>6 DEF CanAccept, IInv, HeldBack
<1>9. CASE more
  <2>1. /\ unfinished' = Append(unfinished, frame) /\ pipe' = pipe
        /\ result' = result /\ done' = done /\ pending' # <<>>
    BY <1>1, <1>4, <1>9 DEF ZmqAccept
  <2>2. TypeOK'
    BY <1>1, <1>2, <1>6, <1>7, <2>1 DEF IInv, TypeOK, Running
  <2>3. HeldBack'
    BY <1>1, <1>7, <1>8, <2>1 DEF IInv, HeldBack, Running
  <2>4. AtomicSend'
    BY <1>1, <2>1 DEF IInv, AtomicSend, Flushed
  <2>5. QED
    BY <1>3, <2>2, <2>3, <2>4 DEF IInv
<1>10. CASE ~more
  <2>1. /\ pipe' = Append(pipe, Append(unfinished, frame)) /\ unfinished' = <<>>
        /\ result' = "true" /\ done' = Append(done, call) /\ pending' = <<>>
    BY <1>1, <1>4, <1>10 DEF ZmqAccept
  <2>2. /\ pipe' \in Seq(Seq(Frames)) /\ Len(pipe') = Len(pipe) + 1
        /\ Len(pipe') <= HighWaterMark
    BY <1>6, <1>7, <1>8, <2>1, AppendProperties, SendAssumption
  <2>3. call \in [args : Seq(Sendables), carried : Seq(Frames),
                  frames : Seq(Frames)]
    BY <1>6, <1>7 DEF call
  <2>4. /\ done' \in Seq([args : Seq(Sendables), carried : Seq(Frames),
                          frames : Seq(Frames)])
        /\ Len(done') = Len(done) + 1 /\ Len(done) \in Nat
        /\ \A k \in 1 .. Len(done) : done'[k] = done[k]
        /\ done'[Len(done) + 1] = call
    BY <1>6, <2>1, <2>3, AppendProperties, LenProperties
  <2>5. TypeOK'
    <3>1. unfinished' \in Seq(Frames)
      BY <2>1, EmptySeq
    <3>2. QED
      BY <1>1, <1>2, <1>6, <1>7, <2>1, <2>2, <2>4, <3>1
      DEF IInv, TypeOK, Running, Results
  <2>6. HeldBack'
    BY <2>1 DEF HeldBack, Running
  <2>7. /\ Flushed' = Append(Flushed, carried \o emitted')
        /\ Flushed \in Seq(Seq(Frames)) /\ carried \o emitted' \in Seq(Frames)
    <3>1. /\ carried \o emitted' \in Seq(Frames)
          /\ gone \o pipe \in Seq(Seq(Frames))
      BY <1>6, <1>7, ConcatProperties
    <3>2. pipe' = Append(pipe, carried \o emitted') /\ gone' = gone
      BY <1>1, <1>7, <2>1
    <3>3. ASSUME NEW m \in Seq(Frames)
          PROVE  gone \o Append(pipe, m) = Append(gone \o pipe, m)
      <4> DEFINE S == Seq(Frames)
      <4>1. gone \in Seq(S) /\ pipe \in Seq(S) /\ m \in S
        BY <1>6
      <4> HIDE DEF S
      <4>2. QED
        BY <4>1, ConcatAppend
    <3>4. gone \o Append(pipe, carried \o emitted')
            = Append(gone \o pipe, carried \o emitted')
      BY <3>1, <3>3
    <3>5. QED
      BY <3>1, <3>2, <3>4 DEF Flushed
  <2>8. /\ Len(Flushed') = Len(Flushed) + 1
        /\ \A k \in 1 .. Len(Flushed) : Flushed'[k] = Flushed[k]
        /\ Flushed'[Len(Flushed) + 1] = carried \o emitted'
    BY <2>7, AppendProperties
  <2>9. Len(Flushed) = Len(done) /\ (ReuseBroken \/ carried = <<>>)
    BY <1>1 DEF IInv, AtomicSend, HeldBack, Running
  <2>10. AtomicSend'
    <3>1. Len(Flushed') = Len(done')
      BY <2>4, <2>8, <2>9
    <3>2. ASSUME NEW k \in 1 .. Len(done')
          PROVE  /\ Flushed'[k] = done'[k].carried \o done'[k].frames
                 /\ ReuseBroken \/ done'[k].carried = <<>>
      <4>1. CASE k \in 1 .. Len(done)
        BY <2>4, <2>8, <2>9, <4>1 DEF IInv, AtomicSend
      <4>2. CASE k = Len(done) + 1
        <5>1. Flushed'[k] = carried \o emitted' /\ done'[k] = call
          BY <2>4, <2>8, <2>9, <4>2
        <5>2. QED
          BY <2>9, <5>1 DEF call
      <4>3. k \in 1 .. Len(done) \/ k = Len(done) + 1
        BY <2>4
      <4>4. QED
        BY <4>1, <4>2, <4>3
    <3>3. QED
      BY <3>1, <3>2 DEF AtomicSend
  <2>11. QED
    BY <1>3, <2>5, <2>6, <2>10 DEF IInv
<1>11. QED
  BY <1>2, <1>9, <1>10 DEF SendCalls

\* What is left: a socket option, the termination, and stuttering.
LEMMA OtherSteps ==
  ASSUME IInv,
         \/ \E finite \in BOOLEAN : SetSendTimeout(finite)
         \/ TerminateContext
         \/ UNCHANGED vars
  PROVE  IInv'
<1> USE DEF SetSendTimeout, TerminateContext, vars, sockVars, zmqVars, history
<1>1. TypeOK'
  BY DEF IInv, TypeOK, Running
<1>2. MoreToSendDiscipline' /\ HeldBack' /\ AtomicSend'
  BY DEF IInv, MoreToSendDiscipline, HeldBack, AtomicSend, Flushed, Running
<1>3. QED
  BY <1>1, <1>2 DEF IInv

\* The invariant is kept by every step.
LEMMA NextIInv == IInv /\ [Next]_vars => IInv'
<1> SUFFICES ASSUME IInv, [Next]_vars
             PROVE  IInv'
  OBVIOUS
<1>1. ASSUME NEW a \in Calls, CallSend(a)
      PROVE  IInv'
  BY <1>1, CallSendStep
<1>2. CASE EnterComposite
  BY <1>2, EnterCompositeStep
<1>3. CASE SendMessage
  BY <1>3, SendMessageStep
<1>4. CASE SendTimesOut \/ SendTerminated \/ SendInterrupted \/ CompositeFails
  BY <1>4, GiveUpStep
  DEF SendTimesOut, SendTerminated, SendInterrupted, CompositeFails
<1>5. CASE PeerTakes
  BY <1>5, PeerTakesStep
<1>6. CASE \/ \E finite \in BOOLEAN : SetSendTimeout(finite)
           \/ TerminateContext
           \/ UNCHANGED vars
  BY <1>6, OtherSteps
<1>7. QED
  BY <1>1, <1>2, <1>3, <1>4, <1>5, <1>6 DEF Next, Application, Library
----------------------------------------------------------------------------
(* Nests of composites: Leaves has a value for each of them.               *)

\* A nonempty set of numbers has a smallest one.
LEMMA LeastNumber ==
  ASSUME NEW T \in SUBSET Nat, T # {}
  PROVE  \E n \in T : \A m \in T : n <= m
<1> DEFINE R == OpToRel(<, Nat)
<1>1. IsWellFoundedOn(R, Nat)
  BY NatLessThanWellFounded
<1>2. \A m, n \in Nat : m < n => <<m, n>> \in R
  BY DEF OpToRel
<1> HIDE DEF R
<1>3. PICK n \in T : \A m \in T : <<m, n>> \notin R
  BY <1>1, WFMin, Zenon
<1>4. \A m \in T : ~(m < n)
  BY <1>2, <1>3, Zenon
<1>5. QED
  BY <1>4

\* What holds of the empty list, and of a list if it holds of its tail and of
\* the parts of a composite at its head, holds of all lists: lists end, and so
\* do nests.
LEMMA NestInduction ==
  ASSUME NEW P \in SUBSET Seq(Items),
         <<>> \in P,
         \A s \in Seq(Items) :
           /\ s # <<>> /\ Tail(s) \in P
           /\ Head(s) \in Composites => Parts[Head(s)] \in P
           => s \in P
  PROVE  Seq(Items) = P
<1> DEFINE Good == {x \in Items : x \in Composites => Parts[x] \in P}
           Bad == {c \in Composites : Parts[c] \notin P}
           Failing == {n \in Nat : \E s \in Seq(Good) : Len(s) = n /\ s \notin P}
<1>1. Seq(Good) \subseteq P
  <2>1. Failing = {}
    <3>1. SUFFICES ASSUME Failing # {}
                   PROVE  FALSE
      OBVIOUS
    <3>2. PICK n \in Failing : \A m \in Failing : n <= m
      BY <3>1, LeastNumber
    <3>3. PICK s \in Seq(Good) : Len(s) = n /\ s \notin P
      BY <3>2
    <3>4. s # <<>>
      BY <3>3
    <3>5. /\ Head(s) \in Good /\ Tail(s) \in Seq(Good)
          /\ Len(Tail(s)) = n - 1 /\ n - 1 \in Nat
      BY <3>3, <3>4, HeadTailProperties, EmptySeq, LenProperties
    <3>6. Tail(s) \in P
      <4>1. n - 1 \notin Failing
        <5>1. n \in Nat /\ \A m \in Failing : m \in Nat
          OBVIOUS
        <5> HIDE DEF Failing
        <5>2. QED
          BY <3>2, <3>5, <5>1
      <4>2. QED
        BY <3>5, <4>1
    <3>7. s \in Seq(Items)
      BY SeqMonotonic
    <3>8. QED
      BY <3>3, <3>4, <3>5, <3>6, <3>7
  <2>2. QED
    BY <2>1, LenProperties
<1>2. Bad = {}
  <2>1. SUFFICES ASSUME Bad # {}
                 PROVE  FALSE
    OBVIOUS
  <2>2. PICK c \in Bad : \A i \in 1 .. Len(Parts[c]) : Parts[c][i] \notin Bad
    BY <2>1, NestingAssumption
  <2>3. Parts[c] \in Seq(Items)
    BY NestingAssumption
  <2>4. \A i \in 1 .. Len(Parts[c]) : Parts[c][i] \in Good
    BY <2>2, <2>3, ElementOfSeq
  <2>5. Parts[c] \in Seq(Good)
    BY <2>3, <2>4, SeqDef, LenProperties
  <2>6. QED
    BY <1>1, <2>5
<1>3. Good = Items
  BY <1>2
<1>4. QED
  BY <1>1, <1>3

\* Leaves is a solution of the equation that defines it.  The solution is built
\* from the least relation between lists and leaves that its cases produce.
StartsWith(R, x, l) == IF x \in Messages THEN l = <<x>> ELSE <<Parts[x], l>> \in R

\* The relation R is closed under the cases of the definition of Leaves.
Closed(R) ==
  /\ <<<<>>, <<>>>> \in R
  /\ \A s \in Seq(Items), l, m \in Seq(Messages) :
       s # <<>> /\ StartsWith(R, Head(s), l) /\ <<Tail(s), m>> \in R
         => <<s, l \o m>> \in R

Pairs == Seq(Items) \X Seq(Messages)
LeastClosed == {p \in Pairs : \A R \in SUBSET Pairs : Closed(R) => p \in R}

LEMMA LeastIsClosed == Closed(LeastClosed)
<1>1. <<<<>>, <<>>>> \in LeastClosed
  BY EmptySeq DEF LeastClosed, Closed, Pairs
<1>2. ASSUME NEW s \in Seq(Items), NEW l \in Seq(Messages),
             NEW m \in Seq(Messages),
             s # <<>>, StartsWith(LeastClosed, Head(s), l),
             <<Tail(s), m>> \in LeastClosed
      PROVE  <<s, l \o m>> \in LeastClosed
  <2>1. <<s, l \o m>> \in Pairs
    BY ConcatProperties DEF Pairs
  <2>2. ASSUME NEW R \in SUBSET Pairs, Closed(R)
        PROVE  <<s, l \o m>> \in R
    <3>1. StartsWith(R, Head(s), l) /\ <<Tail(s), m>> \in R
      BY <1>2, <2>2 DEF StartsWith, LeastClosed
    <3>2. QED
      BY <1>2, <2>2, <3>1 DEF Closed
  <2>3. QED
    BY <2>1, <2>2 DEF LeastClosed
<1>3. QED
  BY <1>1, <1>2 DEF Closed

\* The least relation relates nothing but what the cases produce.
LEMMA LeastIsProduced ==
  ASSUME NEW s \in Seq(Items), NEW l \in Seq(Messages),
         <<s, l>> \in LeastClosed
  PROVE  \/ s = <<>> /\ l = <<>>
         \/ /\ s # <<>>
            /\ \E j, k \in Seq(Messages) :
                 /\ StartsWith(LeastClosed, Head(s), j)
                 /\ <<Tail(s), k>> \in LeastClosed
                 /\ l = j \o k
<1> SUFFICES ASSUME ~ \/ s = <<>> /\ l = <<>>
                      \/ /\ s # <<>>
                         /\ \E j, k \in Seq(Messages) :
                              /\ StartsWith(LeastClosed, Head(s), j)
                              /\ <<Tail(s), k>> \in LeastClosed
                              /\ l = j \o k
             PROVE  FALSE
  OBVIOUS
<1> DEFINE R == LeastClosed \ {<<s, l>>}
<1>1. R \in SUBSET Pairs
  BY DEF LeastClosed
<1>2. Closed(R)
  <2>1. <<<<>>, <<>>>> \in R
    BY LeastIsClosed DEF Closed
  <2>2. ASSUME NEW t \in Seq(Items), NEW j \in Seq(Messages),
               NEW k \in Seq(Messages),
               t # <<>>, StartsWith(R, Head(t), j), <<Tail(t), k>> \in R
        PROVE  <<t, j \o k>> \in R
    <3>1. /\ StartsWith(LeastClosed, Head(t), j)
          /\ <<Tail(t), k>> \in LeastClosed
      BY <2>2 DEF StartsWith
    <3>2. <<t, j \o k>> \in LeastClosed
      BY <2>2, <3>1, LeastIsClosed DEF Closed
    <3>3. <<t, j \o k>> # <<s, l>>
      BY <2>2, <3>1
    <3>4. QED
      BY <3>2, <3>3
  <2> HIDE DEF R
  <2>3. QED
    BY <2>1, <2>2 DEF Closed
<1>3. <<s, l>> \in R
  BY <1>1, <1>2 DEF LeastClosed
<1>4. QED
  BY <1>3

\* It is a function.
LEMMA LeastIsFunction ==
  ASSUME NEW s \in Seq(Items)
  PROVE  \E l \in Seq(Messages) :
           /\ <<s, l>> \in LeastClosed
           /\ \A m : <<s, m>> \in LeastClosed => m = l
<1> DEFINE Unique(t, l) == /\ <<t, l>> \in LeastClosed
                           /\ \A m : <<t, m>> \in LeastClosed => m = l
           P == {t \in Seq(Items) : \E l \in Seq(Messages) : Unique(t, l)}
<1>1. \A t, m : <<t, m>> \in LeastClosed => t \in Seq(Items) /\ m \in Seq(Messages)
  BY DEF LeastClosed, Pairs
<1>2. <<>> \in P
  <2>1. /\ <<>> \in Seq(Items) /\ <<>> \in Seq(Messages)
        /\ <<<<>>, <<>>>> \in LeastClosed
    BY EmptySeq, LeastIsClosed DEF Closed
  <2>2. ASSUME NEW m, <<<<>>, m>> \in LeastClosed
        PROVE  m = <<>>
    BY <1>1, <2>1, <2>2, LeastIsProduced
  <2>3. QED
    BY <2>1, <2>2
<1>3. ASSUME NEW t \in Seq(Items), t # <<>>, Tail(t) \in P,
             Head(t) \in Composites => Parts[Head(t)] \in P
      PROVE  t \in P
  <2>1. PICK k \in Seq(Messages) : Unique(Tail(t), k)
    BY <1>3
  <2>2. PICK j \in Seq(Messages) :
          /\ StartsWith(LeastClosed, Head(t), j)
          /\ \A m : StartsWith(LeastClosed, Head(t), m) => m = j
    <3>1. Head(t) \in Items
      BY <1>3, HeadTailProperties
    <3>2. CASE Head(t) \in Messages
      <4>1. <<Head(t)>> \in Seq(Messages)
        BY <3>2
      <4>2. QED
        BY <3>2, <4>1 DEF StartsWith
    <3>3. CASE Head(t) \notin Messages
      <4>1. PICK j \in Seq(Messages) : Unique(Parts[Head(t)], j)
        BY <1>3, <3>1, <3>3 DEF Items
      <4>2. QED
        BY <3>3, <4>1 DEF StartsWith
    <3>4. QED
      BY <3>2, <3>3
  <2>3. <<t, j \o k>> \in LeastClosed
    BY <1>3, <2>1, <2>2, LeastIsClosed DEF Closed
  <2>4. ASSUME NEW m, <<t, m>> \in LeastClosed
        PROVE  m = j \o k
    <3>1. m \in Seq(Messages)
      BY <1>1, <2>4
    <3>2. \E a, b \in Seq(Messages) :
            /\ StartsWith(LeastClosed, Head(t), a)
            /\ <<Tail(t), b>> \in LeastClosed
            /\ m = a \o b
      BY <1>3, <2>4, <3>1, LeastIsProduced
    <3>3. QED
      BY <2>1, <2>2, <3>2
  <2>5. j \o k \in Seq(Messages)
    BY ConcatProperties
  <2>6. QED
    BY <2>3, <2>4, <2>5
<1> HIDE DEF P
<1>4. Seq(Items) = P
  <2>1. P \in SUBSET Seq(Items)
    BY DEF P
  <2>2. QED
    BY <1>2, <1>3, <2>1, NestInduction
<1>5. QED
  BY <1>4 DEF P

LEMMA LeavesEquation ==
  Leaves = [items \in Seq(Items) |->
              IF items = <<>> THEN <<>>
              ELSE (IF Head(items) \in Messages
                    THEN <<Head(items)>> ELSE Leaves[Parts[Head(items)]])
                   \o Leaves[Tail(items)]]
<1> DEFINE Body(f) ==
             [items \in Seq(Items) |->
                IF items = <<>> THEN <<>>
                ELSE (IF Head(items) \in Messages
                      THEN <<Head(items)>> ELSE f[Parts[Head(items)]])
                     \o f[Tail(items)]]
           g == [s \in Seq(Items) |-> CHOOSE l : <<s, l>> \in LeastClosed]
<1>1. \A s \in Seq(Items) :
        /\ <<s, g[s]>> \in LeastClosed
        /\ g[s] \in Seq(Messages)
        /\ \A l : <<s, l>> \in LeastClosed => l = g[s]
  <2> SUFFICES ASSUME NEW s \in Seq(Items)
               PROVE  /\ <<s, g[s]>> \in LeastClosed
                      /\ g[s] \in Seq(Messages)
                      /\ \A l : <<s, l>> \in LeastClosed => l = g[s]
    OBVIOUS
  <2>1. PICK l \in Seq(Messages) :
          /\ <<s, l>> \in LeastClosed
          /\ \A m : <<s, m>> \in LeastClosed => m = l
    BY LeastIsFunction
  <2>2. g[s] = l
    <3>1. <<s, CHOOSE k : <<s, k>> \in LeastClosed>> \in LeastClosed
      BY <2>1
    <3>2. QED
      BY <2>1, <3>1
  <2>3. QED
    BY <2>1, <2>2
<1>2. DOMAIN g = Seq(Items) /\ g = [s \in Seq(Items) |-> g[s]]
  <2>1. g \in [Seq(Items) -> Seq(Messages)]
    BY <1>1
  <2> HIDE DEF g
  <2>2. QED
    BY <2>1
<1> HIDE DEF g
<1>3. ASSUME NEW s \in Seq(Items)
      PROVE  g[s] = Body(g)[s]
  <2>1. CASE s = <<>>
    BY <1>1, <2>1, LeastIsClosed DEF Closed
  <2>2. CASE s # <<>>
    <3>1. Head(s) \in Items /\ Tail(s) \in Seq(Items)
      BY <2>2, HeadTailProperties
    <3>2. PICK l \in Seq(Messages) :
            /\ StartsWith(LeastClosed, Head(s), l)
            /\ l = IF Head(s) \in Messages THEN <<Head(s)>>
                                           ELSE g[Parts[Head(s)]]
      <4>1. CASE Head(s) \in Messages
        <5>1. <<Head(s)>> \in Seq(Messages)
          BY <4>1
        <5>2. QED
          BY <4>1, <5>1 DEF StartsWith
      <4>2. CASE Head(s) \notin Messages
        <5>1. Parts[Head(s)] \in Seq(Items)
          BY <3>1, <4>2, NestingAssumption DEF Items
        <5>2. QED
          BY <1>1, <4>2, <5>1 DEF StartsWith
      <4>3. QED
        BY <4>1, <4>2
    <3>3. <<Tail(s), g[Tail(s)]>> \in LeastClosed /\ g[Tail(s)] \in Seq(Messages)
      BY <1>1, <3>1
    <3>4. <<s, l \o g[Tail(s)]>> \in LeastClosed
      BY <2>2, <3>2, <3>3, LeastIsClosed DEF Closed
    <3>5. g[s] = l \o g[Tail(s)]
      BY <1>1, <3>4
    <3>6. QED
      BY <2>2, <3>2, <3>5
  <2>3. QED
    BY <2>1, <2>2
<1>4. g = Body(g)
  <2>1. DOMAIN Body(g) = Seq(Items) /\ Body(g) = [s \in Seq(Items) |-> Body(g)[s]]
    OBVIOUS
  <2> HIDE DEF Body
  <2>2. QED
    BY <1>2, <1>3, <2>1
<1>5. Leaves = CHOOSE f : f = Body(f)
  BY DEF Leaves
<1> HIDE DEF Body
<1>6. Leaves = Body(Leaves)
  BY <1>4, <1>5
<1>7. QED
  BY <1>6 DEF Body

\* The cases of Leaves: no items, a message first, a composite first.
LEMMA LeavesCases == LeavesAreThose
<1> USE DEF LeavesAreThose
<1> DEFINE P == {s \in Seq(Items) : Leaves[s] \in Seq(Messages)}
<1>1. Leaves[<<>>] = <<>>
  BY LeavesEquation, EmptySeq
<1>2. \A s \in Seq(Items) :
        s # <<>> =>
          Leaves[s] = (IF Head(s) \in Messages
                       THEN <<Head(s)>> ELSE Leaves[Parts[Head(s)]])
                      \o Leaves[Tail(s)]
  BY LeavesEquation
<1>3. <<>> \in P
  BY <1>1, EmptySeq
<1>4. ASSUME NEW s \in Seq(Items), s # <<>>, Tail(s) \in P,
             Head(s) \in Composites => Parts[Head(s)] \in P
      PROVE  s \in P
  <2> DEFINE first == IF Head(s) \in Messages THEN <<Head(s)>>
                                             ELSE Leaves[Parts[Head(s)]]
  <2>1. Head(s) \in Items
    BY <1>4, HeadTailProperties
  <2>2. first \in Seq(Messages) /\ Leaves[Tail(s)] \in Seq(Messages)
    BY <1>4, <2>1 DEF Items
  <2>3. Leaves[s] = first \o Leaves[Tail(s)]
    BY <1>2, <1>4
  <2> HIDE DEF first
  <2>4. Leaves[s] \in Seq(Messages)
    BY <2>2, <2>3, ConcatProperties
  <2>5. QED
    BY <2>4
<1>5. P \in SUBSET Seq(Items)
  OBVIOUS
<1> HIDE DEF P
<1>6. Seq(Items) = P
  BY <1>3, <1>4, <1>5, NestInduction
<1>7. Leaves \in [Seq(Items) -> Seq(Messages)]
  <2>1. DOMAIN Leaves = Seq(Items) /\ Leaves = [s \in Seq(Items) |-> Leaves[s]]
    BY LeavesEquation
  <2>2. QED
    BY <1>6, <2>1 DEF P
<1>8. QED
  BY <1>1, <1>2, <1>7

\* A list on its own is its head, before its tail.
LEMMA HeadBeforeTail ==
  ASSUME NEW S, NEW s \in Seq(S), NEW t \in Seq(S), s # <<>>
  PROVE  /\ s \o t # <<>>
         /\ Head(s \o t) = Head(s)
         /\ Tail(s \o t) = Tail(s) \o t
<1>1. /\ s \o t \in Seq(S) /\ Len(s \o t) = Len(s) + Len(t)
      /\ \A i \in 1 .. Len(s) + Len(t) :
           (s \o t)[i] = IF i <= Len(s) THEN s[i] ELSE t[i - Len(s)]
  BY ConcatProperties
<1>2. Len(s) \in Nat \ {0} /\ Len(t) \in Nat
  BY EmptySeq, LenProperties
<1>3. s \o t # <<>>
  BY <1>1, <1>2, EmptySeq
<1>4. /\ Tail(s) \in Seq(S) /\ Len(Tail(s)) = Len(s) - 1 /\ Head(s) = s[1]
      /\ \A i \in 1 .. Len(Tail(s)) : Tail(s)[i] = s[i + 1]
  BY HeadTailProperties
<1>5. /\ Tail(s \o t) \in Seq(S) /\ Len(Tail(s \o t)) = Len(s) + Len(t) - 1
      /\ Head(s \o t) = (s \o t)[1]
      /\ \A i \in 1 .. Len(s) + Len(t) - 1 : Tail(s \o t)[i] = (s \o t)[i + 1]
  BY <1>1, <1>3, HeadTailProperties
<1>6. /\ Tail(s) \o t \in Seq(S) /\ Len(Tail(s) \o t) = Len(s) - 1 + Len(t)
      /\ \A i \in 1 .. Len(s) - 1 + Len(t) :
           (Tail(s) \o t)[i] = IF i <= Len(s) - 1 THEN Tail(s)[i]
                                                  ELSE t[i - (Len(s) - 1)]
  BY <1>4, ConcatProperties
<1>7. Tail(s \o t) = Tail(s) \o t
  <2>1. \A i \in 1 .. Len(s) + Len(t) - 1 : Tail(s \o t)[i] = (Tail(s) \o t)[i]
    BY <1>1, <1>2, <1>4, <1>5, <1>6
  <2>2. QED
    BY <1>2, <1>5, <1>6, <2>1, SeqEqual
<1>8. QED
  BY <1>1, <1>2, <1>3, <1>4, <1>5, <1>7

LEMMA ThreeLists ==
  \A j, k, l \in Seq(Messages) :
    j \o k \in Seq(Messages) /\ j \o (k \o l) = (j \o k) \o l
BY ConcatAssociative, ConcatProperties

\* The leaves of two lists one after the other.
LEMMA LeavesConcat ==
  ASSUME NEW s \in Seq(Items), NEW t \in Seq(Items)
  PROVE  Leaves[s \o t] = Leaves[s] \o Leaves[t]
<1> DEFINE P == {u \in Seq(Items) : Leaves[u \o t] = Leaves[u] \o Leaves[t]}
<1>1. \A u \in Seq(Items) : Leaves[u] \in Seq(Messages)
  BY LeavesCases DEF LeavesAreThose
<1>2. <<>> \in P
  BY <1>1, LeavesCases, EmptySeq, ConcatEmptySeq DEF LeavesAreThose
<1>3. ASSUME NEW u \in Seq(Items), u # <<>>, Tail(u) \in P
      PROVE  u \in P
  <2> DEFINE first == IF Head(u) \in Messages THEN <<Head(u)>>
                                             ELSE Leaves[Parts[Head(u)]]
  <2>1. Head(u) \in Items /\ Tail(u) \in Seq(Items)
    BY <1>3, HeadTailProperties
  <2>2. /\ first \in Seq(Messages)
        /\ Leaves[Tail(u)] \in Seq(Messages) /\ Leaves[t] \in Seq(Messages)
    <3>1. first \in Seq(Messages)
      BY <1>1, <2>1, NestingAssumption DEF Items
    <3>2. QED
      BY <1>1, <2>1, <3>1
  <2>3. Leaves[u] = first \o Leaves[Tail(u)]
    BY <1>3, LeavesCases DEF LeavesAreThose
  <2>4. /\ u \o t \in Seq(Items) /\ u \o t # <<>>
        /\ Head(u \o t) = Head(u) /\ Tail(u \o t) = Tail(u) \o t
    BY <1>3, HeadBeforeTail, ConcatProperties
  <2>5. Leaves[u \o t] = first \o Leaves[Tail(u) \o t]
    BY <2>4, LeavesCases DEF LeavesAreThose
  <2> HIDE DEF first
  <2>6. Leaves[Tail(u) \o t] = Leaves[Tail(u)] \o Leaves[t]
    BY <1>3
  <2>7. first \o (Leaves[Tail(u)] \o Leaves[t])
          = (first \o Leaves[Tail(u)]) \o Leaves[t]
    BY <2>2, ThreeLists, Zenon
  <2>8. QED
    BY <2>3, <2>5, <2>6, <2>7
<1>4. P \in SUBSET Seq(Items)
  OBVIOUS
<1> HIDE DEF P
<1>5. Seq(Items) = P
  BY <1>2, <1>3, <1>4, NestInduction
<1>6. QED
  BY <1>5 DEF P
----------------------------------------------------------------------------
(* The leaves that a call puts on the socket.                              *)

\* The sendables of a list of send() calls.
SendablesOf(p) == [i \in 1 .. Len(p) |-> p[i].sendable]

\* What a running call has emitted, with its number, is what its parameters
\* stand for up to what is still to be sent.
OnTheWay ==
  Running =>
    /\ args \in Calls
    /\ \A i \in 1 .. Len(emitted) : emitted[i][1] = calls
    /\ MessagesOf(emitted) \o Leaves[SendablesOf(pending)] = Leaves[args]

LeavesInv == OnTheWay /\ SentAsLeaves

LEMMA SendablesOfTyped ==
  ASSUME NEW p \in Seq(SendCalls)
  PROVE  /\ SendablesOf(p) \in Seq(Items)
         /\ Len(SendablesOf(p)) = Len(p) /\ Len(p) \in Nat
         /\ \A i \in 1 .. Len(p) : SendablesOf(p)[i] = p[i].sendable
<1>1. Len(p) \in Nat /\ \A i \in 1 .. Len(p) : p[i] \in SendCalls
  BY LenProperties, ElementOfSeq
<1>2. SendablesOf(p) \in [1 .. Len(p) -> Items]
  BY <1>1 DEF SendablesOf, SendCalls, Sendables
<1>3. SendablesOf(p) \in Seq(Items) /\ Len(SendablesOf(p)) = Len(p)
  BY <1>1, <1>2, SeqDef
<1>4. QED
  BY <1>1, <1>3 DEF SendablesOf

LEMMA SendablesOfTail ==
  ASSUME NEW p \in Seq(SendCalls), p # <<>>
  PROVE  /\ SendablesOf(p) # <<>>
         /\ Head(SendablesOf(p)) = Head(p).sendable
         /\ Tail(SendablesOf(p)) = SendablesOf(Tail(p))
<1>1. /\ Len(p) \in Nat \ {0}
      /\ Head(p) = p[1] /\ Tail(p) \in Seq(SendCalls)
      /\ Len(Tail(p)) = Len(p) - 1
      /\ \A i \in 1 .. Len(Tail(p)) : Tail(p)[i] = p[i + 1]
  BY HeadTailProperties, EmptySeq
<1>2. /\ SendablesOf(p) \in Seq(Items) /\ Len(SendablesOf(p)) = Len(p)
      /\ \A i \in 1 .. Len(p) : SendablesOf(p)[i] = p[i].sendable
  BY SendablesOfTyped
<1>3. /\ SendablesOf(Tail(p)) \in Seq(Items)
      /\ Len(SendablesOf(Tail(p))) = Len(Tail(p))
      /\ \A i \in 1 .. Len(Tail(p)) : SendablesOf(Tail(p))[i] = Tail(p)[i].sendable
  BY <1>1, SendablesOfTyped
<1>4. SendablesOf(p) # <<>>
  BY <1>1, <1>2, EmptySeq
<1>5. /\ Head(SendablesOf(p)) = SendablesOf(p)[1]
      /\ Tail(SendablesOf(p)) \in Seq(Items)
      /\ Len(Tail(SendablesOf(p))) = Len(p) - 1
      /\ \A i \in 1 .. Len(p) - 1 :
           Tail(SendablesOf(p))[i] = SendablesOf(p)[i + 1]
  BY <1>2, <1>4, HeadTailProperties
<1>6. \A i \in 1 .. Len(p) - 1 :
        Tail(SendablesOf(p))[i] = SendablesOf(Tail(p))[i]
  BY <1>1, <1>2, <1>3, <1>5
<1>7. Tail(SendablesOf(p)) = SendablesOf(Tail(p))
  BY <1>1, <1>3, <1>5, <1>6, SeqEqual
<1>8. QED
  BY <1>1, <1>2, <1>4, <1>5, <1>7

LEMMA SendablesOfConcat ==
  ASSUME NEW p \in Seq(SendCalls), NEW q \in Seq(SendCalls)
  PROVE  SendablesOf(p \o q) = SendablesOf(p) \o SendablesOf(q)
<1> DEFINE s == SendablesOf(p)
           t == SendablesOf(q)
           u == SendablesOf(p \o q)
<1>1. /\ p \o q \in Seq(SendCalls) /\ Len(p \o q) = Len(p) + Len(q)
      /\ \A i \in 1 .. Len(p) + Len(q) :
           (p \o q)[i] = IF i <= Len(p) THEN p[i] ELSE q[i - Len(p)]
  BY ConcatProperties
<1>2. /\ s \in Seq(Items) /\ Len(s) = Len(p) /\ Len(p) \in Nat
      /\ \A i \in 1 .. Len(p) : s[i] = p[i].sendable
  BY SendablesOfTyped
<1>3. /\ t \in Seq(Items) /\ Len(t) = Len(q) /\ Len(q) \in Nat
      /\ \A i \in 1 .. Len(q) : t[i] = q[i].sendable
  BY SendablesOfTyped
<1>4. /\ u \in Seq(Items) /\ Len(u) = Len(p) + Len(q)
      /\ \A i \in 1 .. Len(p) + Len(q) : u[i] = (p \o q)[i].sendable
  BY <1>1, SendablesOfTyped
<1> HIDE DEF s, t, u
<1>5. /\ s \o t \in Seq(Items) /\ Len(s \o t) = Len(p) + Len(q)
      /\ \A i \in 1 .. Len(p) + Len(q) :
           (s \o t)[i] = IF i <= Len(p) THEN s[i] ELSE t[i - Len(p)]
  <2>1. s \in Seq(Items) /\ t \in Seq(Items)
    BY <1>2, <1>3
  <2>2. /\ s \o t \in Seq(Items) /\ Len(s \o t) = Len(s) + Len(t)
        /\ \A i \in 1 .. Len(s) + Len(t) :
             (s \o t)[i] = IF i <= Len(s) THEN s[i] ELSE t[i - Len(s)]
    BY <2>1, ConcatProperties
  <2>3. QED
    BY <1>2, <1>3, <2>2
<1>6. ASSUME NEW i \in 1 .. Len(p) + Len(q)
      PROVE  u[i] = (s \o t)[i]
  <2>1. CASE i <= Len(p)
    <3>1. i \in 1 .. Len(p)
      BY <1>2, <2>1
    <3>2. (p \o q)[i] = p[i] /\ (s \o t)[i] = s[i]
      BY <1>1, <1>5, <2>1
    <3>3. QED
      BY <1>2, <1>4, <3>1, <3>2
  <2>2. CASE ~(i <= Len(p))
    <3>1. i - Len(p) \in 1 .. Len(q)
      BY <1>2, <1>3, <2>2
    <3>2. (p \o q)[i] = q[i - Len(p)] /\ (s \o t)[i] = t[i - Len(p)]
      BY <1>1, <1>5, <2>2
    <3>3. QED
      BY <1>3, <1>4, <3>1, <3>2
  <2>3. QED
    BY <2>1, <2>2
<1>7. u = s \o t
  BY <1>4, <1>5, <1>6, SeqEqual
<1>8. QED
  BY <1>7 DEF s, t, u

\* The parameters of a call, and the parts of a composite, are what its send()
\* calls are for.
LEMMA SendablesOfCalls ==
  /\ \A a \in Calls : SendablesOf(ArgumentCalls(a)) = a
  /\ \A c \in Composites, more \in BOOLEAN :
       SendablesOf(PartCalls(c, more)) = Parts[c]
<1>1. ASSUME NEW a \in Calls
      PROVE  SendablesOf(ArgumentCalls(a)) = a
  <2>1. a \in Seq(Items) /\ ArgumentCalls(a) \in Seq(SendCalls)
    BY SendAssumption, ArgumentCallsWellFormed DEF Sendables
  <2>2. Len(a) \in Nat
    BY <2>1, LenProperties
  <2>3. /\ Len(ArgumentCalls(a)) = Len(a)
        /\ \A i \in 1 .. Len(a) : ArgumentCalls(a)[i].sendable = a[i]
    BY <2>2 DEF ArgumentCalls
  <2>4. QED
    BY <2>1, <2>3, SendablesOfTyped, SeqEqual
<1>2. ASSUME NEW c \in Composites, NEW more \in BOOLEAN
      PROVE  SendablesOf(PartCalls(c, more)) = Parts[c]
  <2>1. Parts[c] \in Seq(Items) /\ PartCalls(c, more) \in Seq(SendCalls)
    BY NestingAssumption, PartCallsWellFormed
  <2>2. Len(Parts[c]) \in Nat
    BY <2>1, LenProperties
  <2>3. /\ Len(PartCalls(c, more)) = Len(Parts[c])
        /\ \A i \in 1 .. Len(Parts[c]) :
             PartCalls(c, more)[i].sendable = Parts[c][i]
    BY <2>2 DEF PartCalls
  <2>4. QED
    BY <2>1, <2>3, SendablesOfTyped, SeqEqual
<1>3. QED
  BY <1>1, <1>2

LEMMA MessagesOfAppend ==
  ASSUME NEW f \in Seq(Frames), NEW e \in Frames
  PROVE  /\ MessagesOf(f) \in Seq(Messages)
         /\ MessagesOf(Append(f, e)) = MessagesOf(f) \o <<e[2]>>
<1>1. /\ \A g \in Seq(Frames) :
           /\ MessagesOf(g) \in Seq(Messages)
           /\ Len(MessagesOf(g)) = Len(g) /\ Len(g) \in Nat
           /\ \A i \in 1 .. Len(g) : MessagesOf(g)[i] = g[i][2]
  <2> SUFFICES ASSUME NEW g \in Seq(Frames)
               PROVE  /\ MessagesOf(g) \in Seq(Messages)
                      /\ Len(MessagesOf(g)) = Len(g) /\ Len(g) \in Nat
                      /\ \A i \in 1 .. Len(g) : MessagesOf(g)[i] = g[i][2]
    OBVIOUS
  <2>1. Len(g) \in Nat /\ \A i \in 1 .. Len(g) : g[i] \in Frames
    BY LenProperties, ElementOfSeq
  <2>2. MessagesOf(g) \in [1 .. Len(g) -> Messages]
    BY <2>1 DEF MessagesOf, Frames
  <2>3. MessagesOf(g) \in Seq(Messages) /\ Len(MessagesOf(g)) = Len(g)
    BY <2>1, <2>2, SeqDef
  <2>4. QED
    BY <2>1, <2>3 DEF MessagesOf
<1>2. /\ Append(f, e) \in Seq(Frames) /\ Len(Append(f, e)) = Len(f) + 1
      /\ \A i \in 1 .. Len(f) : Append(f, e)[i] = f[i]
      /\ Append(f, e)[Len(f) + 1] = e
  BY AppendProperties
<1>3. e[2] \in Messages
  BY DEF Frames
<1>4. /\ Append(MessagesOf(f), e[2]) \in Seq(Messages)
      /\ Len(Append(MessagesOf(f), e[2])) = Len(f) + 1
      /\ \A i \in 1 .. Len(f) :
           Append(MessagesOf(f), e[2])[i] = MessagesOf(f)[i]
      /\ Append(MessagesOf(f), e[2])[Len(f) + 1] = e[2]
  BY <1>1, <1>3, AppendProperties
<1>5. /\ MessagesOf(Append(f, e)) \in Seq(Messages)
      /\ Len(MessagesOf(Append(f, e))) = Len(f) + 1
      /\ \A i \in 1 .. Len(f) + 1 :
           MessagesOf(Append(f, e))[i] = Append(f, e)[i][2]
  BY <1>1, <1>2
<1>6. \A i \in 1 .. Len(f) + 1 :
        MessagesOf(Append(f, e))[i] = Append(MessagesOf(f), e[2])[i]
  <2> SUFFICES ASSUME NEW i \in 1 .. Len(f) + 1
               PROVE  MessagesOf(Append(f, e))[i] = Append(MessagesOf(f), e[2])[i]
    OBVIOUS
  <2>1. Len(f) \in Nat
    BY <1>1
  <2>2. CASE i \in 1 .. Len(f)
    <3>1. MessagesOf(Append(f, e))[i] = Append(f, e)[i][2]
      BY <1>5
    <3>2. Append(f, e)[i] = f[i] /\ MessagesOf(f)[i] = f[i][2]
      BY <1>1, <1>2, <2>2
    <3>3. Append(MessagesOf(f), e[2])[i] = MessagesOf(f)[i]
      BY <1>4, <2>2
    <3>4. QED
      BY <3>1, <3>2, <3>3
  <2>3. CASE i = Len(f) + 1
    BY <1>2, <1>4, <1>5, <2>3
  <2>4. i \in 1 .. Len(f) \/ i = Len(f) + 1
    BY <2>1
  <2>5. QED
    BY <2>2, <2>3, <2>4
<1>7. MessagesOf(Append(f, e)) = Append(MessagesOf(f), e[2])
  BY <1>4, <1>5, <1>6, SeqEqual
<1>8. QED
  BY <1>1, <1>3, <1>7, AppendIsConcat

LEMMA InitLeavesInv == Init => LeavesInv
BY DEF Init, LeavesInv, OnTheWay, SentAsLeaves, Running

\* Before the first frame, all the leaves of the parameters are to be sent.
LEMMA CallSendLeaves ==
  ASSUME IInv, LeavesInv, NEW a \in Calls, CallSend(a)
  PROVE  LeavesInv'
<1>1. /\ args' = a /\ pending' = ArgumentCalls(a) /\ emitted' = <<>>
      /\ done' = done
  BY DEF CallSend
<1>2. MessagesOf(emitted') = <<>>
  BY <1>1 DEF MessagesOf
<1>3. SendablesOf(pending') = a
  BY <1>1, SendablesOfCalls
<1>4. Leaves[a] \in Seq(Messages)
  BY LeavesCases, SendAssumption DEF Sendables, LeavesAreThose
<1>5. MessagesOf(emitted') \o Leaves[SendablesOf(pending')] = Leaves[args']
  BY <1>1, <1>2, <1>3, <1>4, ConcatEmptySeq
<1>6. \A i \in 1 .. Len(emitted') : emitted'[i][1] = calls'
  BY <1>1
<1>7. OnTheWay'
  BY <1>1, <1>5, <1>6 DEF OnTheWay
<1>8. QED
  BY <1>1, <1>7 DEF LeavesInv, SentAsLeaves

\* A composite stands for its parts.
LEMMA EnterCompositeLeaves ==
  ASSUME IInv, LeavesInv, EnterComposite
  PROVE  LeavesInv'
<1> DEFINE c == Head(pending).sendable
           parts == PartCalls(c, Head(pending).moreToSend)
           rest == Tail(pending)
<1>1. /\ pending \in Seq(SendCalls) /\ pending # <<>> /\ c \in Composites
      /\ pending' = parts \o rest
      /\ UNCHANGED <<calls, args, emitted, done>>
  BY DEF IInv, TypeOK, EnterComposite, Running, history
<1>2. Head(pending) \in SendCalls /\ rest \in Seq(SendCalls)
  BY <1>1, HeadTailProperties
<1>3. Head(pending).moreToSend \in BOOLEAN
  BY <1>2 DEF SendCalls
<1>4. parts \in Seq(SendCalls) /\ SendablesOf(parts) = Parts[c]
  BY <1>1, <1>3, PartCallsWellFormed, SendablesOfCalls
<1>5. /\ SendablesOf(rest) \in Seq(Items) /\ Parts[c] \in Seq(Items)
      /\ SendablesOf(pending) \in Seq(Items)
  BY <1>1, <1>2, SendablesOfTyped, NestingAssumption
<1>6. Leaves[SendablesOf(pending)] = Leaves[Parts[c]] \o Leaves[SendablesOf(rest)]
  <2>1. /\ SendablesOf(pending) # <<>> /\ Head(SendablesOf(pending)) = c
        /\ Tail(SendablesOf(pending)) = SendablesOf(rest)
    BY <1>1, SendablesOfTail
  <2>2. c \notin Messages
    BY <1>1, NestingAssumption
  <2> HIDE DEF c, rest
  <2>3. QED
    BY <1>5, <2>1, <2>2, LeavesCases DEF LeavesAreThose
<1>7. SendablesOf(pending') = Parts[c] \o SendablesOf(rest)
  BY <1>1, <1>2, <1>4, SendablesOfConcat
<1>8. Leaves[SendablesOf(pending')] = Leaves[SendablesOf(pending)]
  BY <1>5, <1>6, <1>7, LeavesConcat
<1>9. Running
  BY <1>1 DEF Running
<1>10. OnTheWay'
  BY <1>1, <1>8, <1>9 DEF LeavesInv, OnTheWay
<1>11. QED
  BY <1>1, <1>10 DEF LeavesInv, SentAsLeaves

\* The frame that libzmq accepts is the next leaf; with the last one the call
\* has sent them all.  What it then puts into the pipe is said for the use of
\* MultipartChannel_proofs.
LEMMA SendMessageLeaves ==
  ASSUME IInv, LeavesInv, SendMessage
  PROVE  /\ LeavesInv'
         /\ args \in Calls /\ calls \in 1 .. MaxCalls
         /\ \A i \in 1 .. Len(emitted') : emitted'[i][1] = calls
         /\ Tail(pending) = <<>> => MessagesOf(emitted') = Leaves[args]
<1> DEFINE message == Head(pending).sendable
           frame == <<calls, message>>
           rest == Tail(pending)
<1>1. /\ pending \in Seq(SendCalls) /\ pending # <<>> /\ message \in Messages
      /\ emitted' = Append(emitted, frame)
      /\ pending' = rest
      /\ IF rest = <<>>
         THEN done' = Append(done, [args |-> args, carried |-> carried,
                                    frames |-> emitted'])
         ELSE done' = done
      /\ UNCHANGED <<calls, args>>
  BY DEF IInv, TypeOK, SendMessage, NextSendable, Running
<1>2. rest \in Seq(SendCalls)
  BY <1>1, HeadTailProperties
<1>3. calls \in 1 .. MaxCalls /\ frame \in Frames
  <2>1. calls \in 0 .. MaxCalls /\ calls > 0
    BY <1>1 DEF IInv, HeldBack, TypeOK, Running
  <2>2. calls \in 1 .. MaxCalls
    BY <2>1, SendAssumption
  <2> HIDE DEF message
  <2>3. QED
    BY <1>1, <2>2 DEF Frames
<1>4. emitted \in Seq(Frames) /\ args \in Seq(Items)
  BY DEF IInv, TypeOK, Sendables
<1>5. /\ args \in Calls
      /\ \A i \in 1 .. Len(emitted) : emitted[i][1] = calls
      /\ MessagesOf(emitted) \o Leaves[SendablesOf(pending)] = Leaves[args]
  BY <1>1 DEF LeavesInv, OnTheWay, Running
<1>6. \A i \in 1 .. Len(emitted') : emitted'[i][1] = calls
  <2>1. /\ Len(emitted') = Len(emitted) + 1 /\ Len(emitted) \in Nat
        /\ \A i \in 1 .. Len(emitted) : emitted'[i] = emitted[i]
        /\ emitted'[Len(emitted) + 1] = frame
    BY <1>1, <1>3, <1>4, AppendProperties, LenProperties
  <2>2. frame[1] = calls
    OBVIOUS
  <2> HIDE DEF frame
  <2>3. ASSUME NEW i \in 1 .. Len(emitted') PROVE emitted'[i][1] = calls
    <3>1. i \in 1 .. Len(emitted) \/ i = Len(emitted) + 1
      BY <2>1
    <3>2. QED
      BY <1>5, <2>1, <2>2, <3>1
  <2>4. QED
    BY <2>3
<1>7. /\ MessagesOf(emitted) \in Seq(Messages)
      /\ MessagesOf(emitted') = MessagesOf(emitted) \o <<message>>
  <2>1. frame[2] = message
    OBVIOUS
  <2> HIDE DEF frame, message
  <2>2. QED
    BY <1>1, <1>3, <1>4, <2>1, MessagesOfAppend
<1>8. /\ Leaves[SendablesOf(pending)] = <<message>> \o Leaves[SendablesOf(rest)]
      /\ Leaves[SendablesOf(rest)] \in Seq(Messages)
  <2>1. /\ SendablesOf(pending) # <<>> /\ Head(SendablesOf(pending)) = message
        /\ Tail(SendablesOf(pending)) = SendablesOf(rest)
    BY <1>1, SendablesOfTail
  <2>2. SendablesOf(pending) \in Seq(Items) /\ SendablesOf(rest) \in Seq(Items)
    BY <1>1, <1>2, SendablesOfTyped
  <2> HIDE DEF message, rest
  <2>3. QED
    BY <1>1, <2>1, <2>2, LeavesCases DEF LeavesAreThose
<1>9. MessagesOf(emitted') \o Leaves[SendablesOf(rest)] = Leaves[args]
  <2>1. <<message>> \in Seq(Messages)
    BY <1>1
  <2> HIDE DEF message, rest
  <2>2. MessagesOf(emitted) \o (<<message>> \o Leaves[SendablesOf(rest)])
          = (MessagesOf(emitted) \o <<message>>) \o Leaves[SendablesOf(rest)]
    BY <1>7, <1>8, <2>1, ThreeLists, Zenon
  <2>3. QED
    BY <1>5, <1>7, <1>8, <2>2, Zenon
<1>10. OnTheWay'
  BY <1>1, <1>5, <1>6, <1>9 DEF OnTheWay
<1>11. rest = <<>> => MessagesOf(emitted') = Leaves[args]
  <2> SUFFICES ASSUME rest = <<>> PROVE MessagesOf(emitted') = Leaves[args]
    OBVIOUS
  <2>1. SendablesOf(rest) = <<>>
    <3>1. SendablesOf(rest) \in Seq(Items) /\ Len(SendablesOf(rest)) = 0
      BY <1>2, EmptySeq, SendablesOfTyped
    <3>2. QED
      BY <3>1, EmptySeq
  <2>2. Leaves[SendablesOf(rest)] = <<>>
    BY <2>1, LeavesCases DEF LeavesAreThose
  <2>3. MessagesOf(emitted') \in Seq(Messages)
    <3>1. <<message>> \in Seq(Messages)
      BY <1>1
    <3>2. QED
      BY <1>7, <3>1, ThreeLists
  <2>4. QED
    BY <1>9, <2>2, <2>3, ConcatEmptySeq
<1>12. SentAsLeaves'
  <2>1. CASE rest # <<>>
    BY <1>1, <2>1 DEF LeavesInv, SentAsLeaves
  <2>2. CASE rest = <<>>
    <3> DEFINE call == [args |-> args, carried |-> carried, frames |-> emitted']
               S == [args : Seq(Sendables), carried : Seq(Frames),
                     frames : Seq(Frames)]
    <3>1. emitted' \in Seq(Frames) /\ carried \in Seq(Frames)
      BY <1>1, <1>3, <1>4, AppendProperties DEF IInv, TypeOK
    <3>2. call \in S /\ done \in Seq(S)
      BY <1>4, <3>1 DEF IInv, TypeOK, Sendables
    <3>3. call.frames = emitted' /\ call.args = args /\ done' = Append(done, call)
      BY <1>1, <2>2
    <3> HIDE DEF call, S
    <3>4. /\ Len(done') = Len(done) + 1 /\ Len(done) \in Nat
          /\ \A k \in 1 .. Len(done) : done'[k] = done[k]
          /\ done'[Len(done) + 1] = call
      BY <3>2, <3>3, AppendProperties, LenProperties
    <3>5. ASSUME NEW k \in 1 .. Len(done')
          PROVE  MessagesOf(done'[k].frames) = Leaves[done'[k].args]
      <4>1. k \in 1 .. Len(done) \/ k = Len(done) + 1
        BY <3>4
      <4>2. CASE k \in 1 .. Len(done)
        BY <3>4, <4>2 DEF LeavesInv, SentAsLeaves
      <4>3. CASE k = Len(done) + 1
        BY <1>11, <2>2, <3>3, <3>4, <4>3
      <4>4. QED
        BY <4>1, <4>2, <4>3
    <3>6. QED
      BY <3>5 DEF SentAsLeaves
  <2>3. QED
    BY <2>1, <2>2
<1>13. QED
  BY <1>3, <1>5, <1>6, <1>10, <1>11, <1>12 DEF LeavesInv

\* All other steps leave the frames of the running call alone, or end it.
LEMMA OtherLeaves ==
  ASSUME LeavesInv,
         \/ \E outcome \in {"false", "throw"} : GiveUp(outcome)
         \/ \E finite \in BOOLEAN : SetSendTimeout(finite)
         \/ PeerTakes
         \/ TerminateContext
         \/ UNCHANGED vars
  PROVE  LeavesInv'
<1>1. /\ done' = done
      /\ Running' => Running /\ UNCHANGED <<pending, args, emitted, calls>>
  BY DEF GiveUp, SetSendTimeout, PeerTakes, TerminateContext, vars, sockVars,
         zmqVars, history, Running
<1>2. OnTheWay'
  BY <1>1 DEF LeavesInv, OnTheWay
<1>3. QED
  BY <1>1, <1>2 DEF LeavesInv, SentAsLeaves

LEMMA NextLeavesInv == IInv /\ LeavesInv /\ [Next]_vars => LeavesInv'
<1> SUFFICES ASSUME IInv, LeavesInv, [Next]_vars
             PROVE  LeavesInv'
  OBVIOUS
<1>1. ASSUME NEW a \in Calls, CallSend(a)
      PROVE  LeavesInv'
  BY <1>1, CallSendLeaves
<1>2. CASE EnterComposite
  BY <1>2, EnterCompositeLeaves
<1>3. CASE SendMessage
  BY <1>3, SendMessageLeaves
<1>4. CASE SendTimesOut \/ SendTerminated \/ SendInterrupted \/ CompositeFails
  BY <1>4, OtherLeaves
  DEF SendTimesOut, SendTerminated, SendInterrupted, CompositeFails
<1>5. CASE \/ \E finite \in BOOLEAN : SetSendTimeout(finite)
           \/ PeerTakes \/ TerminateContext \/ UNCHANGED vars
  BY <1>5, OtherLeaves
<1>6. QED
  BY <1>1, <1>2, <1>3, <1>4, <1>5 DEF Next, Application, Library
----------------------------------------------------------------------------
(* Theorems.                                                               *)

LEMMA Invariance == Spec => []IInv
<1>1. Init => IInv
  BY InitIInv
<1>2. IInv /\ [Next]_vars => IInv'
  BY NextIInv
<1>3. QED
  BY <1>1, <1>2, PTL DEF Spec

\* The variables keep their types, and the pipe stays within its mark.
THEOREM TypeCorrect == Spec => []TypeOK
<1>1. IInv => TypeOK
  BY DEF IInv
<1>2. QED
  BY <1>1, Invariance, PTL

\* Whatever the composites and their nesting, ZMQ_SNDMORE is passed on all
\* frames of a call but the last.
THEOREM FlagsCorrect == Spec => []MoreToSendDiscipline
<1>1. IInv => MoreToSendDiscipline
  BY DEF IInv
<1>2. QED
  BY <1>1, Invariance, PTL

\* libzmq holds back what a running call has emitted, behind what it found.
THEOREM HeldBackCorrect == Spec => []HeldBack
<1>1. IInv => HeldBack
  BY DEF IInv
<1>2. QED
  BY <1>1, Invariance, PTL

\* Messages on the wire are the calls that returned true, one to one and in
\* order, each whole.
THEOREM SendIsAtomic == Spec => []AtomicSend
<1>1. IInv => AtomicSend
  BY DEF IInv
<1>2. QED
  BY <1>1, Invariance, PTL

\* A time-out never strikes between two frames, and leaves nothing behind.
THEOREM TimeoutIsClean == Spec => TimeoutLeavesNothing
<1>1. IInv /\ [Next]_vars => [SendTimesOut => emitted = <<>> /\ unfinished = <<>>]_vars
  <2> SUFFICES ASSUME IInv, SendTimesOut
               PROVE  emitted = <<>> /\ unfinished = <<>>
    OBVIOUS
  <2>1. unfinished = <<>> /\ pending # <<>>
    BY DEF SendTimesOut, CanAccept, Running
  <2>2. unfinished = carried \o emitted
    BY <2>1 DEF IInv, HeldBack, Running
  <2>3. emitted = <<>>
    <3>1. carried \in Seq(Frames) /\ emitted \in Seq(Frames)
      BY SequenceTypes DEF IInv
    <3>2. carried \o emitted = <<>>
      BY <2>1, <2>2
    <3>3. QED
      BY <3>1, <3>2, ConcatEqualIffEmpty
  <2>4. QED
    BY <2>1, <2>3
<1>2. QED
  BY <1>1, Invariance, PTL DEF Spec, TimeoutLeavesNothing

\* Whatever the nesting, a call that returns true has put the leaves of its
\* parameters on the socket, from left to right and each once.
THEOREM LeavesAreSent == Spec => []SentAsLeaves
<1>1. Init => LeavesInv
  BY InitLeavesInv
<1>2. IInv /\ LeavesInv /\ [Next]_vars => LeavesInv'
  BY NextLeavesInv
<1>3. LeavesInv => SentAsLeaves
  BY DEF LeavesInv
<1>4. QED
  BY <1>1, <1>2, <1>3, Invariance, PTL DEF Spec
=============================================================================
