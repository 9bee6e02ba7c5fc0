---------------------- MODULE MultipartReceive_proofs ----------------------
(***************************************************************************)
(* Proofs about MultipartReceive, for every set of Receivables, every      *)
(* nesting of composites, every length of messages and any number of them. *)
(*                                                                         *)
(* Neither CallWithinOneMessage nor TrueMeansWhole is inductive.  That a   *)
(* call takes no frame of a second message rests on the flag, as it is     *)
(* followed at every level (FlagFollowed); that it returns true only at    *)
(* the end of its message rests on what may follow what on the call stack  *)
(* (TodoShape): the last thing a call does is never the last part of a     *)
(* composite, which leaves the flag alone.                                 *)
(*                                                                         *)
(* That a call which returns true has filled exactly the leaves of its     *)
(* parameters follows from OnTheWay: what it has filled, and what the rest *)
(* of the call stack stands for, are in this order the leaves of them.     *)
(***************************************************************************)
EXTENDS MultipartReceive, SequenceTheorems, TLAPS

\* The last parameter of socket.receive(): nothing is left to do after it.
Ends(step) == step.last /\ ~step.nested

\* What follows any other step: the end of its composite after a last part, the
\* next item of the same list otherwise.
OpAfter(step) == IF step.last THEN "finish" ELSE "receive"

WellNested(s) ==
  /\ \A i \in 1 .. Len(s) : Ends(s[i]) <=> i = Len(s)
  /\ \A i \in 1 .. Len(s) - 1 : s[i + 1].op = OpAfter(s[i])

TodoShape == WellNested(todo)

\* Once a call has taken a frame, the flag says whether its message goes on,
\* and the call goes on to another item only if it does.
FlagFollowed ==
  Running =>
    /\ stored # <<>> => (moreToReceive <=> Misaligned)
    /\ stored # <<>> /\ todo[1].op = "receive" => moreToReceive
    /\ todo[1].op = "finish" => stored # <<>>

\* If sockets left in the middle of a message are given up, a call starts at
\* the beginning of a message, and has taken all of it up to `read'.
FromTheStart ==
  Running /\ ~ReuseMisaligned =>
    IF stored = <<>> THEN ~Misaligned ELSE Len(stored) = read

IInv ==
  /\ TypeOK /\ TodoShape /\ FlagFollowed /\ FromTheStart
  /\ CallWithinOneMessage /\ TrueMeansWhole

\* The sequences and records that TypeOK speaks of.
WholeMessages == Seq(Frames) \ {<<>>}
Takings == [into : Messages, frame : Frames]
Outcomes == [args : Seq(Receivables), stored : Seq(Takings),
             message : Seq(Frames)]

\* The part of TypeOK that the end of an item's receive() can disturb.
CallTyped ==
  /\ todo \in Seq(Steps)
  /\ args \in Seq(Receivables)
  /\ result \in Results
  /\ rcvTimeout \in BOOLEAN
  /\ received \in Seq(Outcomes)
  /\ Running <=> result = "running"

\* The rest of it: what arrives, and what is taken.
FramesTyped ==
  /\ stored \in Seq(Takings)
  /\ moreToReceive \in BOOLEAN
  /\ current \in Seq(Frames)
  /\ read \in 0 .. Len(current)
  /\ inbox \in Seq(WholeMessages)
  /\ terminated \in BOOLEAN
  /\ arrived \in 0 .. MaxArrivals

\* What TrueMeansWhole says of one call.
Whole(call) ==
  /\ Len(call.stored) <= Len(call.message)
  /\ \A i \in 1 .. Len(call.stored) :
       call.stored[i].frame
         = call.message[Len(call.message) - Len(call.stored) + i]
  /\ ReuseMisaligned \/ Len(call.stored) = Len(call.message)

\* What the end of an item's receive() leaves of the invariant.
CallInv ==
  /\ CallTyped /\ TodoShape /\ FlagFollowed /\ FromTheStart /\ TrueMeansWhole
----------------------------------------------------------------------------
(* The call stack.                                                         *)

\* A list of receivables as calls of receive() (ReceivingSocket.hpp:81).
LEMMA ReceivesWellFormed ==
  ASSUME NEW items \in Seq(Receivables), items # <<>>,
         NEW inComposite \in BOOLEAN
  PROVE  /\ Receives(items, inComposite) \in Seq(Steps)
         /\ Len(Receives(items, inComposite)) \in Nat \ {0}
         /\ \A i \in 1 .. Len(Receives(items, inComposite)) :
              LET step == Receives(items, inComposite)[i] IN
              /\ step.op = "receive"
              /\ step.last <=> i = Len(Receives(items, inComposite))
              /\ step.nested = inComposite
<1>1. Len(items) \in Nat \ {0}
      /\ \A i \in 1 .. Len(items) : items[i] \in Receivables
  BY EmptySeq, ElementOfSeq
<1>2. Receives(items, inComposite) \in [1 .. Len(items) -> Steps]
  BY <1>1 DEF Receives, Steps
<1>3. /\ Receives(items, inComposite) \in Seq(Steps)
      /\ Len(Receives(items, inComposite)) = Len(items)
  BY <1>1, <1>2, SeqDef
<1>4. QED
  BY <1>1, <1>3 DEF Receives

\* What is known of a well nested stack once its head is done.
LEMMA RestWellNested ==
  ASSUME NEW s \in Seq(Steps), s # <<>>, WellNested(s)
  PROVE  /\ Head(s) \in Steps /\ Head(s) = s[1]
         /\ Tail(s) \in Seq(Steps)
         /\ Len(s) \in Nat \ {0} /\ Len(Tail(s)) = Len(s) - 1
         /\ \A i \in 1 .. Len(Tail(s)) : Tail(s)[i] = s[i + 1]
         /\ WellNested(Tail(s))
         /\ Tail(s) = <<>> <=> Ends(Head(s))
         /\ Tail(s) # <<>> => Tail(s)[1].op = OpAfter(Head(s))
<1>1. /\ Head(s) \in Steps /\ Head(s) = s[1]
      /\ Tail(s) \in Seq(Steps)
      /\ Len(s) \in Nat \ {0} /\ Len(Tail(s)) = Len(s) - 1
      /\ \A i \in 1 .. Len(Tail(s)) : Tail(s)[i] = s[i + 1]
  BY HeadTailProperties, EmptySeq
<1>2. Tail(s) = <<>> <=> Len(s) = 1
  BY <1>1, EmptySeq
<1>3. ASSUME NEW i \in 1 .. Len(Tail(s))
      PROVE  Ends(Tail(s)[i]) <=> i = Len(Tail(s))
  <2>1. /\ i + 1 \in 1 .. Len(s) /\ Tail(s)[i] = s[i + 1]
        /\ i + 1 = Len(s) <=> i = Len(Tail(s))
    BY <1>1
  <2>2. Ends(s[i + 1]) <=> i + 1 = Len(s)
    BY <2>1 DEF WellNested
  <2>3. QED
    BY <2>1, <2>2
<1>4. ASSUME NEW i \in 1 .. Len(Tail(s)) - 1
      PROVE  Tail(s)[i + 1].op = OpAfter(Tail(s)[i])
  <2>1. /\ Tail(s)[i] = s[i + 1]
        /\ Tail(s)[i + 1] = s[(i + 1) + 1]
        /\ i + 1 \in 1 .. Len(s) - 1
    BY <1>1
  <2>2. QED
    BY <2>1 DEF WellNested
<1>5. Tail(s) = <<>> <=> Ends(Head(s))
  <2>1. 1 \in 1 .. Len(s)
    BY <1>1
  <2>2. Ends(s[1]) <=> 1 = Len(s)
    BY <2>1 DEF WellNested
  <2>3. QED
    BY <1>1, <1>2, <2>2
<1>6. ASSUME Tail(s) # <<>>
      PROVE  Tail(s)[1].op = OpAfter(Head(s))
  <2>1. Tail(s)[1] = s[1 + 1] /\ 1 \in 1 .. Len(s) - 1
    BY <1>1, <1>2, <1>6
  <2>2. QED
    BY <1>1, <2>1 DEF WellNested
<1>7. QED
  BY <1>1, <1>3, <1>4, <1>5, <1>6 DEF WellNested

\* Entering a composite puts its parts and its end in its place.
LEMMA EnterWellNested ==
  ASSUME NEW parts \in Seq(Steps), Len(parts) \in Nat \ {0},
         \A i \in 1 .. Len(parts) :
           /\ parts[i].op = "receive"
           /\ ~Ends(parts[i])
           /\ OpAfter(parts[i]) = IF i = Len(parts) THEN "finish"
                                                    ELSE "receive",
         NEW s \in Seq(Steps), s # <<>>, WellNested(s),
         NEW end \in Steps, end.op = "finish",
         Ends(end) <=> Ends(Head(s)), OpAfter(end) = OpAfter(Head(s))
  PROVE  LET t == parts \o <<end>> \o Tail(s) IN
         /\ t \in Seq(Steps) /\ t # <<>>
         /\ t[1].op = "receive"
         /\ WellNested(t)
<1> DEFINE front == parts \o <<end>>
           rest  == Tail(s)
           t     == front \o rest
           n     == Len(parts)
<1>1. /\ rest \in Seq(Steps) /\ Len(rest) \in Nat
      /\ WellNested(rest)
      /\ rest = <<>> <=> Ends(Head(s))
      /\ rest # <<>> => rest[1].op = OpAfter(Head(s))
  BY RestWellNested
<1>2. <<end>> \in Seq(Steps) /\ Len(<<end>>) = 1 /\ <<end>>[1] = end
  OBVIOUS
<1>3. /\ front \in Seq(Steps) /\ Len(front) = n + 1
      /\ \A i \in 1 .. n + 1 :
           front[i] = IF i <= n THEN parts[i] ELSE <<end>>[i - n]
  BY <1>2, ConcatProperties
<1>n. /\ n \in Nat \ {0}
      /\ \A i \in 1 .. n :
           /\ parts[i].op = "receive"
           /\ ~Ends(parts[i])
           /\ OpAfter(parts[i]) = IF i = n THEN "finish" ELSE "receive"
  OBVIOUS
<1> HIDE DEF front, rest, n
<1> USE <1>n
<1>4. /\ \A i \in 1 .. n : front[i] = parts[i]
      /\ front[n + 1] = end
  <2>1. \A i \in 1 .. n : front[i] = parts[i]
    BY <1>3, <1>n
  <2>2. front[n + 1] = <<end>>[n + 1 - n] /\ n + 1 - n = 1
    BY <1>3, <1>n
  <2>3. QED
    BY <1>2, <2>1, <2>2
<1>5. /\ t \in Seq(Steps) /\ Len(t) = n + 1 + Len(rest)
      /\ \A i \in 1 .. n + 1 + Len(rest) :
           t[i] = IF i <= n + 1 THEN front[i] ELSE rest[i - (n + 1)]
  <2>1. /\ t \in Seq(Steps) /\ Len(t) = Len(front) + Len(rest)
        /\ \A i \in 1 .. Len(front) + Len(rest) :
             t[i] = IF i <= Len(front) THEN front[i]
                                       ELSE rest[i - Len(front)]
    <3>1. front \in Seq(Steps) /\ rest \in Seq(Steps)
      BY <1>1, <1>3
    <3>2. QED
      BY <3>1, ConcatProperties
  <2>2. Len(front) = n + 1
    BY <1>3
  <2>3. QED
    BY <2>1, <2>2
<1> HIDE DEF t
<1>6. /\ \A i \in 1 .. n : t[i] = parts[i]
      /\ t[n + 1] = end
      /\ \A i \in 1 .. Len(rest) : t[n + 1 + i] = rest[i]
  <2>1. ASSUME NEW i \in 1 .. n
        PROVE  t[i] = parts[i]
    <3>1. i \in 1 .. n + 1 + Len(rest) /\ i <= n + 1
      BY <1>1
    <3>2. QED
      BY <1>4, <1>5, <3>1
  <2>2. t[n + 1] = end
    BY <1>1, <1>4, <1>5
  <2>3. ASSUME NEW i \in 1 .. Len(rest)
        PROVE  t[n + 1 + i] = rest[i]
    <3>1. n + 1 + i - (n + 1) = i /\ n + 1 + i \in 1 .. n + 1 + Len(rest)
          /\ ~(n + 1 + i <= n + 1)
      BY <1>1
    <3>2. QED
      BY <1>5, <3>1
  <2>4. QED
    BY <2>1, <2>2, <2>3
<1>7. rest = <<>> <=> Len(rest) = 0
  BY <1>1, EmptySeq
<1>8. ASSUME NEW i \in 1 .. Len(t)
      PROVE  Ends(t[i]) <=> i = Len(t)
  <2>1. CASE i <= n
    BY <1>1, <1>5, <1>6, <2>1
  <2>2. CASE i = n + 1
    BY <1>1, <1>5, <1>6, <1>7, <2>2
  <2>3. CASE i > n + 1
    <3>1. /\ i - (n + 1) \in 1 .. Len(rest)
          /\ t[i] = rest[i - (n + 1)]
      BY <1>1, <1>5, <2>3
    <3>2. Ends(t[i]) <=> i - (n + 1) = Len(rest)
      BY <1>1, <3>1 DEF WellNested
    <3>3. QED
      BY <1>1, <1>5, <3>2
  <2>4. QED
    BY <1>1, <1>5, <2>1, <2>2, <2>3
<1>9. ASSUME NEW i \in 1 .. Len(t) - 1
      PROVE  t[i + 1].op = OpAfter(t[i])
  <2>1. CASE i < n
    <3>1. t[i] = parts[i] /\ t[i + 1] = parts[i + 1] /\ i + 1 \in 1 .. n
      BY <1>5, <1>6, <2>1
    <3>2. QED
      BY <2>1, <3>1
  <2>2. CASE i = n
    BY <1>5, <1>6, <2>2
  <2>3. CASE i = n + 1
    <3>1. rest # <<>> /\ t[i] = end /\ t[i + 1] = rest[1]
      BY <1>1, <1>5, <1>6, <1>7, <2>3
    <3>2. QED
      BY <1>1, <3>1
  <2>4. CASE i > n + 1
    <3> DEFINE j == i - (n + 1)
    <3>1. /\ j \in 1 .. Len(rest) - 1
          /\ t[i] = rest[j] /\ t[i + 1] = rest[j + 1]
      <4>1. j \in 1 .. Len(rest) - 1 /\ i + 1 - (n + 1) = j + 1
        BY <1>1, <1>5, <2>4
      <4>2. QED
        BY <1>1, <1>5, <2>4, <4>1
    <3> HIDE DEF j
    <3>2. QED
      BY <1>1, <3>1 DEF WellNested
  <2>5. QED
    BY <2>1, <2>2, <2>3, <2>4, <1>1, <1>5
<1>10. t # <<>> /\ t[1].op = "receive"
  <2>1. 1 \in 1 .. n /\ Len(t) # 0
    BY <1>1, <1>5
  <2>2. t[1] = parts[1]
    BY <1>6, <2>1
  <2>3. t # <<>>
    BY <1>5, <2>1, EmptySeq
  <2>4. QED
    BY <2>1, <2>2, <2>3
<1>11. WellNested(t)
  BY <1>8, <1>9 DEF WellNested
<1>12. QED
  BY <1>5, <1>10, <1>11, Zenon DEF t, front, rest

\* receive() of a composite is entered: the stack stays typed and well nested,
\* and the call of its first part comes next.
LEMMA EnterKeepsShape ==
  ASSUME todo \in Seq(Steps), TodoShape, EnterComposite
  PROVE  /\ todo' \in Seq(Steps) /\ todo' # <<>>
         /\ todo'[1].op = "receive"
         /\ TodoShape'
<1> DEFINE h == Head(todo)
           parts == Receives(Parts[h.item], TRUE)
           end == [h EXCEPT !.op = "finish"]
<1>1. /\ todo # <<>> /\ h.item \in Composites
      /\ todo' = parts \o <<end>> \o Tail(todo)
  BY DEF EnterComposite, Running
<1>2. h \in Steps
  BY <1>1, RestWellNested DEF TodoShape
<1>3. Parts[h.item] \in Seq(Receivables) /\ Parts[h.item] # <<>>
  BY <1>1, NestingAssumption DEF Receivables
<1>4. /\ parts \in Seq(Steps)
      /\ Len(parts) \in Nat \ {0}
      /\ \A i \in 1 .. Len(parts) :
           /\ parts[i].op = "receive"
           /\ parts[i].last <=> i = Len(parts)
           /\ parts[i].nested = TRUE
  BY <1>3, ReceivesWellFormed
<1>5. /\ end \in Steps /\ end.op = "finish"
      /\ Ends(end) <=> Ends(h)
      /\ OpAfter(end) = OpAfter(h)
  BY <1>2 DEF Steps, Ends, OpAfter
<1> HIDE DEF parts, end
<1>6. ASSUME NEW i \in 1 .. Len(parts)
      PROVE  /\ parts[i].op = "receive"
             /\ ~Ends(parts[i])
             /\ OpAfter(parts[i]) = IF i = Len(parts) THEN "finish"
                                                      ELSE "receive"
  BY <1>4 DEF Ends, OpAfter
<1> DEFINE t == parts \o <<end>> \o Tail(todo)
<1>7. /\ t \in Seq(Steps) /\ t # <<>>
      /\ t[1].op = "receive"
      /\ WellNested(t)
  BY <1>1, <1>4, <1>5, <1>6, EnterWellNested DEF TodoShape
<1>8. todo' = t
  BY <1>1
<1> HIDE DEF t
<1>9. QED
  BY <1>7, <1>8 DEF TodoShape
----------------------------------------------------------------------------
(* How the receive() of an item ends.                                      *)

\* TypeOK, taken apart.
LEMMA TypeOKSplits == TypeOK <=> CallTyped /\ FramesTyped
  BY DEF TypeOK, CallTyped, FramesTyped, Takings, Outcomes, WholeMessages

\* TrueMeansWhole, call by call.
LEMMA WholeCalls ==
  TrueMeansWhole <=> \A k \in 1 .. Len(received) : Whole(received[k])
  BY DEF TrueMeansWhole, Whole

\* Between calls, nothing is left of the invariant but types and history.
LEMMA IdleIsFine ==
  ASSUME todo = <<>>
  PROVE  TodoShape /\ FlagFollowed /\ FromTheStart
  BY DEF TodoShape, WellNested, FlagFollowed, FromTheStart, Running

\* A call that gives up.
LEMMA GivenUp ==
  ASSUME CallTyped, TrueMeansWhole,
         NEW outcome \in {"false", "throw"}, GiveUp(outcome)
  PROVE  CallInv'
<1>1. /\ todo' = <<>> /\ result' = outcome
      /\ UNCHANGED <<args, rcvTimeout, received>>
  BY DEF GiveUp
<1>2. CallTyped'
  BY <1>1 DEF CallTyped, Results, Running
<1>3. TrueMeansWhole'
  BY <1>1 DEF TrueMeansWhole
<1>4. (TodoShape /\ FlagFollowed /\ FromTheStart)'
  BY <1>1 DEF TodoShape, WellNested, FlagFollowed, FromTheStart, Running
<1>5. QED
  BY <1>2, <1>3, <1>4 DEF CallInv

\* The receive() of an item returned true, with the frames stored', up to
\* frame read' of the message current'.
LEMMA Returned ==
  ASSUME CallTyped, TodoShape, TrueMeansWhole, Running,
         FramesTyped', stored' # <<>>, CallWithinOneMessage',
         moreToReceive' <=> Misaligned',
         ~ReuseMisaligned => Len(stored') = read',
         NextReceivable
  PROVE  CallInv'
<1> DEFINE h == Head(todo)
           rest == Tail(todo)
           call == [args |-> args, stored |-> stored', message |-> current']
<1>1. /\ todo \in Seq(Steps) /\ todo # <<>>
      /\ result = "running"
  BY DEF CallTyped, Running
<1>2. /\ h \in Steps /\ rest \in Seq(Steps)
      /\ WellNested(rest)
      /\ rest = <<>> <=> Ends(h)
      /\ rest # <<>> => rest[1].op = OpAfter(h)
  BY <1>1, RestWellNested DEF TodoShape
<1>3. CASE ~FlagAgrees(h, moreToReceive')
  <2>1. GiveUp("false")
    BY <1>3 DEF NextReceivable
  <2>2. QED
    BY <2>1, GivenUp
<1>4. CASE FlagAgrees(h, moreToReceive') /\ rest # <<>>
  <2>1. /\ todo' = rest
        /\ UNCHANGED <<result, received, args, rcvTimeout>>
    BY <1>4 DEF NextReceivable
  <2>2. CallTyped'
    BY <1>1, <1>2, <1>4, <2>1 DEF CallTyped, Running
  <2>3. TodoShape'
    BY <1>2, <2>1 DEF TodoShape
  <2>4. todo'[1].op = "receive" => moreToReceive'
    <3>1. todo'[1].op = "receive" => ~h.last
      BY <1>2, <1>4, <2>1 DEF OpAfter
    <3>2. QED
      BY <1>4, <3>1 DEF FlagAgrees
  <2>5. FlagFollowed'
    BY <2>4 DEF FlagFollowed
  <2>6. FromTheStart'
    BY DEF FromTheStart
  <2>7. TrueMeansWhole'
    BY <2>1 DEF TrueMeansWhole
  <2>8. QED
    BY <2>2, <2>3, <2>5, <2>6, <2>7 DEF CallInv
<1>5. CASE FlagAgrees(h, moreToReceive') /\ rest = <<>>
  <2>1. /\ todo' = <<>> /\ result' = "true"
        /\ received' = Append(received, call)
        /\ UNCHANGED <<args, rcvTimeout>>
    BY <1>5 DEF NextReceivable
  <2>2. (TodoShape /\ FlagFollowed /\ FromTheStart)'
    BY <2>1 DEF TodoShape, WellNested, FlagFollowed, FromTheStart, Running
  <2>3. call \in Outcomes
    BY DEF Outcomes, CallTyped, FramesTyped
  <2>4. /\ received \in Seq(Outcomes)
        /\ received' \in Seq(Outcomes)
        /\ Len(received') = Len(received) + 1
        /\ \A k \in 1 .. Len(received) : received'[k] = received[k]
        /\ received'[Len(received) + 1] = call
    <3>1. received \in Seq(Outcomes)
      BY DEF CallTyped
    <3> HIDE DEF call
    <3>2. QED
      BY <2>1, <2>3, <3>1, AppendProperties
  <2>5. CallTyped'
    BY <2>1, <2>4 DEF CallTyped, Results, Running
  <2>6. read' = Len(current')
    <3>1. h.last /\ ~h.nested
      BY <1>2, <1>5 DEF Ends
    <3>2. ~moreToReceive'
      BY <1>5, <3>1 DEF FlagAgrees
    <3>3. ~(read' < Len(current'))
      BY <3>2 DEF Misaligned
    <3>4. QED
      BY <3>3 DEF FramesTyped
  <2>7. Whole(call)
    BY <2>6 DEF Whole, CallWithinOneMessage
  <2>8. TrueMeansWhole'
    <3> HIDE DEF call
    <3>1. Len(received) \in Nat /\ Len(received') \in Nat
      BY <2>4
    <3>2. \A k \in 1 .. Len(received) : Whole(received[k])
      BY WholeCalls
    <3>3. ASSUME NEW k \in 1 .. Len(received')
          PROVE  Whole(received'[k])
      BY <2>4, <2>7, <3>1, <3>2
    <3>4. QED
      BY <3>3 DEF TrueMeansWhole, Whole
  <2>9. QED
    BY <2>2, <2>5, <2>8 DEF CallInv
<1>6. QED
  BY <1>3, <1>4, <1>5
----------------------------------------------------------------------------
(* Taking a frame.                                                         *)

\* A frame is taken from the message that was begun, or from the next one; the
\* latter only if the call has not taken any frame before.
LEMMA FrameTaken ==
  ASSUME TypeOK, FlagFollowed, FromTheStart, CallWithinOneMessage,
         ReceiveFrame
  PROVE  /\ FramesTyped' /\ stored' # <<>>
         /\ CallWithinOneMessage'
         /\ moreToReceive' <=> Misaligned'
         /\ ~ReuseMisaligned => Len(stored') = read'
<1> DEFINE taking == [into |-> Head(todo).item, frame |-> current'[read']]
<1>1. /\ Running /\ todo \in Seq(Steps) /\ todo # <<>>
      /\ Head(todo) = todo[1]
      /\ Head(todo).op = "receive" /\ Head(todo).item \in Messages
  BY HeadTailProperties DEF ReceiveFrame, AtMessage, Running, TypeOK
<1>2. /\ stored \in Seq(Takings) /\ Len(stored) \in Nat
      /\ stored = <<>> <=> Len(stored) = 0
  BY EmptySeq DEF TypeOK, Takings
<1>3. stored # <<>> => Misaligned
  BY <1>1 DEF FlagFollowed
<1>4. /\ current' \in Seq(Frames) /\ Len(current') \in Nat
      /\ read' \in 1 .. Len(current')
      /\ inbox' \in Seq(WholeMessages)
      /\ stored # <<>> => current' = current /\ read' = read + 1
      /\ Misaligned => read' = read + 1
      /\ ~Misaligned => read' = 1
  <2>1. CASE Misaligned
    BY <2>1 DEF ReceiveFrame, ZmqTake, TypeOK, Misaligned, WholeMessages
  <2>2. CASE ~Misaligned
    <3>1. /\ inbox # <<>> /\ current' = Head(inbox)
          /\ inbox' = Tail(inbox) /\ read' = 1
      BY <2>2 DEF ReceiveFrame, ZmqTake, FrameAvailable
    <3>2. inbox \in Seq(WholeMessages)
      BY DEF TypeOK, WholeMessages
    <3>3. current' \in WholeMessages /\ inbox' \in Seq(WholeMessages)
      BY <3>1, <3>2, HeadTailProperties
    <3>4. current' \in Seq(Frames) /\ Len(current') \in Nat \ {0}
      BY <3>3, EmptySeq DEF WholeMessages
    <3>5. QED
      BY <1>3, <2>2, <3>1, <3>3, <3>4
  <2>3. QED
    BY <2>1, <2>2
<1>5. taking \in Takings
  BY <1>1, <1>4, ElementOfSeq DEF Takings
<1>6. /\ stored' = Append(stored, taking)
      /\ stored' \in Seq(Takings) /\ stored' # <<>>
      /\ Len(stored') = Len(stored) + 1
      /\ \A i \in 1 .. Len(stored) : stored'[i] = stored[i]
      /\ stored'[Len(stored) + 1] = taking
  <2>1. stored' = Append(stored, taking)
    BY DEF ReceiveFrame
  <2> HIDE DEF taking
  <2>2. QED
    BY <1>2, <1>5, <2>1, AppendProperties
<1>7. moreToReceive' <=> Misaligned'
  BY DEF ReceiveFrame, Misaligned
<1>8. FramesTyped'
  <2>1. terminated' \in BOOLEAN /\ arrived' \in 0 .. MaxArrivals
    BY DEF ReceiveFrame, TypeOK
  <2>2. moreToReceive' \in BOOLEAN /\ read' \in 0 .. Len(current')
    BY <1>4 DEF ReceiveFrame
  <2>3. QED
    BY <1>4, <1>6, <2>1, <2>2 DEF FramesTyped
<1>9. Len(stored) <= read /\ read \in Nat
  BY DEF CallWithinOneMessage, TypeOK
<1>10. CallWithinOneMessage'
  <2>1. Len(stored') <= read'
    BY <1>2, <1>3, <1>4, <1>6, <1>9
  <2>2. ASSUME NEW i \in 1 .. Len(stored')
        PROVE  stored'[i].frame = current'[read' - Len(stored') + i]
    <3>1. CASE i = Len(stored) + 1
      BY <1>2, <1>4, <1>6, <3>1
    <3>2. CASE i # Len(stored) + 1
      <4>1. i \in 1 .. Len(stored) /\ stored # <<>>
        BY <1>2, <1>6, <3>2
      <4>2. stored'[i] = stored[i]
        BY <1>6, <4>1
      <4>3. stored[i].frame = current[read - Len(stored) + i]
        BY <4>1 DEF CallWithinOneMessage
      <4>4. /\ current' = current
            /\ read' - Len(stored') + i = read - Len(stored) + i
        BY <1>2, <1>4, <1>6, <1>9, <4>1
      <4>5. QED
        BY <4>2, <4>3, <4>4
    <3>3. QED
      BY <3>1, <3>2
  <2>3. QED
    BY <2>1, <2>2 DEF CallWithinOneMessage
<1>11. ASSUME ~ReuseMisaligned
       PROVE  Len(stored') = read'
  BY <1>1, <1>2, <1>3, <1>4, <1>6, <1>11 DEF FromTheStart
<1>12. QED
  BY <1>6, <1>7, <1>8, <1>10, <1>11
----------------------------------------------------------------------------
(* The invariant.                                                          *)

\* A fresh socket satisfies the invariant.
LEMMA InitIInv == Init => IInv
<1> SUFFICES ASSUME Init PROVE IInv
  OBVIOUS
<1>1. TypeOK
  <2>1. CallTyped
    <3>1. /\ <<>> \in Seq(Steps) /\ <<>> \in Seq(Receivables)
          /\ <<>> \in Seq(Outcomes)
      BY EmptySeq
    <3>2. QED
      BY <3>1, Zenon DEF Init, CallTyped, Results, Running
  <2>2. FramesTyped
    <3>1. /\ <<>> \in Seq(Takings) /\ <<>> \in Seq(WholeMessages)
          /\ <<>> \in Seq(Frames) /\ 0 \in 0 .. Len(<<>>)
          /\ 0 \in 0 .. MaxArrivals
      BY EmptySeq, ReceiveAssumption
    <3>2. QED
      BY <3>1, Zenon DEF Init, FramesTyped
  <2>3. QED
    BY <2>1, <2>2, TypeOKSplits
<1>2. TodoShape /\ FlagFollowed /\ FromTheStart
  BY IdleIsFine DEF Init
<1>3. CallWithinOneMessage /\ TrueMeansWhole
  BY DEF Init, CallWithinOneMessage, TrueMeansWhole
<1>4. QED
  BY <1>1, <1>2, <1>3 DEF IInv

\* A message that comes in behind the others disturbs nothing.
LEMMA InboxGrows ==
  ASSUME IInv, NEW m \in WholeMessages,
         inbox' = Append(inbox, m), arrived' \in 0 .. MaxArrivals,
         UNCHANGED <<sockVars, current, read, terminated, received>>
  PROVE  IInv'
<1> USE DEF IInv
<1>1. CallTyped /\ FramesTyped
  BY TypeOKSplits
<1>2. CallTyped' /\ FramesTyped' => TypeOK'
  BY DEF TypeOK, CallTyped, FramesTyped, Takings, Outcomes, WholeMessages
<1>3. inbox \in Seq(WholeMessages)
  BY <1>1 DEF FramesTyped
<1>4. inbox' \in Seq(WholeMessages)
  BY <1>3, AppendProperties
<1>5. FramesTyped'
  BY <1>1, <1>4 DEF FramesTyped, sockVars
<1>6. CallTyped'
  BY <1>1 DEF CallTyped, Running, sockVars
<1>7. (/\ TodoShape /\ FlagFollowed /\ FromTheStart
       /\ CallWithinOneMessage /\ TrueMeansWhole)'
  BY DEF TodoShape, FlagFollowed, FromTheStart, Running, Misaligned,
     CallWithinOneMessage, TrueMeansWhole, sockVars
<1>8. QED
  BY <1>2, <1>5, <1>6, <1>7

\* Every step preserves it: of the call, of libzmq, of the other thread.
LEMMA NextIInv == IInv /\ [Next]_vars => IInv'
<1> SUFFICES ASSUME IInv, [Next]_vars PROVE IInv'
  OBVIOUS
<1> USE DEF IInv
<1>1. CallTyped /\ FramesTyped
  BY TypeOKSplits
<1>2. CallTyped' /\ FramesTyped' => TypeOK'
  BY DEF TypeOK, CallTyped, FramesTyped, Takings, Outcomes, WholeMessages
<1>3. ASSUME NEW a \in Calls, CallReceive(a)
      PROVE  IInv'
  <2>1. a \in Seq(Receivables) /\ a # <<>>
    BY ReceiveAssumption
  <2>2. /\ todo' \in Seq(Steps)
        /\ Len(todo') \in Nat \ {0}
        /\ \A i \in 1 .. Len(todo') :
             /\ todo'[i].op = "receive"
             /\ todo'[i].last <=> i = Len(todo')
             /\ todo'[i].nested = FALSE
    BY <1>3, <2>1, ReceivesWellFormed DEF CallReceive
  <2>3. todo' # <<>> /\ todo'[1].op = "receive"
    BY <2>2, EmptySeq
  <2>4. /\ args' = a /\ stored' = <<>> /\ moreToReceive' = FALSE
        /\ result' = "running"
        /\ ReuseMisaligned \/ ~Misaligned
        /\ UNCHANGED <<rcvTimeout, zmqVars, history>>
    BY <1>3 DEF CallReceive
  <2>5. CallTyped'
    BY <1>1, <2>1, <2>2, <2>3, <2>4
       DEF CallTyped, Results, Running, history
  <2>6. FramesTyped'
    <3>1. stored' \in Seq(Takings)
      BY <2>4, EmptySeq
    <3>2. moreToReceive' \in BOOLEAN
      BY <2>4
    <3>3. QED
      BY <1>1, <2>4, <3>1, <3>2, Zenon DEF FramesTyped, zmqVars, history
  <2>7. TodoShape'
    <3>1. \A i \in 1 .. Len(todo') : Ends(todo'[i]) <=> i = Len(todo')
      BY <2>2 DEF Ends
    <3>2. ASSUME NEW i \in 1 .. Len(todo') - 1
          PROVE  todo'[i + 1].op = OpAfter(todo'[i])
      BY <2>2 DEF OpAfter
    <3>3. QED
      BY <3>1, <3>2 DEF TodoShape, WellNested
  <2>8. FlagFollowed' /\ FromTheStart' /\ CallWithinOneMessage'
    BY <1>1, <2>3, <2>4 DEF FlagFollowed, FromTheStart, Running, zmqVars,
       CallWithinOneMessage, Misaligned, FramesTyped
  <2>9. TrueMeansWhole'
    BY <2>4 DEF TrueMeansWhole, history
  <2>10. QED
    BY <1>2, <2>5, <2>6, <2>7, <2>8, <2>9
<1>4. ASSUME NEW finite \in BOOLEAN, SetReceiveTimeout(finite)
      PROVE  IInv'
  BY <1>1, <1>2, <1>4 DEF SetReceiveTimeout, zmqVars, history, CallTyped,
     FramesTyped, TodoShape, FlagFollowed, FromTheStart, Running, Misaligned,
     CallWithinOneMessage, TrueMeansWhole
<1>5. CASE EnterComposite
  <2>1. /\ todo' \in Seq(Steps) /\ todo' # <<>>
        /\ todo'[1].op = "receive"
        /\ TodoShape'
    BY <1>1, <1>5, EnterKeepsShape DEF CallTyped
  <2>2. /\ Running /\ todo[1].op = "receive"
        /\ UNCHANGED <<args, stored, moreToReceive, result, rcvTimeout,
                       zmqVars, history>>
    BY <1>1, <1>5, HeadTailProperties
       DEF EnterComposite, Running, CallTyped
  <2>3. CallTyped'
    BY <1>1, <2>1, <2>2 DEF CallTyped, Running, history
  <2>4. FramesTyped'
    BY <1>1, <2>2 DEF FramesTyped, zmqVars, history
  <2>5. FlagFollowed'
    BY <2>1, <2>2 DEF FlagFollowed, Misaligned, zmqVars
  <2>6. FromTheStart' /\ CallWithinOneMessage' /\ TrueMeansWhole'
    BY <2>2 DEF FromTheStart, Misaligned, CallWithinOneMessage,
       TrueMeansWhole, zmqVars, history
  <2>7. QED
    BY <1>2, <2>1, <2>3, <2>4, <2>5, <2>6
<1>6. CASE ReceiveFrame
  <2>1. /\ FramesTyped' /\ stored' # <<>>
        /\ CallWithinOneMessage'
        /\ moreToReceive' <=> Misaligned'
        /\ ~ReuseMisaligned => Len(stored') = read'
    BY <1>6, FrameTaken
  <2>2. Running /\ NextReceivable
    BY <1>6 DEF ReceiveFrame, AtMessage
  <2>3. CallInv'
    BY <1>1, <2>1, <2>2, Returned
  <2>4. QED
    BY <1>2, <2>1, <2>3 DEF CallInv
<1>7. CASE FinishComposite
  <2>1. /\ Running /\ todo[1].op = "finish"
        /\ UNCHANGED <<stored, moreToReceive, zmqVars, arrived>>
    BY <1>1, <1>7, HeadTailProperties
       DEF FinishComposite, Running, CallTyped
  <2>2. FramesTyped' /\ CallWithinOneMessage'
    BY <1>1, <2>1 DEF FramesTyped, CallWithinOneMessage, zmqVars
  <2>3. stored' # <<>> /\ (moreToReceive' <=> Misaligned')
    BY <2>1 DEF FlagFollowed, Misaligned, zmqVars
  <2>4. ~ReuseMisaligned => Len(stored') = read'
    BY <2>1, <2>3 DEF FromTheStart, zmqVars
  <2>5. CallInv'
    BY <1>1, <1>7, <2>1, <2>2, <2>3, <2>4, Returned DEF FinishComposite
  <2>6. QED
    BY <1>2, <2>2, <2>5 DEF CallInv
<1>8. CASE \/ CompositeFails \/ ReceiveTimesOut \/ ReceiveTerminated
           \/ ReceiveInterrupted
  <2>1. /\ moreToReceive' \in {moreToReceive, FALSE}
        /\ GiveUp("false") \/ GiveUp("throw")
        /\ UNCHANGED <<stored, zmqVars, arrived>>
    BY <1>8 DEF CompositeFails, ReceiveTimesOut, ReceiveTerminated,
                ReceiveInterrupted
  <2>2. CallInv'
    BY <1>1, <2>1, GivenUp
  <2>3. FramesTyped' /\ CallWithinOneMessage'
    BY <1>1, <2>1 DEF FramesTyped, CallWithinOneMessage, zmqVars
  <2>4. QED
    BY <1>2, <2>2, <2>3 DEF CallInv
<1>9. ASSUME NEW n \in Lengths, Arrive(n)
      PROVE  IInv'
  <2> DEFINE m == [i \in 1 .. n |-> <<arrived', i>>]
  <2>1. /\ arrived < MaxArrivals /\ arrived' = arrived + 1
        /\ inbox' = Append(inbox, m)
        /\ UNCHANGED <<sockVars, current, read, terminated, received>>
    BY <1>9 DEF Arrive
  <2>2. n \in Nat \ {0} /\ arrived' \in 1 .. MaxArrivals
    BY <1>1, <2>1, ReceiveAssumption DEF FramesTyped
  <2>3. m \in WholeMessages
    <3>1. \A i \in 1 .. n : <<arrived', i>> \in (1 .. MaxArrivals) \X (1 .. n)
      BY <2>2
    <3>2. \A i \in 1 .. n : <<arrived', i>> \in Frames
      BY <3>1, ReceiveAssumption
    <3>3. m \in Seq(Frames) /\ Len(m) = n
      BY <2>2, <3>2, SeqDef
    <3>4. QED
      BY <2>2, <3>3, EmptySeq DEF WholeMessages
  <2> HIDE DEF m
  <2>4. arrived' \in 0 .. MaxArrivals
    BY <2>2
  <2>5. QED
    BY <2>1, <2>3, <2>4, InboxGrows
<1>10. CASE TerminateContext
  BY <1>1, <1>2, <1>10 DEF TerminateContext, sockVars, history, CallTyped,
     FramesTyped, TodoShape, FlagFollowed, FromTheStart, Running, Misaligned,
     CallWithinOneMessage, TrueMeansWhole
<1>11. CASE UNCHANGED vars
  BY <1>1, <1>2, <1>11 DEF vars, sockVars, zmqVars, history, CallTyped,
     FramesTyped, TodoShape, FlagFollowed, FromTheStart, Running, Misaligned,
     CallWithinOneMessage, TrueMeansWhole
<1>12. QED
  BY <1>3, <1>4, <1>5, <1>6, <1>7, <1>8, <1>9, <1>10, <1>11
     DEF Next, Application, Library

\* The inductive invariant holds in every state.
THEOREM Invariance == Spec => []IInv
  BY InitIInv, NextIInv, PTL DEF Spec
----------------------------------------------------------------------------
(* The leaves that a call fills.                                           *)

\* The leaves that a step of the call stack stands for: the end of a composite
\* stands for none.
LeavesOf(step) ==
  IF step.op = "receive" THEN Leaves[<<step.item>>] ELSE <<>>

\* The leaves in l are those of the steps in t, one after the other: left[i] is
\* what is left of them from step i on.
StandFor(t, l) ==
  \E left \in [1 .. Len(t) + 1 -> Seq(Messages)] :
    /\ left[1] = l /\ left[Len(t) + 1] = <<>>
    /\ \A i \in 1 .. Len(t) : left[i] = LeavesOf(t[i]) \o left[i + 1]

\* What a running call has filled is what its parameters stand for up to what
\* is left to do.
OnTheWay ==
  Running =>
    \E l \in Seq(Messages) :
      StandFor(todo, l) /\ Filled(stored) \o l = Leaves[args]

LeavesInv == OnTheWay /\ FilledLeaves

\* MultipartSend_proofs shows that Leaves is well defined; the sending socket
\* itself does not matter, here it is one that does nothing.
Nests == INSTANCE MultipartSend_proofs WITH
           Calls <- {}, HighWaterMark <- 1, ReuseBroken <- FALSE, MaxCalls <- 0,
           pending <- <<>>, calls <- 0, args <- <<>>, emitted <- <<>>,
           result <- "none", sndTimeout <- FALSE, unfinished <- <<>>,
           pipe <- <<>>, terminated <- FALSE, carried <- <<>>, gone <- <<>>,
           done <- <<>>

LEMMA LeavesCases == LeavesAreThose
<1>1. Nests!Items = Items
  BY DEF Nests!Items, Items
<1>2. Nests!Leaves = Leaves
  BY DEF Nests!Leaves, Leaves, Nests!Items, Items
<1>3. Nests!NestingAssumption
  BY NestingAssumption, <1>1 DEF Nests!NestingAssumption
<1>4. Nests!SendAssumption
  BY DEF Nests!SendAssumption
<1>5. Nests!LeavesAreThose
  BY <1>3, <1>4, Nests!LeavesCases
<1>6. QED
  BY <1>1, <1>2, <1>5, Zenon DEF Nests!LeavesAreThose, LeavesAreThose

LEMMA ThreeLists ==
  \A j, k, l \in Seq(Messages) :
    j \o k \in Seq(Messages) /\ j \o (k \o l) = (j \o k) \o l
BY ConcatAssociative, ConcatProperties

LEMMA LeavesOfOne ==
  ASSUME NEW x \in Items
  PROVE  /\ Leaves[<<x>>] \in Seq(Messages)
         /\ x \in Messages => Leaves[<<x>>] = <<x>>
         /\ x \in Composites => Leaves[<<x>>] = Leaves[Parts[x]]
<1>1. /\ <<x>> \in Seq(Items) /\ <<x>> # <<>>
      /\ Head(<<x>>) = x /\ Tail(<<x>>) = <<>>
  OBVIOUS
<1>2. Leaves[<<x>>] = (IF x \in Messages THEN <<x>> ELSE Leaves[Parts[x]]) \o <<>>
  BY <1>1, LeavesCases DEF LeavesAreThose
<1>3. Leaves[<<x>>] \in Seq(Messages)
  BY <1>1, LeavesCases DEF LeavesAreThose
<1>4. ASSUME x \in Messages
      PROVE  Leaves[<<x>>] = <<x>>
  <2>1. <<x>> \in Seq(Messages)
    BY <1>4
  <2>2. QED
    BY <1>2, <1>4, <2>1, ConcatEmptySeq
<1>5. ASSUME x \in Composites
      PROVE  Leaves[<<x>>] = Leaves[Parts[x]]
  <2>1. Parts[x] \in Seq(Items) /\ x \notin Messages
    BY <1>5, NestingAssumption
  <2>2. Leaves[Parts[x]] \in Seq(Messages)
    BY <2>1, LeavesCases DEF LeavesAreThose
  <2>3. QED
    BY <1>2, <2>1, <2>2, ConcatEmptySeq
<1>6. QED
  BY <1>3, <1>4, <1>5

LEMMA LeavesOfTyped ==
  ASSUME NEW step \in Steps
  PROVE  LeavesOf(step) \in Seq(Messages)
<1>1. step.item \in Items
  BY DEF Steps, Receivables
<1>2. QED
  BY <1>1, LeavesOfOne, EmptySeq DEF LeavesOf

\* Nothing to do stands for no leaves.
LEMMA NothingLeft ==
  /\ StandFor(<<>>, <<>>)
  /\ \A l : StandFor(<<>>, l) => l = <<>>
<1>1. Len(<<>>) = 0
  OBVIOUS
<1>2. StandFor(<<>>, <<>>)
  <2> DEFINE left == [i \in 1 .. 1 |-> <<>>]
  <2>1. left \in [1 .. 1 -> Seq(Messages)] /\ left[1] = <<>>
    BY EmptySeq
  <2> HIDE DEF left
  <2>2. QED
    BY <1>1, <2>1 DEF StandFor
<1>3. QED
  BY <1>1, <1>2 DEF StandFor

\* The first step is done.
LEMMA OneStepLess ==
  ASSUME NEW t \in Seq(Steps), t # <<>>, NEW l, StandFor(t, l)
  PROVE  \E m \in Seq(Messages) :
           StandFor(Tail(t), m) /\ l = LeavesOf(Head(t)) \o m
<1>1. /\ Len(t) \in Nat \ {0} /\ Head(t) = t[1]
      /\ Tail(t) \in Seq(Steps) /\ Len(Tail(t)) = Len(t) - 1
      /\ \A i \in 1 .. Len(Tail(t)) : Tail(t)[i] = t[i + 1]
  BY HeadTailProperties, EmptySeq
<1>2. PICK left \in [1 .. Len(t) + 1 -> Seq(Messages)] :
        /\ left[1] = l /\ left[Len(t) + 1] = <<>>
        /\ \A i \in 1 .. Len(t) : left[i] = LeavesOf(t[i]) \o left[i + 1]
  BY DEF StandFor
<1> DEFINE rest == [i \in 1 .. Len(t) |-> left[i + 1]]
<1>3. /\ rest \in [1 .. Len(t) -> Seq(Messages)]
      /\ \A i \in 1 .. Len(t) : rest[i] = left[i + 1]
  BY <1>1
<1> HIDE DEF rest
<1>4. rest[1] = left[2] /\ rest[Len(t)] = <<>> /\ left[2] \in Seq(Messages)
  <2>1. /\ 1 \in 1 .. Len(t) /\ Len(t) \in 1 .. Len(t)
        /\ 1 + 1 = 2 /\ 2 \in 1 .. Len(t) + 1
    BY <1>1
  <2>2. rest[1] = left[1 + 1] /\ rest[Len(t)] = left[Len(t) + 1]
    BY <1>3, <2>1, Zenon
  <2>3. left[2] \in Seq(Messages)
    BY <1>2, <2>1
  <2>4. QED
    BY <1>2, <2>1, <2>2, <2>3, Zenon
<1>5. ASSUME NEW i \in 1 .. Len(Tail(t))
      PROVE  rest[i] = LeavesOf(Tail(t)[i]) \o rest[i + 1]
  <2>1. /\ i \in 1 .. Len(t) /\ i + 1 \in 1 .. Len(t)
        /\ Tail(t)[i] = t[i + 1]
    BY <1>1
  <2>2. rest[i] = left[i + 1] /\ rest[i + 1] = left[(i + 1) + 1]
    BY <1>3, <2>1
  <2>3. left[i + 1] = LeavesOf(t[i + 1]) \o left[(i + 1) + 1]
    BY <1>2, <2>1
  <2>4. QED
    BY <2>1, <2>2, <2>3
<1>6. Len(Tail(t)) + 1 = Len(t)
  BY <1>1
<1>7. StandFor(Tail(t), left[2])
  BY <1>3, <1>4, <1>5, <1>6 DEF StandFor
<1>8. l = LeavesOf(Head(t)) \o left[2]
  <2>1. 1 \in 1 .. Len(t) /\ 1 + 1 = 2
    BY <1>1
  <2>2. left[1] = LeavesOf(t[1]) \o left[1 + 1]
    BY <1>2, <2>1, Zenon
  <2>3. QED
    BY <1>1, <1>2, <2>1, <2>2, Zenon
<1>9. QED
  BY <1>4, <1>7, <1>8

\* The items of a list are to be received before what is left to do.
LEMMA ItemsFirst ==
  ASSUME NEW items \in Seq(Receivables), items # <<>>,
         NEW inComposite \in BOOLEAN,
         NEW t \in Seq(Steps), NEW l \in Seq(Messages), StandFor(t, l)
  PROVE  StandFor(Receives(items, inComposite) \o t, Leaves[items] \o l)
<1> DEFINE r == Receives(items, inComposite)
           n == Len(items)
           more(i) == SubSeq(items, i, n)
           s == r \o t
<1>1. /\ r \in Seq(Steps) /\ Len(r) = n /\ n \in Nat \ {0}
      /\ \A i \in 1 .. n : r[i].op = "receive" /\ r[i].item = items[i]
  <2>1. r \in Seq(Steps) /\ Len(r) \in Nat \ {0}
    BY ReceivesWellFormed
  <2>2. n \in Nat \ {0}
    BY EmptySeq
  <2>3. Len(r) = n /\ \A i \in 1 .. n : r[i].op = "receive" /\ r[i].item = items[i]
    BY <2>2 DEF Receives
  <2>4. QED
    BY <2>1, <2>2, <2>3
<1>2. /\ s \in Seq(Steps) /\ Len(s) = n + Len(t) /\ Len(t) \in Nat
      /\ \A i \in 1 .. n + Len(t) : s[i] = IF i <= n THEN r[i] ELSE t[i - n]
  <2> HIDE DEF r
  <2>1. Len(t) \in Nat
    BY LenProperties
  <2>2. /\ r \o t \in Seq(Steps) /\ Len(r \o t) = Len(r) + Len(t)
        /\ \A i \in 1 .. Len(r) + Len(t) :
             (r \o t)[i] = IF i <= Len(r) THEN r[i] ELSE t[i - Len(r)]
    BY <1>1, ConcatProperties
  <2>3. QED
    BY <1>1, <2>1, <2>2, Zenon
<1>3. /\ \A i \in 1 .. n + 1 : more(i) \in Seq(Items)
      /\ more(1) = items /\ more(n + 1) = <<>>
      /\ \A i \in 1 .. n : more(i) # <<>> /\ Head(more(i)) = items[i]
                           /\ Tail(more(i)) = more(i + 1)
  <2>1. items \in Seq(Items) /\ \A i \in 1 .. n : items[i] \in Items
    BY ElementOfSeq DEF Receivables
  <2>2. ASSUME NEW i \in 1 .. n + 1
        PROVE  more(i) \in Seq(Items)
    BY <1>1, <2>1, SubSeqProperties
  <2>3. more(1) = items
    BY <2>1, SubSeqFull
  <2>4. more(n + 1) = <<>>
    BY <1>1, SubSeqEmpty
  <2>5. ASSUME NEW i \in 1 .. n
        PROVE  /\ more(i) # <<>> /\ Head(more(i)) = items[i]
               /\ Tail(more(i)) = more(i + 1)
    <3>1. Head(more(i)) = items[i] /\ Tail(more(i)) = more(i + 1)
      BY <1>1, <2>1, HeadTailOfSubSeq
    <3>2. Len(more(i)) = n - i + 1
      BY <1>1, <2>1, SubSeqProperties
    <3>3. more(i) # <<>>
      <4>1. n - i + 1 # 0 /\ Len(<<>>) = 0
        BY <1>1
      <4>2. QED
        BY <3>2, <4>1, Zenon
    <3>4. QED
      BY <3>1, <3>3
  <2>6. QED
    BY <2>2, <2>3, <2>4, <2>5
<1> HIDE DEF more, s, r, n
<1>4. ASSUME NEW i \in 1 .. n
      PROVE  Leaves[more(i)] = LeavesOf(r[i]) \o Leaves[more(i + 1)]
  <2>1. /\ more(i) \in Seq(Items) /\ more(i) # <<>>
        /\ Head(more(i)) = items[i] /\ Tail(more(i)) = more(i + 1)
    <3>1. i \in 1 .. n + 1
      BY <1>1
    <3>2. QED
      BY <1>3, <3>1, Zenon
  <2>2. items[i] \in Items
    BY ElementOfSeq DEF Receivables, n
  <2>3. LeavesOf(r[i]) = Leaves[<<items[i]>>]
    BY <1>1 DEF LeavesOf
  <2>4. Leaves[<<items[i]>>]
          = IF items[i] \in Messages THEN <<items[i]>> ELSE Leaves[Parts[items[i]]]
    BY <2>2, LeavesOfOne DEF Items
  <2>5. QED
    BY <2>1, <2>3, <2>4, LeavesCases DEF LeavesAreThose
<1>5. PICK left \in [1 .. Len(t) + 1 -> Seq(Messages)] :
        /\ left[1] = l /\ left[Len(t) + 1] = <<>>
        /\ \A i \in 1 .. Len(t) : left[i] = LeavesOf(t[i]) \o left[i + 1]
  BY DEF StandFor
<1> DEFINE all == [i \in 1 .. n + Len(t) + 1 |->
                     IF i <= n THEN Leaves[more(i)] \o l ELSE left[i - n]]
<1>6. \A i \in 1 .. n + 1 : Leaves[more(i)] \in Seq(Messages)
  BY <1>3, LeavesCases DEF LeavesAreThose
<1>7. all \in [1 .. n + Len(t) + 1 -> Seq(Messages)]
  <2> SUFFICES ASSUME NEW i \in 1 .. n + Len(t) + 1
               PROVE  (IF i <= n THEN Leaves[more(i)] \o l ELSE left[i - n])
                        \in Seq(Messages)
    OBVIOUS
  <2>1. CASE i <= n
    <3>1. Leaves[more(i)] \in Seq(Messages)
      BY <1>1, <1>6, <2>1
    <3>2. QED
      BY <2>1, <3>1, ThreeLists
  <2>2. CASE ~(i <= n)
    <3>1. i - n \in 1 .. Len(t) + 1
      BY <1>1, <1>2, <2>2
    <3>2. QED
      BY <1>5, <2>2, <3>1
  <2>3. QED
    BY <2>1, <2>2
<1>8. \A i \in 1 .. n + Len(t) + 1 :
        all[i] = IF i <= n THEN Leaves[more(i)] \o l ELSE left[i - n]
  OBVIOUS
<1> HIDE DEF all
<1>9. all[1] = Leaves[items] \o l
  <2>1. 1 \in 1 .. n + Len(t) + 1 /\ 1 <= n
    BY <1>1, <1>2
  <2>2. all[1] = Leaves[more(1)] \o l
    BY <1>8, <2>1, Zenon
  <2>3. QED
    BY <1>3, <2>2, Zenon
<1>10. all[Len(s) + 1] = <<>>
  <2>1. n + Len(t) + 1 \in 1 .. n + Len(t) + 1 /\ ~(n + Len(t) + 1 <= n)
        /\ (n + Len(t) + 1) - n = Len(t) + 1
    BY <1>1, <1>2
  <2>2. all[n + Len(t) + 1] = left[(n + Len(t) + 1) - n]
    BY <1>8, <2>1, Zenon
  <2>3. Len(s) + 1 = n + Len(t) + 1
    BY <1>2
  <2>4. QED
    BY <1>5, <2>1, <2>2, <2>3, Zenon
<1>11. ASSUME NEW i \in 1 .. Len(s)
       PROVE  all[i] = LeavesOf(s[i]) \o all[i + 1]
  <2>1. i \in 1 .. n + Len(t) /\ i + 1 \in 1 .. n + Len(t) + 1
        /\ i \in 1 .. n + Len(t) + 1
    BY <1>1, <1>2
  <2>2. CASE i < n
    <3>1. /\ all[i] = Leaves[more(i)] \o l /\ all[i + 1] = Leaves[more(i + 1)] \o l
          /\ s[i] = r[i] /\ i \in 1 .. n /\ i + 1 \in 1 .. n + 1
      <4>1. i \in 1 .. n /\ i <= n /\ i + 1 <= n /\ i + 1 \in 1 .. n + 1
        BY <1>1, <2>1, <2>2
      <4>2. all[i] = Leaves[more(i)] \o l
        BY <1>8, <2>1, <4>1, Zenon
      <4>3. all[i + 1] = Leaves[more(i + 1)] \o l
        BY <1>8, <2>1, <4>1, Zenon
      <4>4. s[i] = r[i]
        BY <1>2, <2>1, <4>1, Zenon
      <4>5. QED
        BY <4>1, <4>2, <4>3, <4>4
    <3>2. LeavesOf(r[i]) \in Seq(Messages)
      BY <1>1, <3>1, LeavesOfTyped, ElementOfSeq
    <3>3. Leaves[more(i)] = LeavesOf(r[i]) \o Leaves[more(i + 1)]
      BY <1>4, <3>1
    <3>4. Leaves[more(i + 1)] \in Seq(Messages)
      BY <1>6, <3>1
    <3>5. (LeavesOf(r[i]) \o Leaves[more(i + 1)]) \o l
            = LeavesOf(r[i]) \o (Leaves[more(i + 1)] \o l)
      BY <3>2, <3>4, ThreeLists, Zenon
    <3>6. QED
      BY <3>1, <3>3, <3>5, Zenon
  <2>3. CASE i = n
    <3>1. /\ all[i] = Leaves[more(i)] \o l /\ s[i] = r[i] /\ i \in 1 .. n
      <4>1. i \in 1 .. n /\ i <= n
        BY <1>1, <2>3
      <4>2. all[i] = Leaves[more(i)] \o l
        BY <1>8, <2>1, <4>1, Zenon
      <4>3. s[i] = r[i]
        BY <1>2, <2>1, <4>1, Zenon
      <4>4. QED
        BY <4>1, <4>2, <4>3
    <3>2. all[i + 1] = left[1]
      <4>1. ~(i + 1 <= n) /\ (i + 1) - n = 1
        BY <1>1, <2>3
      <4>2. all[i + 1] = left[(i + 1) - n]
        BY <1>8, <2>1, <4>1, Zenon
      <4>3. QED
        BY <4>1, <4>2, Zenon
    <3>3. Leaves[more(n)] = LeavesOf(r[n]) \o Leaves[more(n + 1)]
      BY <1>4, <2>3, <3>1
    <3>4. Leaves[more(n + 1)] = <<>> /\ LeavesOf(r[n]) \in Seq(Messages)
      BY <1>1, <1>3, <2>3, <3>1, LeavesOfTyped, ElementOfSeq, LeavesCases
         DEF LeavesAreThose
    <3>5. Leaves[more(n)] = LeavesOf(r[n])
      BY <3>3, <3>4, ConcatEmptySeq
    <3>6. LeavesOf(r[i]) \o l = LeavesOf(r[i]) \o left[1]
      BY <1>5, Zenon
    <3>7. QED
      BY <2>3, <3>1, <3>2, <3>5, <3>6, Zenon
  <2>4. CASE i > n
    <3>1. /\ ~(i <= n) /\ ~(i + 1 <= n) /\ i - n \in 1 .. Len(t)
          /\ (i + 1) - n = (i - n) + 1
      BY <1>1, <1>2, <2>1, <2>4
    <3>2. all[i] = left[i - n]
      BY <1>8, <2>1, <3>1, Zenon
    <3>3. all[i + 1] = left[(i + 1) - n]
      BY <1>8, <2>1, <3>1, Zenon
    <3>4. s[i] = t[i - n]
      BY <1>2, <2>1, <3>1, Zenon
    <3>5. left[i - n] = LeavesOf(t[i - n]) \o left[(i - n) + 1]
      BY <1>5, <3>1, Zenon
    <3>6. QED
      BY <3>1, <3>2, <3>3, <3>4, <3>5, Zenon
  <2>5. i < n \/ i = n \/ i > n
    BY <1>1, <2>1
  <2>6. QED
    BY <2>2, <2>3, <2>4, <2>5, Zenon
<1>12. all \in [1 .. Len(s) + 1 -> Seq(Messages)]
  BY <1>2, <1>7
<1>13. StandFor(s, Leaves[items] \o l)
  BY <1>9, <1>10, <1>11, <1>12 DEF StandFor
<1>14. QED
  BY <1>13, Zenon DEF s, r

\* A step that stands for no leaves comes before the others.
LEMMA NothingFirst ==
  ASSUME NEW step \in Steps, step.op # "receive",
         NEW t \in Seq(Steps), NEW l \in Seq(Messages), StandFor(t, l)
  PROVE  StandFor(<<step>> \o t, l)
<1> DEFINE s == <<step>> \o t
<1>1. /\ <<step>> \in Seq(Steps) /\ Len(<<step>>) = 1 /\ <<step>>[1] = step
      /\ Len(t) \in Nat
  BY LenProperties
<1>2. /\ Len(s) = Len(t) + 1
      /\ \A i \in 1 .. Len(t) + 1 : s[i] = IF i <= 1 THEN <<step>>[i] ELSE t[i - 1]
  BY <1>1, ConcatProperties
<1> HIDE DEF s
<1>3. PICK left \in [1 .. Len(t) + 1 -> Seq(Messages)] :
        /\ left[1] = l /\ left[Len(t) + 1] = <<>>
        /\ \A i \in 1 .. Len(t) : left[i] = LeavesOf(t[i]) \o left[i + 1]
  BY DEF StandFor
<1> DEFINE all == [i \in 1 .. Len(t) + 2 |-> IF i = 1 THEN l ELSE left[i - 1]]
<1>4. /\ all \in [1 .. Len(t) + 2 -> Seq(Messages)]
      /\ \A i \in 1 .. Len(t) + 2 : all[i] = IF i = 1 THEN l ELSE left[i - 1]
  BY <1>1, <1>3
<1> HIDE DEF all
<1>5. all[1] = l
  BY <1>1, <1>4
<1>6. all[Len(s) + 1] = <<>>
  <2>1. /\ Len(s) + 1 = Len(t) + 2 /\ Len(t) + 2 \in 1 .. Len(t) + 2
        /\ Len(t) + 2 # 1 /\ (Len(t) + 2) - 1 = Len(t) + 1
    BY <1>1, <1>2
  <2>2. QED
    BY <1>3, <1>4, <2>1, Zenon
<1>7. ASSUME NEW i \in 1 .. Len(s)
      PROVE  all[i] = LeavesOf(s[i]) \o all[i + 1]
  <2>1. i \in 1 .. Len(t) + 1 /\ i \in 1 .. Len(t) + 2 /\ i + 1 \in 1 .. Len(t) + 2
        /\ i + 1 # 1 /\ (i + 1) - 1 = i
    BY <1>1, <1>2
  <2>2. all[i + 1] = left[i]
    BY <1>4, <2>1, Zenon
  <2>3. CASE i = 1
    <3>1. s[i] = step
      BY <1>1, <1>2, <2>1, <2>3
    <3>2. LeavesOf(s[i]) = <<>>
      BY <3>1 DEF LeavesOf
    <3>3. <<>> \o l = l
      BY ConcatEmptySeq
    <3>4. QED
      BY <1>3, <1>5, <2>2, <2>3, <3>2, <3>3, Zenon
  <2>4. CASE i # 1
    <3>1. /\ i - 1 \in 1 .. Len(t) /\ ~(i <= 1) /\ (i - 1) + 1 = i
      BY <1>1, <2>1, <2>4
    <3>2. all[i] = left[i - 1] /\ s[i] = t[i - 1]
      BY <1>2, <1>4, <2>1, <2>4, <3>1, Zenon
    <3>3. left[i - 1] = LeavesOf(t[i - 1]) \o left[(i - 1) + 1]
      BY <1>3, <3>1, Zenon
    <3>4. QED
      BY <2>2, <3>1, <3>2, <3>3, Zenon
  <2>5. QED
    BY <2>3, <2>4
<1>8. all \in [1 .. Len(s) + 1 -> Seq(Messages)]
  <2>1. Len(s) + 1 = Len(t) + 2
    BY <1>1, <1>2
  <2>2. QED
    BY <1>4, <2>1, Zenon
<1>9. QED
  BY <1>5, <1>6, <1>7, <1>8 DEF StandFor, s

\* One more frame is taken.
LEMMA FilledOneMore ==
  ASSUME NEW f \in Seq(Takings), NEW e \in Takings
  PROVE  /\ Filled(f) \in Seq(Messages)
         /\ Filled(Append(f, e)) = Filled(f) \o <<e.into>>
<1>1. \A g \in Seq(Takings) :
        /\ Filled(g) \in Seq(Messages)
        /\ Len(Filled(g)) = Len(g) /\ Len(g) \in Nat
        /\ \A i \in 1 .. Len(g) : Filled(g)[i] = g[i].into
  <2> SUFFICES ASSUME NEW g \in Seq(Takings)
               PROVE  /\ Filled(g) \in Seq(Messages)
                      /\ Len(Filled(g)) = Len(g) /\ Len(g) \in Nat
                      /\ \A i \in 1 .. Len(g) : Filled(g)[i] = g[i].into
    OBVIOUS
  <2>1. Len(g) \in Nat /\ \A i \in 1 .. Len(g) : g[i] \in Takings
    BY LenProperties, ElementOfSeq
  <2>2. Filled(g) \in [1 .. Len(g) -> Messages]
    BY <2>1 DEF Filled, Takings
  <2>3. Filled(g) \in Seq(Messages) /\ Len(Filled(g)) = Len(g)
    BY <2>1, <2>2, SeqDef
  <2>4. QED
    BY <2>1, <2>3 DEF Filled
<1>2. /\ Append(f, e) \in Seq(Takings) /\ Len(Append(f, e)) = Len(f) + 1
      /\ \A i \in 1 .. Len(f) : Append(f, e)[i] = f[i]
      /\ Append(f, e)[Len(f) + 1] = e
  BY AppendProperties
<1>3. e.into \in Messages
  BY DEF Takings
<1>4. /\ Append(Filled(f), e.into) \in Seq(Messages)
      /\ Len(Append(Filled(f), e.into)) = Len(f) + 1
      /\ \A i \in 1 .. Len(f) : Append(Filled(f), e.into)[i] = Filled(f)[i]
      /\ Append(Filled(f), e.into)[Len(f) + 1] = e.into
  BY <1>1, <1>3, AppendProperties
<1>5. /\ Filled(Append(f, e)) \in Seq(Messages)
      /\ Len(Filled(Append(f, e))) = Len(f) + 1
      /\ \A i \in 1 .. Len(f) + 1 :
           Filled(Append(f, e))[i] = Append(f, e)[i].into
  BY <1>1, <1>2
<1>6. ASSUME NEW i \in 1 .. Len(f) + 1
      PROVE  Filled(Append(f, e))[i] = Append(Filled(f), e.into)[i]
  <2>1. Len(f) \in Nat
    BY <1>1
  <2>2. CASE i \in 1 .. Len(f)
    <3>1. Filled(Append(f, e))[i] = Append(f, e)[i].into
      BY <1>5
    <3>2. Append(f, e)[i] = f[i] /\ Filled(f)[i] = f[i].into
      BY <1>1, <1>2, <2>2
    <3>3. Append(Filled(f), e.into)[i] = Filled(f)[i]
      BY <1>4, <2>2
    <3>4. QED
      BY <3>1, <3>2, <3>3
  <2>3. CASE i = Len(f) + 1
    BY <1>2, <1>4, <1>5, <2>3
  <2>4. i \in 1 .. Len(f) \/ i = Len(f) + 1
    BY <2>1
  <2>5. QED
    BY <2>2, <2>3, <2>4
<1>7. Filled(Append(f, e)) = Append(Filled(f), e.into)
  BY <1>4, <1>5, <1>6, SeqEqual
<1>8. QED
  BY <1>1, <1>3, <1>7, AppendIsConcat

LEMMA InitLeavesInv == Init => LeavesInv
  BY DEF Init, LeavesInv, OnTheWay, FilledLeaves, Running

\* Whatever leaves the call and the history alone, or ends the call.
LEMMA LeavesKept ==
  ASSUME LeavesInv, received' = received,
         todo' = <<>> \/ UNCHANGED <<todo, args, stored>>
  PROVE  LeavesInv'
  BY DEF LeavesInv, OnTheWay, FilledLeaves, Running

LEMMA CallReceiveLeaves ==
  ASSUME LeavesInv, NEW a \in Calls, CallReceive(a)
  PROVE  LeavesInv'
<1>1. /\ args' = a /\ todo' = Receives(a, FALSE) /\ stored' = <<>>
      /\ received' = received
  BY DEF CallReceive, history
<1>2. a \in Seq(Receivables) /\ a # <<>>
  BY ReceiveAssumption
<1>3. Leaves[a] \in Seq(Messages)
  BY <1>2, LeavesCases DEF LeavesAreThose, Receivables
<1>4. StandFor(Receives(a, FALSE) \o <<>>, Leaves[a] \o <<>>)
  BY <1>2, ItemsFirst, NothingLeft, EmptySeq
<1>5. Leaves[a] \o <<>> = Leaves[a]
  BY <1>3, ConcatEmptySeq
<1>6. Receives(a, FALSE) \o <<>> = Receives(a, FALSE)
  BY <1>2, ReceivesWellFormed, ConcatEmptySeq
<1>7. StandFor(todo', Leaves[a])
  BY <1>1, <1>4, <1>5, <1>6, Zenon
<1>8. Filled(stored') = <<>>
  BY <1>1 DEF Filled
<1>9. Filled(stored') \o Leaves[a] = Leaves[args']
  BY <1>1, <1>3, <1>8, ConcatEmptySeq
<1>10. OnTheWay'
  BY <1>3, <1>7, <1>9, Zenon DEF OnTheWay
<1>11. QED
  BY <1>1, <1>10 DEF LeavesInv, FilledLeaves

\* A composite stands for its parts.
LEMMA EnterCompositeLeaves ==
  ASSUME IInv, LeavesInv, EnterComposite
  PROVE  LeavesInv'
<1> DEFINE h == Head(todo)
           c == h.item
           parts == Receives(Parts[c], TRUE)
           end == [h EXCEPT !.op = "finish"]
           rest == Tail(todo)
<1>1. /\ Running /\ todo \in Seq(Steps) /\ todo # <<>>
      /\ h.op = "receive" /\ c \in Composites
      /\ todo' = (parts \o <<end>>) \o rest
      /\ UNCHANGED <<args, stored, received>>
  BY DEF IInv, TypeOK, EnterComposite, Running, history
<1>2. h \in Steps /\ rest \in Seq(Steps)
  BY <1>1, HeadTailProperties
<1>3. Parts[c] \in Seq(Receivables) /\ Parts[c] # <<>>
  BY <1>1, NestingAssumption DEF Receivables
<1>4. parts \in Seq(Steps)
  BY <1>3, ReceivesWellFormed
<1>5. end \in Steps /\ end.op # "receive" /\ <<end>> \in Seq(Steps)
  BY <1>2 DEF Steps
<1>6. PICK l \in Seq(Messages) :
        StandFor(todo, l) /\ Filled(stored) \o l = Leaves[args]
  BY <1>1 DEF LeavesInv, OnTheWay
<1>7. PICK m \in Seq(Messages) : StandFor(rest, m) /\ l = LeavesOf(h) \o m
  BY <1>1, <1>6, OneStepLess
<1>8. LeavesOf(h) = Leaves[Parts[c]]
  <2>1. c \in Items
    BY <1>1 DEF Items
  <2>2. Leaves[<<c>>] = Leaves[Parts[c]]
    BY <1>1, <2>1, LeavesOfOne
  <2>3. QED
    BY <1>1, <2>2 DEF LeavesOf
<1> HIDE DEF h, c, parts, end, rest
<1>9. StandFor(<<end>> \o rest, m) /\ <<end>> \o rest \in Seq(Steps)
  BY <1>2, <1>5, <1>7, NothingFirst, ConcatProperties
<1>10. StandFor(parts \o (<<end>> \o rest), Leaves[Parts[c]] \o m)
  BY <1>3, <1>9, ItemsFirst DEF parts
<1>11. parts \o (<<end>> \o rest) = (parts \o <<end>>) \o rest
  BY <1>2, <1>4, <1>5, ConcatAssociative
<1>12. StandFor(todo', l)
  BY <1>1, <1>7, <1>8, <1>10, <1>11, Zenon
<1>13. OnTheWay'
  BY <1>1, <1>6, <1>12, Zenon DEF OnTheWay
<1>14. QED
  BY <1>1, <1>13 DEF LeavesInv, FilledLeaves

\* The receive() of an item has returned true, and the leaves it stands for are
\* filled.
LEMMA ReturnedLeaves ==
  ASSUME IInv, LeavesInv, Running, NextReceivable,
         Filled(stored) \in Seq(Messages),
         Filled(stored') = Filled(stored) \o LeavesOf(Head(todo))
  PROVE  LeavesInv'
<1> DEFINE h == Head(todo)
           rest == Tail(todo)
           call == [args |-> args, stored |-> stored', message |-> current']
<1>1. todo \in Seq(Steps) /\ todo # <<>>
  BY DEF IInv, TypeOK, Running
<1>2. h \in Steps /\ LeavesOf(h) \in Seq(Messages)
  BY <1>1, HeadTailProperties, LeavesOfTyped
<1>3. PICK l \in Seq(Messages) :
        StandFor(todo, l) /\ Filled(stored) \o l = Leaves[args]
  BY DEF LeavesInv, OnTheWay
<1>4. PICK m \in Seq(Messages) : StandFor(rest, m) /\ l = LeavesOf(h) \o m
  BY <1>1, <1>3, OneStepLess
<1>5. Filled(stored') \o m = Leaves[args]
  <2>1. Filled(stored) \o (LeavesOf(h) \o m) = (Filled(stored) \o LeavesOf(h)) \o m
    BY <1>2, ThreeLists, Zenon
  <2>2. QED
    BY <1>3, <1>4, <2>1, Zenon
<1>6. CASE ~FlagAgrees(h, moreToReceive')
  <2>1. todo' = <<>> /\ received' = received
    BY <1>6 DEF NextReceivable, GiveUp
  <2>2. QED
    BY <2>1, LeavesKept
<1>7. CASE FlagAgrees(h, moreToReceive') /\ rest # <<>>
  <2>1. todo' = rest /\ received' = received /\ args' = args
    BY <1>7 DEF NextReceivable
  <2>2. OnTheWay'
    BY <1>4, <1>5, <2>1, Zenon DEF OnTheWay
  <2>3. QED
    BY <2>1, <2>2 DEF LeavesInv, FilledLeaves
<1>8. CASE FlagAgrees(h, moreToReceive') /\ rest = <<>>
  <2>1. todo' = <<>> /\ received' = Append(received, call)
    BY <1>8 DEF NextReceivable
  <2>2. m = <<>>
    BY <1>4, <1>8, NothingLeft
  <2>3. Filled(stored') \in Seq(Messages)
    <3>1. Filled(stored) \o LeavesOf(h) \in Seq(Messages)
      BY <1>2, ThreeLists
    <3>2. QED
      BY <3>1
  <2>4. Filled(stored') = Leaves[args]
    BY <1>5, <2>2, <2>3, ConcatEmptySeq
  <2>5. OnTheWay'
    BY <2>1 DEF OnTheWay, Running
  <2>6. call.stored = stored' /\ call.args = args
    OBVIOUS
  <2> HIDE DEF call
  <2>7. received \in Seq(Outcomes)
    BY TypeOKSplits DEF IInv, CallTyped
  <2>8. /\ Len(received) \in Nat /\ Len(received') = Len(received) + 1
        /\ \A k \in 1 .. Len(received) : received'[k] = received[k]
        /\ received'[Len(received) + 1] = call
    <3>1. received \in Seq(Outcomes \cup {call}) /\ call \in Outcomes \cup {call}
      BY <2>7, SeqMonotonic
    <3>2. QED
      BY <2>1, <3>1, AppendProperties, LenProperties
  <2>9. ASSUME NEW k \in 1 .. Len(received')
        PROVE  Filled(received'[k].stored) = Leaves[received'[k].args]
    <3>1. k \in 1 .. Len(received) \/ k = Len(received) + 1
      BY <2>8
    <3>2. CASE k \in 1 .. Len(received)
      BY <2>8, <3>2 DEF LeavesInv, FilledLeaves
    <3>3. CASE k = Len(received) + 1
      BY <2>4, <2>6, <2>8, <3>3, Zenon
    <3>4. QED
      BY <3>1, <3>2, <3>3
  <2>10. QED
    BY <2>5, <2>9 DEF LeavesInv, FilledLeaves
<1>9. QED
  BY <1>6, <1>7, <1>8

\* A frame is taken into the receivable that is next.
LEMMA ReceiveFrameLeaves ==
  ASSUME IInv, LeavesInv, ReceiveFrame
  PROVE  LeavesInv'
<1> DEFINE taking == [into |-> Head(todo).item, frame |-> current'[read']]
<1>1. /\ Running /\ todo \in Seq(Steps) /\ todo # <<>>
      /\ Head(todo).op = "receive" /\ Head(todo).item \in Messages
      /\ stored' = Append(stored, taking) /\ NextReceivable
  BY DEF IInv, TypeOK, ReceiveFrame, AtMessage, Running
<1>2. FramesTyped'
  BY FrameTaken DEF IInv
<1>3. stored \in Seq(Takings)
  BY DEF IInv, TypeOK, Takings
<1>4. taking \in Takings
  <2>1. current' \in Seq(Frames) /\ read' \in 1 .. Len(current')
    <3>1. current' \in Seq(Frames) /\ read' \in 0 .. Len(current')
      BY <1>2 DEF FramesTyped
    <3>2. read' \in Nat \ {0}
      <4>1. read \in Nat
        BY LenProperties DEF IInv, TypeOK
      <4>2. read' = read + 1 \/ read' = 1
        BY DEF ReceiveFrame, ZmqTake
      <4>3. QED
        BY <4>1, <4>2
    <3>3. Len(current') \in Nat
      BY <3>1, LenProperties
    <3>4. QED
      BY <3>1, <3>2, <3>3
  <2>2. QED
    BY <1>1, <2>1, ElementOfSeq DEF Takings
<1>5. taking.into = Head(todo).item
  OBVIOUS
<1> HIDE DEF taking
<1>6. /\ Filled(stored) \in Seq(Messages)
      /\ Filled(stored') = Filled(stored) \o <<Head(todo).item>>
  BY <1>1, <1>3, <1>4, <1>5, FilledOneMore
<1>7. LeavesOf(Head(todo)) = <<Head(todo).item>>
  <2>1. Head(todo).item \in Items
    BY <1>1 DEF Items
  <2>2. QED
    BY <1>1, <2>1, LeavesOfOne DEF LeavesOf
<1>8. QED
  BY <1>1, <1>6, <1>7, ReturnedLeaves

\* The end of a composite fills nothing.
LEMMA FinishCompositeLeaves ==
  ASSUME IInv, LeavesInv, FinishComposite
  PROVE  LeavesInv'
<1>1. /\ Running /\ todo \in Seq(Steps) /\ todo # <<>>
      /\ Head(todo).op = "finish" /\ stored' = stored
  BY DEF IInv, TypeOK, FinishComposite, Running
<1>2. LeavesOf(Head(todo)) = <<>>
  BY <1>1 DEF LeavesOf
<1>3. Filled(stored) \in Seq(Messages)
  <2>1. stored \in Seq(Takings)
    BY DEF IInv, TypeOK, Takings
  <2>2. Len(stored) \in Nat /\ \A i \in 1 .. Len(stored) : stored[i] \in Takings
    BY <2>1, LenProperties, ElementOfSeq
  <2>3. Filled(stored) \in [1 .. Len(stored) -> Messages]
    BY <2>2 DEF Filled, Takings
  <2>4. QED
    BY <2>2, <2>3, SeqDef
<1>4. Filled(stored') = Filled(stored) \o LeavesOf(Head(todo))
  BY <1>1, <1>2, <1>3, ConcatEmptySeq
<1>5. NextReceivable
  BY DEF FinishComposite
<1>6. QED
  BY <1>1, <1>3, <1>4, <1>5, ReturnedLeaves

LEMMA NextLeavesInv ==
  ASSUME IInv, LeavesInv, [Next]_vars
  PROVE  LeavesInv'
<1>1. ASSUME NEW a \in Calls, CallReceive(a)
      PROVE  LeavesInv'
  BY <1>1, CallReceiveLeaves
<1>2. CASE EnterComposite
  BY <1>2, EnterCompositeLeaves
<1>3. CASE ReceiveFrame
  BY <1>3, ReceiveFrameLeaves
<1>4. CASE FinishComposite
  BY <1>4, FinishCompositeLeaves
<1>5. CASE \/ CompositeFails \/ ReceiveTimesOut \/ ReceiveTerminated
           \/ ReceiveInterrupted
  <2>1. todo' = <<>> /\ received' = received
    BY <1>5 DEF CompositeFails, ReceiveTimesOut, ReceiveTerminated,
                ReceiveInterrupted, GiveUp
  <2>2. QED
    BY <2>1, LeavesKept
<1>6. CASE \/ \E finite \in BOOLEAN : SetReceiveTimeout(finite)
           \/ \E n \in Lengths : Arrive(n)
           \/ TerminateContext
           \/ UNCHANGED vars
  <2>1. UNCHANGED <<todo, args, stored, received>>
    BY <1>6 DEF SetReceiveTimeout, Arrive, TerminateContext, vars, sockVars,
                history
  <2>2. QED
    BY <2>1, LeavesKept
<1>7. QED
  BY <1>1, <1>2, <1>3, <1>4, <1>5, <1>6 DEF Next, Application, Library
----------------------------------------------------------------------------
(* What follows for the properties.                                        *)

\* Everything stays within its type; `read' never passes the end of a message.
THEOREM TypeCorrect == Spec => []TypeOK
<1>1. IInv => TypeOK
  BY DEF IInv
<1>2. QED
  BY <1>1, Invariance, PTL

\* No call of receive() takes frames of two messages, whatever the nesting of
\* its parameters and whatever failed before it.
THEOREM OneMessagePerCall == Spec => []CallWithinOneMessage
<1>1. IInv => CallWithinOneMessage
  BY DEF IInv
<1>2. QED
  BY <1>1, Invariance, PTL

\* A call that returned true has come to the end of a message, and has all of
\* it unless an earlier call stopped in the middle.
THEOREM TrueIsWhole == Spec => []TrueMeansWhole
<1>1. IInv => TrueMeansWhole
  BY DEF IInv
<1>2. QED
  BY <1>1, Invariance, PTL

\* A receive() that times out has not taken a frame.
THEOREM TimeoutIsClean == Spec => TimeoutTakesNothing
<1>1. IInv /\ [Next]_vars
        => [ReceiveTimesOut => stored = <<>> /\ ~Misaligned]_vars
  <2> SUFFICES ASSUME IInv, ReceiveTimesOut
               PROVE  stored = <<>> /\ ~Misaligned
    OBVIOUS
  <2>1. /\ Running /\ Head(todo).op = "receive"
        /\ ~Misaligned
    BY DEF ReceiveTimesOut, AtMessage, FrameAvailable
  <2>2. Head(todo) = todo[1]
    BY <2>1, HeadTailProperties DEF IInv, TypeOK, Running
  <2>3. QED
    BY <2>1, <2>2 DEF IInv, FlagFollowed
<1>2. QED
  BY <1>1, Invariance, PTL DEF Spec, TimeoutTakesNothing

\* Whatever the nesting, a call that returned true has filled the leaves of its
\* parameters, from left to right and each once.
THEOREM LeavesAreFilled == Spec => []FilledLeaves
<1>1. Init => LeavesInv
  BY InitLeavesInv
<1>2. IInv /\ LeavesInv /\ [Next]_vars => LeavesInv'
  BY NextLeavesInv
<1>3. LeavesInv => FilledLeaves
  BY DEF LeavesInv
<1>4. QED
  BY <1>1, <1>2, <1>3, Invariance, PTL DEF Spec
=============================================================================
