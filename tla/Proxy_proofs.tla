----------------------------- MODULE Proxy_proofs -----------------------------
(***************************************************************************)
(* Proofs about Proxy, for any Proxies and sockets that the static_asserts *)
(* let pass, any numbers and lengths of messages and any high water mark.  *)
(*                                                                         *)
(* What run() leaves behind depends on where the loop was when it ended.   *)
(* The invariant says how the frames of the message that is being relayed  *)
(* are spread over the queues and the loop's hand (InStep), that there is  *)
(* at most one such message and that the loop is not to leave it (Focus),  *)
(* and that it goes on to find room (Admitted, Polled).                    *)
(***************************************************************************)
EXTENDS Proxy, SequenceTheorems, TLAPS

CommandFrames == {Command(c) : c \in Commands}
Frame ==
  [dir : Ways \cup Commands \cup {"none"}, no : Nat, at : Nat, of : Nat]
WayState ==
  [arrived : Nat, incoming : Seq(Seq(Frame)), open : Seq(Frame),
   relayed : Seq(Seq(Frame)), waiting : 0 .. HighWaterMark]

Typed ==
  /\ handle \in [Proxies -> [capture : Captures \cup {null},
                             control : Controls \cup {null}]]
  /\ result \in [value : BOOLEAN, controlled : BOOLEAN]
  /\ at \in {"idle", "poll", "control", "copy", "obey", "forward", "send"}
  /\ self \in Proxies \cup {null} /\ (self = null <=> at = "idle")
  /\ paused \in BOOLEAN /\ ready \subseteq Directions
  /\ hand \in Frame
  /\ way \in [Ways -> WayState]
  /\ \A d \in Ways : way[d].arrived <= MaxMessages[d]
  /\ inbox \in [Controls -> Seq(CommandFrames)]
  /\ load \in [Captures -> 0 .. HighWaterMark]
  /\ terminated \in BOOLEAN

\* What is in the loop's hand.
Hands ==
  /\ at \in {"idle", "poll", "control", "forward"} => hand = Nothing
  /\ at = "idle" => ~paused /\ ready = {}
  /\ at = "control" => Commanded
  /\ at = "obey" => hand \in CommandFrames /\ Control # null
  /\ at = "copy" => \/ hand \in CommandFrames /\ Control # null
                    \/ hand.dir \in ready
  /\ at = "send" => hand.dir \in ready

\* The frames of message n of direction d, which has l: each, the first k, and
\* those after.
FrameOf(d, n, i, l) == [dir |-> d, no |-> n, at |-> i, of |-> l]
Sent(d, n, k, l) == [i \in 1 .. k |-> FrameOf(d, n, i, l)]
Left(d, n, k, l) == [i \in 1 .. l - k |-> FrameOf(d, n, k + i, l)]

WholeAfter(d, k) ==
  \A i \in 1 .. Len(way[d].incoming) :
    i > k => way[d].incoming[i] \in WholeMessages(d)

\* The loop has received k of the frames; the last of them may be in its hand.
Transfer(d, n, k, l) ==
  /\ IF hand.dir = d
     THEN hand = FrameOf(d, n, k, l) /\ way[d].open = Sent(d, n, k - 1, l)
     ELSE k < l /\ way[d].open = Sent(d, n, k, l)
  /\ IF k = l THEN WholeAfter(d, 0)
     ELSE /\ way[d].incoming # <<>>
          /\ way[d].incoming[1] = Left(d, n, k, l)
          /\ WholeAfter(d, 1)

InStep(d) ==
  \/ hand.dir # d /\ way[d].open = <<>> /\ WholeAfter(d, 0)
  \/ \E n \in 1 .. MaxMessages[d], l \in Lengths :
       \E k \in 1 .. l : Transfer(d, n, k, l)

\* The sockets may be relayed, now or by the next run().
Good == at = "idle" => result.value /\ result.controlled

Relaying ==
  \A d \in Ways :
    IF Good THEN InStep(d)
    ELSE /\ WholeAfter(d, 1)
         /\ way[d].incoming # <<>> =>
              \/ way[d].incoming[1] \in WholeMessages(d)
              \/ way[d].incoming[1][1].at > 1

\* The loop is between two frames of direction d, and stays with it.
Focus ==
  \A d \in Ways :
    Good /\ (hand.dir = d \/ way[d].open # <<>>) =>
      /\ ~paused
      /\ d = IF "request" \in ready THEN "request" ELSE "reply"
      /\ d \in ready
      /\ IF at = "forward" THEN hand.dir # d
         ELSE at \in {"copy", "send"} /\ hand.dir = d

\* A message is captured as a whole: there is room for the rest of it.
Room ==
  Capture # null /\ CaptureType[Capture] \in Blocking =>
    load[Capture] < HighWaterMark
Admitted ==
  /\ at = "copy" /\ hand.at > 1 => Room
  /\ at = "send" /\ More(hand) => Room
  /\ at = "forward" /\ (\E d \in Ways : way[d].open # <<>>) => Room

\* What zmq_poll found of a direction stays true until it has had its turn.
Polled ==
  \A d \in ready :
    /\ hand.dir # d => way[d].incoming # <<>>
    /\ To(d) \in Blocking => way[d].waiting < HighWaterMark

IInv ==
  /\ Typed /\ Hands /\ Relaying /\ Focus /\ Admitted /\ Polled
  /\ HeldOnce
----------------------------------------------------------------------------
(* Sequences of frames.                                                    *)

\* The frames of a message are sequences of frames; one more can be sent.
LEMMA SentIs ==
  ASSUME NEW d \in Ways, NEW n \in Nat, NEW l \in Nat, NEW k \in 0 .. l
  PROVE  /\ Sent(d, n, k, l) \in Seq(Frame) /\ Len(Sent(d, n, k, l)) = k
         /\ \A i \in 1 .. k : Sent(d, n, k, l)[i] = FrameOf(d, n, i, l)
         /\ k = 0 <=> Sent(d, n, k, l) = <<>>
         /\ k < l => Append(Sent(d, n, k, l), FrameOf(d, n, k + 1, l))
                       = Sent(d, n, k + 1, l)
<1>1. \A i \in 1 .. l : FrameOf(d, n, i, l) \in Frame
  BY DEF FrameOf, Frame
<1>2. /\ Sent(d, n, k, l) \in Seq(Frame) /\ Len(Sent(d, n, k, l)) = k
      /\ \A i \in 1 .. k : Sent(d, n, k, l)[i] = FrameOf(d, n, i, l)
  <2>1. \A i \in 1 .. k : FrameOf(d, n, i, l) \in Frame
    BY <1>1
  <2> HIDE DEF Frame
  <2>2. QED
    BY <2>1 DEF Sent
<1>3. k = 0 <=> Sent(d, n, k, l) = <<>>
  BY <1>2, EmptySeq
<1>4. ASSUME k < l
      PROVE  Append(Sent(d, n, k, l), FrameOf(d, n, k + 1, l))
               = Sent(d, n, k + 1, l)
  <2> DEFINE s == Sent(d, n, k, l)
             x == FrameOf(d, n, k + 1, l)
  <2>1. x \in Frame
    BY <1>1, <1>4
  <2>2. /\ Append(s, x) \in Seq(Frame) /\ Len(Append(s, x)) = k + 1
        /\ \A i \in 1 .. k : Append(s, x)[i] = FrameOf(d, n, i, l)
        /\ Append(s, x)[k + 1] = x
    <3> HIDE DEF s, x
    <3>1. s \in Seq(Frame) /\ Len(s) = k
      BY <1>2 DEF s
    <3>2. /\ Append(s, x) \in Seq(Frame) /\ Len(Append(s, x)) = k + 1
          /\ \A i \in 1 .. k : Append(s, x)[i] = s[i]
          /\ Append(s, x)[k + 1] = x
      BY <2>1, <3>1, AppendProperties
    <3>3. QED
      BY <1>2, <3>2 DEF s
  <2>3. /\ Sent(d, n, k + 1, l) \in Seq(Frame) /\ Len(Sent(d, n, k + 1, l)) = k + 1
        /\ \A i \in 1 .. k + 1 : Sent(d, n, k + 1, l)[i] = FrameOf(d, n, i, l)
    <3>1. \A i \in 1 .. k + 1 : FrameOf(d, n, i, l) \in Frame
      BY <1>1, <1>4
    <3>2. QED
      BY <3>1 DEF Sent
  <2>4. \A i \in 1 .. k + 1 : Append(s, x)[i] = Sent(d, n, k + 1, l)[i]
    BY <2>2, <2>3
  <2> HIDE DEF s, x
  <2>5. Append(s, x) = Sent(d, n, k + 1, l)
    BY <2>2, <2>3, <2>4, SeqEqual
  <2>6. QED
    BY <2>5 DEF s, x
<1>5. QED
  BY <1>2, <1>3, <1>4

\* The next frame can be taken from those that are left.
LEMMA LeftIs ==
  ASSUME NEW d \in Ways, NEW n \in Nat, NEW l \in Nat, NEW k \in 0 .. l
  PROVE  /\ Left(d, n, k, l) \in Seq(Frame) /\ Len(Left(d, n, k, l)) = l - k
         /\ \A i \in 1 .. l - k : Left(d, n, k, l)[i] = FrameOf(d, n, k + i, l)
         /\ k = l <=> Left(d, n, k, l) = <<>>
         /\ k < l => /\ Left(d, n, k, l)[1] = FrameOf(d, n, k + 1, l)
                     /\ Tail(Left(d, n, k, l)) = Left(d, n, k + 1, l)
<1>1. \A i \in 1 .. l - k : FrameOf(d, n, k + i, l) \in Frame
  BY DEF FrameOf, Frame
<1>2. /\ Left(d, n, k, l) \in Seq(Frame) /\ Len(Left(d, n, k, l)) = l - k
      /\ \A i \in 1 .. l - k : Left(d, n, k, l)[i] = FrameOf(d, n, k + i, l)
  <2> HIDE DEF Frame
  <2>1. l - k \in Nat
    OBVIOUS
  <2>2. QED
    BY <1>1, <2>1 DEF Left
<1>3. k = l <=> Left(d, n, k, l) = <<>>
  BY <1>2, EmptySeq
<1>4. ASSUME k < l
      PROVE  Tail(Left(d, n, k, l)) = Left(d, n, k + 1, l)
  <2> DEFINE s == Left(d, n, k, l)
             u == Left(d, n, k + 1, l)
  <2>1. s \in Seq(Frame) /\ s # <<>> /\ Len(s) = l - k
    BY <1>2, <1>3, <1>4
  <2>2. /\ u \in Seq(Frame) /\ Len(u) = l - (k + 1)
        /\ \A i \in 1 .. l - (k + 1) : u[i] = FrameOf(d, n, (k + 1) + i, l)
    <3>1. \A i \in 1 .. l - (k + 1) : FrameOf(d, n, (k + 1) + i, l) \in Frame
      BY DEF FrameOf, Frame
    <3>2. l - (k + 1) \in Nat
      BY <1>4
    <3>3. QED
      BY <3>1, <3>2 DEF Left
  <2>3. /\ Tail(s) \in Seq(Frame) /\ Len(Tail(s)) = Len(s) - 1
        /\ \A i \in 1 .. Len(Tail(s)) : Tail(s)[i] = s[i + 1]
    <3> HIDE DEF s
    <3>1. QED
      BY <2>1, HeadTailProperties
  <2>4. ASSUME NEW i \in 1 .. Len(Tail(s))
        PROVE  Tail(s)[i] = u[i]
    <3>1. i + 1 \in 1 .. l - k /\ i \in 1 .. l - (k + 1)
      BY <2>1, <2>3, <1>4
    <3>2. Tail(s)[i] = s[i + 1]
      BY <2>3
    <3>3. s[i + 1] = FrameOf(d, n, k + (i + 1), l)
      BY <1>2, <3>1
    <3>4. u[i] = FrameOf(d, n, (k + 1) + i, l)
      BY <2>2, <3>1
    <3>5. k + (i + 1) = (k + 1) + i
      BY <3>1
    <3> HIDE DEF s, u
    <3>6. QED
      BY <3>2, <3>3, <3>4, <3>5
  <2>5. Len(Tail(s)) = Len(u)
    BY <2>1, <2>2, <2>3
  <2> HIDE DEF s, u
  <2>6. Tail(s) = u
    BY <2>2, <2>3, <2>4, <2>5, SeqEqual
  <2>7. QED
    BY <2>6 DEF s, u
<1>5. k < l => Left(d, n, k, l)[1] = FrameOf(d, n, k + 1, l)
  BY <1>2
<1>6. QED
  BY <1>2, <1>3, <1>4, <1>5

\* A whole message: nothing of it has been taken, or all of it sent.
LEMMA MessageIs ==
  ASSUME NEW d \in Ways, NEW n \in Nat, NEW l \in Nat \ {0}
  PROVE  /\ Message(d, n, l) = Left(d, n, 0, l)
         /\ Message(d, n, l) = Sent(d, n, l, l)
         /\ Message(d, n, l) \in Seq(Frame) /\ Message(d, n, l) # <<>>
         /\ Message(d, n, l)[1].at = 1
<1>1. Message(d, n, l) = Sent(d, n, l, l)
  BY DEF Message, Sent, FrameOf
<1>2. Message(d, n, l) = Left(d, n, 0, l)
  <2>1. l - 0 = l /\ \A i \in 1 .. l : 0 + i = i
    OBVIOUS
  <2>2. QED
    BY <2>1 DEF Message, Left, FrameOf
<1>3. Message(d, n, l) \in Seq(Frame) /\ Message(d, n, l) # <<>>
  BY <1>1, SentIs
<1>4. Message(d, n, l)[1].at = 1
  BY DEF Message
<1>5. QED
  BY <1>1, <1>2, <1>3, <1>4

LEMMA WholeIs ==
  ASSUME NEW d \in Ways, NEW m \in WholeMessages(d)
  PROVE  /\ m \in Seq(Frame) /\ m # <<>> /\ m[1].at = 1
         /\ \E n \in 1 .. MaxMessages[d], l \in Lengths :
              m = Message(d, n, l) /\ n \in Nat /\ l \in Nat \ {0}
<1>1. PICK n \in 1 .. MaxMessages[d], l \in Lengths : m = Message(d, n, l)
  BY DEF WholeMessages
<1>2. n \in Nat /\ l \in Nat \ {0}
  BY ProxyAssumption
<1>3. QED
  BY <1>1, <1>2, MessageIs

\* The first of a queue is taken, or put back.
LEMMA TailIs ==
  ASSUME NEW S, NEW q \in Seq(S), q # <<>>
  PROVE  /\ Len(q) \in Nat /\ 1 \in 1 .. Len(q) /\ q[1] \in S /\ Head(q) = q[1]
         /\ Tail(q) \in Seq(S) /\ Len(Tail(q)) = Len(q) - 1
         /\ \A i \in 1 .. Len(Tail(q)) : Tail(q)[i] = q[i + 1] /\ i + 1 \in 1 .. Len(q)
<1>1. Len(q) \in Nat /\ Len(q) # 0
  BY LenProperties, EmptySeq
<1>2. /\ Tail(q) \in Seq(S) /\ Len(Tail(q)) = Len(q) - 1
      /\ \A i \in 1 .. Len(Tail(q)) : Tail(q)[i] = q[i + 1]
  BY HeadTailProperties
<1>3. Head(q) = q[1] /\ q[1] \in S
  BY <1>1, ElementOfSeq
<1>4. QED
  BY <1>1, <1>2, <1>3

LEMMA ConsIs ==
  ASSUME NEW S, NEW q \in Seq(S), NEW e \in S
  PROVE  /\ <<e>> \o q \in Seq(S) /\ Len(<<e>> \o q) = Len(q) + 1
         /\ Len(q) \in Nat /\ <<e>> \o q # <<>>
         /\ (<<e>> \o q)[1] = e
         /\ \A i \in 2 .. Len(q) + 1 : (<<e>> \o q)[i] = q[i - 1] /\ i - 1 \in 1 .. Len(q)
         /\ Head(<<e>> \o q) = e /\ Tail(<<e>> \o q) = q
<1>1. /\ <<e>> \in Seq(S) /\ Len(<<e>>) = 1 /\ <<e>>[1] = e /\ Len(q) \in Nat
  BY LenProperties
<1>2. /\ <<e>> \o q \in Seq(S) /\ Len(<<e>> \o q) = Len(q) + 1
      /\ \A i \in 1 .. 1 + Len(q) :
           (<<e>> \o q)[i] = IF i <= 1 THEN <<e>>[i] ELSE q[i - 1]
  BY <1>1, ConcatProperties
<1>3. (<<e>> \o q)[1] = e
  BY <1>1, <1>2
<1>4. \A i \in 2 .. Len(q) + 1 : (<<e>> \o q)[i] = q[i - 1] /\ i - 1 \in 1 .. Len(q)
  BY <1>1, <1>2
<1> DEFINE s == <<e>> \o q
<1>5. s \in Seq(S) /\ s # <<>> /\ Len(s) = Len(q) + 1
  BY <1>1, <1>2, EmptySeq
<1>6. Head(s) = e /\ Tail(s) = q
  <2>1. /\ Tail(s) \in Seq(S) /\ Len(Tail(s)) = Len(s) - 1 /\ Head(s) = s[1]
        /\ \A i \in 1 .. Len(Tail(s)) : Tail(s)[i] = s[i + 1]
    <3> HIDE DEF s
    <3>1. QED
      BY <1>5, TailIs
  <2>2. \A i \in 1 .. Len(q) : s[i + 1] = q[i]
    BY <1>1, <1>4
  <2>3. s[1] = e
    BY <1>3
  <2> HIDE DEF s
  <2>4. Len(Tail(s)) = Len(q) /\ \A i \in 1 .. Len(q) : Tail(s)[i] = q[i]
    BY <1>1, <1>5, <2>1, <2>2
  <2>5. Tail(s) = q
    BY <2>1, <2>4, SeqEqual
  <2>6. QED
    BY <2>1, <2>3, <2>5
<1>7. QED
  BY <1>1, <1>2, <1>3, <1>4, <1>5, <1>6
----------------------------------------------------------------------------
(* Steps.                                                                  *)

LEMMA FramesAre ==
  /\ Directions \subseteq Ways
  /\ \A f \in CommandFrames :
       f \in Frame /\ f.dir \notin Ways /\ f.at = 1 /\ ~More(f)
  /\ Nothing \in Frame /\ Nothing.dir \notin Ways
BY DEF Directions, CommandFrames, Command, Commands, Frame, Ways, More, Nothing

\* A step that receives and sends no frame of direction d.
LEMMA KeepsInStep ==
  ASSUME NEW d \in Ways,
         way'[d].open = way[d].open, way'[d].incoming = way[d].incoming,
         hand' = hand \/ (hand.dir # d /\ hand'.dir # d)
  PROVE  /\ InStep(d) <=> InStep(d)'
         /\ \A k \in Nat : WholeAfter(d, k) <=> WholeAfter(d, k)'
<1>1. \A k \in Nat : WholeAfter(d, k) <=> WholeAfter(d, k)'
  BY DEF WholeAfter
<1>2. WholeAfter(d, 0) <=> WholeAfter(d, 0)'
  BY <1>1
<1>3. ASSUME NEW n, NEW l, NEW k
      PROVE  Transfer(d, n, k, l) <=> Transfer(d, n, k, l)'
  <2>1. WholeAfter(d, 1) <=> WholeAfter(d, 1)'
    BY <1>1
  <2>2. QED
    BY <1>2, <2>1 DEF Transfer
<1>4. InStep(d) <=> InStep(d)'
  BY <1>2, <1>3 DEF InStep
<1>5. QED
  BY <1>1, <1>4

LEMMA KeepsRelaying ==
  ASSUME Relaying, Good <=> Good',
         \A d \in Ways :
           /\ way'[d].open = way[d].open /\ way'[d].incoming = way[d].incoming
           /\ hand' = hand \/ (hand.dir # d /\ hand'.dir # d)
  PROVE  Relaying'
<1> SUFFICES ASSUME NEW d \in Ways
             PROVE  IF Good' THEN InStep(d)'
                    ELSE /\ WholeAfter(d, 1)'
                         /\ way'[d].incoming # <<>> =>
                              \/ way'[d].incoming[1] \in WholeMessages(d)
                              \/ way'[d].incoming[1][1].at > 1
  BY DEF Relaying
<1>1. /\ InStep(d) <=> InStep(d)'
      /\ WholeAfter(d, 1) <=> WholeAfter(d, 1)'
      /\ way'[d].incoming = way[d].incoming
  BY KeepsInStep
<1>2. QED
  BY <1>1 DEF Relaying

\* The loop is not between two frames of a message.
Quiet ==
  \A d \in Ways : hand.dir # d /\ way[d].open = <<>> /\ WholeAfter(d, 0)

LEMMA NothingTaken ==
  ASSUME NEW d \in Ways, InStep(d), hand.dir # d, way[d].open = <<>>
  PROVE  WholeAfter(d, 0)
<1>1. ASSUME NEW n \in 1 .. MaxMessages[d], NEW l \in Lengths, NEW k \in 1 .. l
      PROVE  ~Transfer(d, n, k, l)
  <2>1. n \in Nat /\ l \in Nat /\ k \in 0 .. l /\ k # 0
    BY ProxyAssumption
  <2>2. Sent(d, n, k, l) # <<>>
    BY <2>1, SentIs
  <2>3. QED
    BY <2>2 DEF Transfer
<1>2. QED
  BY <1>1 DEF InStep

LEMMA IsQuiet ==
  ASSUME IInv, Good,
         \/ at \in {"idle", "poll", "control", "obey"}
         \/ at = "copy" /\ hand \in CommandFrames
         \/ at = "forward" /\ (paused \/ ready = {})
  PROVE  Quiet
<1> SUFFICES ASSUME NEW d \in Ways
             PROVE  hand.dir # d /\ way[d].open = <<>> /\ WholeAfter(d, 0)
  BY DEF Quiet
<1>1. hand.dir # d /\ way[d].open = <<>>
  BY FramesAre DEF IInv, Focus
<1>2. InStep(d)
  BY DEF IInv, Relaying
<1>3. QED
  BY <1>1, <1>2, NothingTaken

\* A step after which it is not either.
LEMMA QuietAfter ==
  ASSUME Typed', Quiet'
  PROVE  Relaying' /\ Focus'
<1>1. ASSUME NEW d \in Ways
      PROVE  /\ InStep(d)' /\ WholeAfter(d, 1)'
             /\ way'[d].incoming # <<>> =>
                  way'[d].incoming[1] \in WholeMessages(d)
  <2>1. /\ hand'.dir # d /\ way'[d].open = <<>>
        /\ \A i \in 1 .. Len(way'[d].incoming) :
             i > 0 => way'[d].incoming[i] \in WholeMessages(d)
    BY DEF Quiet, WholeAfter
  <2>2. way'[d].incoming # <<>> => 1 \in 1 .. Len(way'[d].incoming)
    <3> DEFINE q == way'[d].incoming
    <3>1. q \in Seq(Seq(Frame))
      BY DEF Typed, WayState
    <3> HIDE DEF q
    <3>2. q # <<>> => 1 \in 1 .. Len(q)
      BY <3>1, TailIs
    <3>3. QED
      BY <3>2 DEF q
  <2>3. InStep(d)'
    BY <2>1 DEF InStep, WholeAfter
  <2>4. WholeAfter(d, 1)'
    BY <2>1 DEF WholeAfter
  <2>5. QED
    BY <2>1, <2>2, <2>3, <2>4
<1>2. Relaying'
  BY <1>1 DEF Relaying
<1>3. Focus'
  BY DEF Quiet, Focus
<1>4. QED
  BY <1>2, <1>3

\* A step that changes no queue of frames leaves a quiet loop quiet, if the
\* frame in its hand is not of a direction.
LEMMA StaysQuiet ==
  ASSUME Quiet,
         \A d \in Ways :
           /\ way'[d].open = way[d].open /\ way'[d].incoming = way[d].incoming
           /\ hand'.dir # d
  PROVE  Quiet'
BY DEF Quiet, WholeAfter

(* The application's steps.                                                *)

LEMMA ObjectKeepsIInv ==
  ASSUME IInv, NEW c, Object(c), HeldOnce',
         c \in [Proxies -> [capture : Captures \cup {null},
                            control : Controls \cup {null}]]
  PROVE  IInv'
<1>1. /\ at = "idle" /\ handle' = c
      /\ UNCHANGED <<result, at, self, paused, ready, hand, way, inbox, load,
                     terminated>>
  BY DEF Object, loop
<1>2. Typed'
  BY <1>1 DEF IInv, Typed
<1>3. Hands' /\ Admitted'
  BY <1>1 DEF IInv, Hands, Admitted, Room
<1>4. Relaying'
  BY <1>1, KeepsRelaying DEF IInv, Good
<1>5. Focus' /\ Polled'
  BY <1>1 DEF IInv, Focus, Good, Polled
<1>6. QED
  BY <1>2, <1>3, <1>4, <1>5 DEF IInv

LEMMA ObjectsKeepIInv ==
  ASSUME IInv, NEW p \in Proxies,
         \/ \E s \in Captures : SetCaptureSocket(p, s)
         \/ \E s \in Controls : SetControlSocket(p, s)
         \/ \E q \in Proxies \ {p} : SwapProxies(p, q) \/ MoveConstruct(p, q)
  PROVE  IInv'
<1> DEFINE Slots == [capture : Captures \cup {null}, control : Controls \cup {null}]
<1>1. handle \in [Proxies -> Slots] /\ HeldOnce
  BY DEF IInv, Typed
<1>2. ASSUME NEW s \in Captures, SetCaptureSocket(p, s)
      PROVE  IInv'
  <2> DEFINE c == [handle EXCEPT ![p].capture = s]
  <2>1. Object(c) /\ \A q \in Proxies : handle[q].capture # s
    BY <1>2 DEF SetCaptureSocket
  <2>2. /\ c[p].capture = s /\ c[p].control = handle[p].control
        /\ \A q \in Proxies \ {p} : c[q] = handle[q]
        /\ c \in [Proxies -> Slots]
    BY <1>1
  <2>3. handle' = c
    BY <2>1 DEF Object
  <2> HIDE DEF c
  <2>4. HeldOnce'
    BY <1>1, <2>1, <2>2, <2>3 DEF HeldOnce
  <2>5. QED
    BY <2>1, <2>2, <2>4, ObjectKeepsIInv
<1>3. ASSUME NEW s \in Controls, SetControlSocket(p, s)
      PROVE  IInv'
  <2> DEFINE c == [handle EXCEPT ![p].control = s]
  <2>1. Object(c) /\ \A q \in Proxies : handle[q].control # s
    BY <1>3 DEF SetControlSocket
  <2>2. /\ c[p].control = s /\ c[p].capture = handle[p].capture
        /\ \A q \in Proxies \ {p} : c[q] = handle[q]
        /\ c \in [Proxies -> Slots]
    BY <1>1
  <2>3. handle' = c
    BY <2>1 DEF Object
  <2> HIDE DEF c
  <2>4. HeldOnce'
    BY <1>1, <2>1, <2>2, <2>3 DEF HeldOnce
  <2>5. QED
    BY <2>1, <2>2, <2>4, ObjectKeepsIInv
<1>4. ASSUME NEW q \in Proxies \ {p}, SwapProxies(p, q)
      PROVE  IInv'
  <2> DEFINE c == [handle EXCEPT ![p] = handle[q], ![q] = handle[p]]
  <2>1. Object(c)
    BY <1>4 DEF SwapProxies
  <2>2. /\ c[p] = handle[q] /\ c[q] = handle[p]
        /\ \A r \in Proxies \ {p, q} : c[r] = handle[r]
        /\ c \in [Proxies -> Slots]
    BY <1>1
  <2>3. handle' = c
    BY <2>1 DEF Object
  <2> HIDE DEF c
  <2>4. HeldOnce'
    BY <1>1, <2>2, <2>3 DEF HeldOnce
  <2>5. QED
    BY <2>1, <2>2, <2>4, ObjectKeepsIInv
<1>5. ASSUME NEW q \in Proxies \ {p}, MoveConstruct(p, q)
      PROVE  IInv'
  <2> DEFINE none == [capture |-> null, control |-> null]
             c == [handle EXCEPT ![p] = handle[q], ![q] = none]
  <2>1. Object(c)
    BY <1>5 DEF MoveConstruct
  <2>2. /\ c[p] = handle[q] /\ c[q] = none
        /\ \A r \in Proxies \ {p, q} : c[r] = handle[r]
        /\ c \in [Proxies -> Slots]
    BY <1>1
  <2>3. handle' = c
    BY <2>1 DEF Object
  <2>4. none.capture = null /\ none.control = null
    OBVIOUS
  <2> HIDE DEF c, none
  <2>5. HeldOnce'
    BY <1>1, <2>2, <2>3, <2>4 DEF HeldOnce
  <2>6. QED
    BY <2>1, <2>2, <2>5, ObjectKeepsIInv
<1>6. QED
  BY <1>2, <1>3, <1>4, <1>5

LEMMA RunKeepsIInv ==
  ASSUME IInv, NEW p \in Proxies, Run(p)
  PROVE  IInv'
<1>1. /\ at = "idle" /\ at' = "poll" /\ self' = p /\ p # null
      /\ result.value /\ result.controlled
      /\ UNCHANGED <<handle, result, paused, ready, hand, way, inbox, load,
                     terminated>>
  BY ProxyAssumption DEF Run
<1>2. Typed'
  BY <1>1 DEF IInv, Typed
<1>3. Quiet
  BY <1>1, IsQuiet DEF Good
<1>4. Quiet'
  BY <1>1, <1>3, StaysQuiet DEF Quiet
<1>5. Relaying' /\ Focus'
  BY <1>2, <1>4, QuietAfter
<1>6. Hands' /\ Admitted' /\ Polled' /\ HeldOnce'
  BY <1>1 DEF IInv, Hands, Admitted, Polled, HeldOnce
<1>7. QED
  BY <1>2, <1>5, <1>6 DEF IInv

(* The loop's steps.                                                       *)

LEMMA PollKeepsIInv ==
  ASSUME IInv, Poll
  PROVE  IInv'
<1>1. /\ at = "poll" /\ at' \in {"control", "forward"}
      /\ at' = "control" => Commanded
      /\ ready' = {d \in Directions :
                     /\ way[d].incoming # <<>>
                     /\ To(d) \in Blocking => way[d].waiting < HighWaterMark}
      /\ UNCHANGED <<handle, result, self, paused, hand, way, inbox, load,
                     terminated>>
  BY DEF Poll
<1>2. Typed'
  BY <1>1 DEF IInv, Typed
<1>3. Quiet
  BY <1>1, IsQuiet DEF Good
<1>4. Quiet'
  BY <1>1, <1>3, StaysQuiet DEF Quiet
<1>5. Relaying' /\ Focus'
  BY <1>2, <1>4, QuietAfter
<1>6. Hands'
  BY <1>1 DEF IInv, Hands, Commanded, Control
<1>7. Admitted' /\ Polled' /\ HeldOnce'
  BY <1>1, <1>4 DEF IInv, Admitted, Quiet, Polled, HeldOnce
<1>8. QED
  BY <1>2, <1>5, <1>6, <1>7 DEF IInv

LEMMA TakeCommandKeepsIInv ==
  ASSUME IInv, TakeCommand
  PROVE  IInv'
<1>1. /\ at = "control" /\ at' = "copy" /\ hand' = Head(inbox[Control])
      /\ inbox' = [inbox EXCEPT ![Control] = Tail(inbox[Control])]
      /\ UNCHANGED <<handle, result, self, paused, ready, way, load, terminated>>
  BY DEF TakeCommand
<1>2. /\ Control # null /\ Control \in Controls
      /\ inbox[Control] \in Seq(CommandFrames) /\ inbox[Control] # <<>>
  <2>1. Control # null /\ inbox[Control] # <<>>
    BY <1>1 DEF IInv, Hands, Commanded
  <2>2. self \in Proxies
    BY <1>1 DEF IInv, Typed
  <2>3. handle[self].control \in Controls \cup {null}
    BY <2>2 DEF IInv, Typed
  <2>4. QED
    BY <2>1, <2>3 DEF IInv, Typed, Control
<1>3. hand' \in CommandFrames /\ Tail(inbox[Control]) \in Seq(CommandFrames)
  BY <1>1, <1>2, TailIs
<1>4. Typed'
  <2>1. hand' \in Frame
    BY <1>3, FramesAre
  <2>2. inbox' \in [Controls -> Seq(CommandFrames)]
    BY <1>1, <1>2, <1>3 DEF IInv, Typed
  <2>3. QED
    BY <1>1, <2>1, <2>2 DEF IInv, Typed
<1>5. Quiet
  BY <1>1, IsQuiet DEF Good
<1>6. Quiet'
  BY <1>1, <1>3, <1>5, FramesAre, StaysQuiet
<1>7. Relaying' /\ Focus'
  BY <1>4, <1>6, QuietAfter
<1>8. Hands'
  BY <1>1, <1>2, <1>3 DEF Hands, Control
<1>9. Admitted' /\ HeldOnce'
  BY <1>1, <1>3, FramesAre DEF IInv, Admitted, HeldOnce, Frame
<1>10. Polled'
  BY <1>1, <1>5 DEF IInv, Typed, Polled, Quiet, Directions
<1>11. QED
  BY <1>4, <1>7, <1>8, <1>9, <1>10 DEF IInv

LEMMA CopyKeepsIInv ==
  ASSUME IInv, Copy
  PROVE  IInv'
<1>1. /\ at = "copy" /\ ~CaptureBlocked
      /\ at' = IF hand.dir \in Directions THEN "send" ELSE "obey"
      /\ load' = [s \in Captures |->
                    IF s = Capture /\ CaptureType[s] \in Blocking /\ ~More(hand)
                    THEN load[s] + 1 ELSE load[s]]
      /\ UNCHANGED <<handle, result, self, paused, ready, hand, way, inbox,
                     terminated>>
  BY DEF Copy
<1>2. /\ self \in Proxies /\ Capture \in Captures \cup {null}
      /\ null \notin Captures /\ load \in [Captures -> 0 .. HighWaterMark]
      /\ HighWaterMark \in Nat \ {0} /\ hand \in Frame /\ ready \subseteq Directions
  BY <1>1, ProxyAssumption DEF IInv, Typed, Capture
<1>3. Room
  <2>1. CASE hand.at > 1
    BY <1>1, <2>1 DEF IInv, Admitted
  <2>2. CASE ~(hand.at > 1)
    <3>1. hand.at = 1
      <4>1. hand \in CommandFrames => hand.at = 1
        BY FramesAre
      <4>2. hand \notin CommandFrames => hand.dir \in Ways
        BY <1>1, <1>2, FramesAre DEF IInv, Hands
      <4>3. ASSUME hand.dir \in Ways
            PROVE  hand.at # 0
        <5> DEFINE d == hand.dir
        <5>1. InStep(d)
          BY <1>1, <4>3 DEF IInv, Relaying, Good
        <5>2. PICK n \in 1 .. MaxMessages[d], l \in Lengths :
                \E k \in 1 .. l : Transfer(d, n, k, l)
          BY <5>1 DEF InStep
        <5>3. PICK k \in 1 .. l : Transfer(d, n, k, l)
          BY <5>2
        <5>4. hand = FrameOf(d, n, k, l)
          BY <5>3 DEF Transfer
        <5>5. hand.at = k
          BY <5>4 DEF FrameOf
        <5>6. QED
          BY <5>5
      <4>4. hand.at \in Nat
        BY <1>2 DEF Frame
      <4>5. QED
        BY <2>2, <4>1, <4>2, <4>3, <4>4
    <3>2. QED
      BY <1>1, <1>2, <3>1 DEF CaptureBlocked, Room
  <2>3. QED
    BY <2>1, <2>2
<1>4. load' \in [Captures -> 0 .. HighWaterMark]
  <2>1. ASSUME NEW s \in Captures
        PROVE  (IF s = Capture /\ CaptureType[s] \in Blocking /\ ~More(hand)
                THEN load[s] + 1 ELSE load[s]) \in 0 .. HighWaterMark
    <3>1. load[s] \in 0 .. HighWaterMark
      BY <1>2
    <3>2. s = Capture /\ CaptureType[s] \in Blocking => load[s] < HighWaterMark
      BY <1>2, <1>3 DEF Room
    <3>3. QED
      BY <1>2, <3>1, <3>2
  <2>2. QED
    BY <1>1, <2>1
<1>5. More(hand) => Room'
  BY <1>1, <1>2, <1>3 DEF Room, Capture
<1>6. Typed'
  BY <1>1, <1>4 DEF IInv, Typed
<1>7. Relaying'
  BY <1>1, KeepsRelaying DEF IInv, Good
<1>8. Focus' /\ Polled' /\ HeldOnce'
  <2>1. \A d \in Ways : hand.dir = d \/ way[d].open # <<>> =>
          /\ ~paused /\ d \in ready /\ hand.dir = d
          /\ d = IF "request" \in ready THEN "request" ELSE "reply"
    BY <1>1 DEF IInv, Focus, Good
  <2>2. Focus'
    BY <1>1, <1>2, <2>1 DEF Focus
  <2>3. QED
    BY <1>1, <2>2 DEF IInv, Polled, HeldOnce
<1>9. Hands'
  <2>1. at' = "send" => hand.dir \in ready
    BY <1>1, <1>2, FramesAre DEF IInv, Hands
  <2>2. at' = "obey" => hand \in CommandFrames /\ Control # null
    BY <1>1, <1>2 DEF IInv, Hands
  <2>3. QED
    BY <1>1, <2>1, <2>2 DEF Hands, Control
<1>10. Admitted'
  BY <1>1, <1>5 DEF Admitted
<1>11. QED
  BY <1>6, <1>7, <1>8, <1>9, <1>10 DEF IInv

LEMMA ReturnedIsTyped ==
  ASSUME Typed, NEW ok \in BOOLEAN, Returns(ok),
         UNCHANGED <<handle, way, inbox, load, terminated>>
  PROVE  Typed' /\ Hands' /\ Admitted' /\ Polled'
<1>1. /\ at' = "idle" /\ self' = null /\ hand' = Nothing
      /\ paused' = FALSE /\ ready' = {}
      /\ result' = [value |-> IF Control # null THEN ok ELSE TRUE,
                    controlled |-> Control # null]
  BY DEF Returns
<1>2. result' \in [value : BOOLEAN, controlled : BOOLEAN]
  BY <1>1
<1>3. Typed'
  BY <1>1, <1>2, FramesAre DEF Typed
<1>4. QED
  BY <1>1, <1>3 DEF Hands, Admitted, Polled

LEMMA ObeyKeepsIInv ==
  ASSUME IInv, Obey
  PROVE  IInv'
<1>1. /\ at = "obey" /\ hand \in CommandFrames /\ Control # null
      /\ UNCHANGED <<handle, way, inbox, load, terminated>>
  BY DEF IInv, Hands, Obey
<1>2. Quiet
  BY <1>1, IsQuiet DEF Good
<1>3. hand' = Nothing
  BY DEF Obey, Returns
<1>4. Quiet'
  BY <1>1, <1>2, <1>3, FramesAre, StaysQuiet
<1>5. HeldOnce'
  BY <1>1 DEF IInv, HeldOnce
<1>6. CASE hand.dir = "TERMINATE"
  <2>1. Returns(TRUE)
    BY <1>6 DEF Obey
  <2>2. Typed' /\ Hands' /\ Admitted' /\ Polled'
    BY <1>1, <2>1, ReturnedIsTyped DEF IInv
  <2>3. QED
    BY <1>4, <1>5, <2>2, QuietAfter DEF IInv
<1>7. CASE hand.dir # "TERMINATE"
  <2>1. /\ at' = "forward" /\ paused' = (hand.dir = "PAUSE")
        /\ UNCHANGED <<result, self, ready>>
    BY <1>7 DEF Obey
  <2>2. Typed'
    BY <1>1, <1>3, <2>1, FramesAre DEF IInv, Typed
  <2>3. Relaying' /\ Focus'
    BY <1>4, <2>2, QuietAfter
  <2>4. Hands' /\ Admitted'
    BY <1>3, <1>4, <2>1 DEF Hands, Admitted, Quiet
  <2>5. Polled'
    BY <1>1, <1>2, <2>1 DEF IInv, Typed, Polled, Quiet, Directions
  <2>6. QED
    BY <1>5, <2>2, <2>3, <2>4, <2>5 DEF IInv
<1>8. QED
  BY <1>6, <1>7

\* k frames have been relayed of a message that has l, and the others wait.
Ahead(d, n, k, l) ==
  /\ way[d].open = Sent(d, n, k, l)
  /\ way[d].incoming # <<>> /\ way[d].incoming[1] = Left(d, n, k, l)
  /\ WholeAfter(d, 1)

\* The direction whose turn it is.
Turn == IF "request" \in ready THEN "request" ELSE "reply"

LEMMA TurnIsAhead ==
  ASSUME IInv, at = "forward", ~paused, ready # {}, NEW d, d = Turn
  PROVE  /\ d \in ready /\ d \in Ways
         /\ \E n \in 1 .. MaxMessages[d], l \in Lengths :
              \E k \in 0 .. l - 1 : Ahead(d, n, k, l)
<1>1. d \in ready /\ d \in Ways
  BY FramesAre DEF IInv, Typed, Turn, Ways
<1>2. hand.dir # d /\ InStep(d) /\ way[d].incoming # <<>>
  BY <1>1, FramesAre DEF IInv, Hands, Relaying, Good, Polled
<1>3. CASE way[d].open = <<>> /\ WholeAfter(d, 0)
  <2>1. way[d].incoming \in Seq(Seq(Frame))
    BY <1>1 DEF IInv, Typed, WayState
  <2>2. 1 \in 1 .. Len(way[d].incoming)
    BY <1>2, <2>1, TailIs
  <2>3. way[d].incoming[1] \in WholeMessages(d) /\ WholeAfter(d, 1)
    BY <1>3, <2>2 DEF WholeAfter
  <2>4. PICK n \in 1 .. MaxMessages[d], l \in Lengths :
          way[d].incoming[1] = Message(d, n, l) /\ n \in Nat /\ l \in Nat \ {0}
    BY <1>1, <2>3, WholeIs
  <2>5. way[d].incoming[1] = Left(d, n, 0, l)
    BY <1>1, <2>4, MessageIs
  <2>6. way[d].open = Sent(d, n, 0, l)
    BY <1>1, <1>3, <2>4, SentIs
  <2>7. Ahead(d, n, 0, l) /\ 0 \in 0 .. l - 1
    BY <1>2, <2>3, <2>4, <2>5, <2>6 DEF Ahead
  <2>8. QED
    BY <1>1, <2>7
<1>4. CASE \E n \in 1 .. MaxMessages[d], l \in Lengths :
             \E k \in 1 .. l : Transfer(d, n, k, l)
  <2>1. PICK n \in 1 .. MaxMessages[d], l \in Lengths :
          \E k \in 1 .. l : Transfer(d, n, k, l)
    BY <1>4
  <2>2. PICK k \in 1 .. l : Transfer(d, n, k, l)
    BY <2>1
  <2>3. l \in Nat
    BY ProxyAssumption
  <2>4. Ahead(d, n, k, l) /\ k \in 0 .. l - 1
    BY <1>2, <2>2, <2>3 DEF Transfer, Ahead
  <2>5. QED
    BY <1>1, <2>4
<1>5. QED
  BY <1>2, <1>3, <1>4 DEF InStep

\* What Receive does to a message that is ahead.
LEMMA Received ==
  ASSUME IInv, Receive, NEW d, d = Turn,
         NEW n \in 1 .. MaxMessages[d], NEW l \in Lengths,
         NEW k \in 0 .. l - 1, Ahead(d, n, k, l)
  PROVE  /\ n \in Nat /\ l \in Nat /\ k + 1 \in 1 .. l /\ k \in 0 .. l
         /\ hand' = FrameOf(d, n, k + 1, l) /\ hand' \in Frame
         /\ way' \in [Ways -> WayState]
         /\ \A e \in Ways \ {d} : way'[e] = way[e]
         /\ way'[d].arrived = way[d].arrived
         /\ way'[d].open = way[d].open
         /\ way'[d].relayed = way[d].relayed
         /\ way'[d].waiting = way[d].waiting
         /\ way[d].incoming \in Seq(Seq(Frame))
         /\ way'[d].incoming =
              IF k + 1 = l THEN Tail(way[d].incoming)
              ELSE <<Left(d, n, k + 1, l)>> \o Tail(way[d].incoming)
         /\ Left(d, n, k + 1, l) \in Seq(Frame)
         /\ Transfer(d, n, k + 1, l)'
<1> DEFINE q == way[d].incoming
           rest == Left(d, n, k + 1, l)
           left == IF k + 1 = l THEN Tail(q) ELSE <<rest>> \o Tail(q)
<1>1. /\ n \in Nat /\ l \in Nat /\ k + 1 \in 1 .. l /\ k \in 0 .. l /\ k < l
      /\ k \in Nat /\ k + 1 \in 0 .. l
  BY ProxyAssumption
<1>2. d \in Ways /\ d \in ready
  BY TurnIsAhead DEF Receive
<1>3. q \in Seq(Seq(Frame)) /\ way \in [Ways -> WayState] /\ q # <<>>
  BY <1>2 DEF IInv, Typed, WayState, Ahead
<1>4. q[1] = Left(d, n, k, l) /\ way[d].open = Sent(d, n, k, l) /\ WholeAfter(d, 1)
  BY DEF Ahead
<1>5. /\ q[1][1] = FrameOf(d, n, k + 1, l) /\ Tail(q[1]) = rest
      /\ rest \in Seq(Frame) /\ (rest = <<>> <=> k + 1 = l)
  <2>1. /\ Left(d, n, k, l)[1] = FrameOf(d, n, k + 1, l)
        /\ Tail(Left(d, n, k, l)) = rest
    BY <1>1, <1>2, LeftIs
  <2>2. rest \in Seq(Frame) /\ (rest = <<>> <=> k + 1 = l)
    <3> DEFINE j == k + 1
    <3>1. j \in 0 .. l
      BY <1>1
    <3> HIDE DEF j
    <3>2. l \in Nat /\ n \in Nat /\ d \in Ways
      BY <1>1, <1>2
    <3>3. Left(d, n, j, l) \in Seq(Frame)
      BY <3>1, <3>2, LeftIs
    <3>4. Len(Left(d, n, j, l)) = l - j
      BY <3>1, <3>2, LeftIs
    <3>5. Left(d, n, j, l) = <<>> <=> j = l
      BY <3>1, <3>2, <3>3, <3>4, EmptySeq
    <3>6. QED
      BY <3>3, <3>5 DEF j
  <2>3. QED
    BY <1>4, <2>1, <2>2
<1>6. hand' = q[1][1] /\ way' = [way EXCEPT ![d].incoming = left]
  <2>1. way' = [way EXCEPT ![d].incoming =
                  IF Tail(q[1]) = <<>> THEN Tail(q) ELSE <<Tail(q[1])>> \o Tail(q)]
    BY <1>2 DEF Receive, Turn
  <2>2. (IF Tail(q[1]) = <<>> THEN Tail(q) ELSE <<Tail(q[1])>> \o Tail(q)) = left
    BY <1>5
  <2> HIDE DEF left
  <2>3. way' = [way EXCEPT ![d].incoming = left]
    BY <2>1, <2>2
  <2>4. hand' = q[1][1]
    BY DEF Receive, Turn
  <2>5. QED
    BY <2>3, <2>4
<1>7. /\ Tail(q) \in Seq(Seq(Frame)) /\ Len(Tail(q)) = Len(q) - 1 /\ Len(q) \in Nat
      /\ \A i \in 1 .. Len(Tail(q)) : Tail(q)[i] = q[i + 1] /\ i + 1 \in 1 .. Len(q)
  <2> HIDE DEF q
  <2>1. QED
    BY <1>3, TailIs
<1>8. /\ <<rest>> \o Tail(q) \in Seq(Seq(Frame))
      /\ Len(<<rest>> \o Tail(q)) = Len(Tail(q)) + 1
      /\ <<rest>> \o Tail(q) # <<>> /\ (<<rest>> \o Tail(q))[1] = rest
      /\ \A i \in 2 .. Len(Tail(q)) + 1 :
           /\ (<<rest>> \o Tail(q))[i] = Tail(q)[i - 1]
           /\ i - 1 \in 1 .. Len(Tail(q))
  <2> HIDE DEF q, rest
  <2>1. QED
    BY <1>5, <1>7, ConsIs
<1>9. left \in Seq(Seq(Frame))
  BY <1>7, <1>8
<1>10. /\ way' \in [Ways -> WayState]
       /\ \A e \in Ways \ {d} : way'[e] = way[e]
       /\ way'[d].arrived = way[d].arrived
       /\ way'[d].open = way[d].open
       /\ way'[d].relayed = way[d].relayed
       /\ way'[d].waiting = way[d].waiting
       /\ way'[d].incoming = left
  <2> HIDE DEF left
  <2>1. QED
    BY <1>2, <1>3, <1>6, <1>9 DEF WayState
<1>11. \A i \in 1 .. Len(Tail(q)) : Tail(q)[i] \in WholeMessages(d)
  <2>1. \A i \in 1 .. Len(q) : i > 1 => q[i] \in WholeMessages(d)
    BY <1>4 DEF WholeAfter
  <2>2. ASSUME NEW i \in 1 .. Len(Tail(q))
        PROVE  Tail(q)[i] \in WholeMessages(d)
    <3>1. Tail(q)[i] = q[i + 1] /\ i + 1 \in 1 .. Len(q) /\ i + 1 > 1
      BY <1>7
    <3>2. QED
      BY <2>1, <3>1
  <2>3. QED
    BY <2>2
<1>12. hand' = FrameOf(d, n, k + 1, l) /\ hand'.dir = d /\ hand' \in Frame
  <2>1. FrameOf(d, n, k + 1, l) \in Frame /\ FrameOf(d, n, k + 1, l).dir = d
    BY <1>1, <1>2 DEF FrameOf, Frame
  <2>2. QED
    BY <1>5, <1>6, <2>1
<1>13. way'[d].open = Sent(d, n, (k + 1) - 1, l)
  <2>1. (k + 1) - 1 = k
    BY <1>1
  <2>2. QED
    BY <1>4, <1>10, <2>1
<1>14. CASE k + 1 = l
  <2>1. WholeAfter(d, 0)'
    BY <1>10, <1>11, <1>14 DEF WholeAfter
  <2>2. Transfer(d, n, k + 1, l)'
    BY <1>12, <1>13, <1>14, <2>1 DEF Transfer
  <2>3. QED
    BY <1>1, <1>3, <1>5, <1>10, <1>12, <2>2
<1>15. CASE k + 1 # l
  <2>1. way'[d].incoming = <<rest>> \o Tail(q)
    BY <1>10, <1>15
  <2>2. WholeAfter(d, 1)'
    <3>1. ASSUME NEW i \in 1 .. Len(<<rest>> \o Tail(q)), i > 1
          PROVE  (<<rest>> \o Tail(q))[i] \in WholeMessages(d)
      <4>1. i \in 2 .. Len(Tail(q)) + 1
        BY <1>7, <1>8, <3>1
      <4>2. QED
        BY <1>8, <1>11, <4>1
    <3>2. QED
      BY <2>1, <3>1 DEF WholeAfter
  <2>3. way'[d].incoming # <<>> /\ way'[d].incoming[1] = rest
    BY <1>8, <2>1
  <2>4. Transfer(d, n, k + 1, l)'
    BY <1>12, <1>13, <1>15, <2>2, <2>3 DEF Transfer
  <2>5. QED
    BY <1>1, <1>3, <1>5, <1>10, <1>12, <2>4
<1>16. QED
  BY <1>14, <1>15

LEMMA ReceiveKeepsIInv ==
  ASSUME IInv, Receive
  PROVE  IInv'
<1>1. /\ at = "forward" /\ at' = "copy" /\ ~paused /\ ready # {}
      /\ UNCHANGED <<handle, result, self, paused, ready, inbox, load, terminated>>
  BY DEF Receive
<1>2. PICK d : d = Turn
  OBVIOUS
<1>3. d \in ready /\ d \in Ways /\ hand = Nothing
  BY <1>1, <1>2, TurnIsAhead DEF IInv, Hands
<1>4. PICK n \in 1 .. MaxMessages[d], l \in Lengths :
        \E k \in 0 .. l - 1 : Ahead(d, n, k, l)
  BY <1>1, <1>2, TurnIsAhead
<1>5. PICK k \in 0 .. l - 1 : Ahead(d, n, k, l)
  BY <1>4
<1>6. /\ n \in Nat /\ l \in Nat /\ k + 1 \in 1 .. l /\ k \in 0 .. l
      /\ hand' = FrameOf(d, n, k + 1, l) /\ hand' \in Frame
      /\ way' \in [Ways -> WayState]
      /\ \A e \in Ways \ {d} : way'[e] = way[e]
      /\ way'[d].arrived = way[d].arrived
      /\ way'[d].open = way[d].open
      /\ way'[d].waiting = way[d].waiting
      /\ Transfer(d, n, k + 1, l)'
  BY <1>2, <1>5, Received
<1>7. hand'.dir = d /\ hand'.at = k + 1
  BY <1>6 DEF FrameOf
<1>8. Typed'
  <2>1. \A e \in Ways : way'[e].arrived <= MaxMessages[e]
    BY <1>3, <1>6 DEF IInv, Typed
  <2>2. QED
    BY <1>1, <1>6, <2>1 DEF IInv, Typed
<1>9. Hands'
  BY <1>1, <1>3, <1>7 DEF Hands
<1>10. Relaying'
  <2>1. InStep(d)'
    BY <1>6 DEF InStep
  <2>2. ASSUME NEW e \in Ways \ {d}
        PROVE  InStep(e)'
    <3>1. InStep(e) /\ hand.dir # e /\ hand'.dir # e /\ way'[e] = way[e]
      BY <1>1, <1>3, <1>6, <1>7, FramesAre DEF IInv, Relaying, Good
    <3>2. QED
      BY <3>1, KeepsInStep
  <2>3. Good'
    BY <1>1 DEF Good
  <2>4. \A e \in Ways : InStep(e)'
    BY <2>1, <2>2
  <2>5. QED
    BY <2>3, <2>4 DEF Relaying
<1>11. \A e \in Ways \ {d} : hand'.dir # e /\ way'[e].open = <<>>
  BY <1>1, <1>2, <1>6, <1>7 DEF IInv, Focus, Good, Turn
<1>12. Focus'
  <2> SUFFICES ASSUME NEW e \in Ways, hand'.dir = e \/ way'[e].open # <<>>
               PROVE  /\ ~paused' /\ e \in ready'
                      /\ e = IF "request" \in ready' THEN "request" ELSE "reply"
                      /\ IF at' = "forward" THEN hand'.dir # e
                         ELSE at' \in {"copy", "send"} /\ hand'.dir = e
    BY DEF Focus
  <2>1. e = d
    BY <1>11
  <2>2. QED
    BY <1>1, <1>2, <1>3, <1>7, <2>1 DEF Turn
<1>13. Admitted'
  <2>1. hand'.at > 1 => way[d].open # <<>>
    <3>1. way[d].open = Sent(d, n, k, l)
      BY <1>5 DEF Ahead
    <3>2. k # 0 => way[d].open # <<>>
      BY <1>3, <1>6, <3>1, SentIs
    <3>3. QED
      BY <1>7, <3>2
  <2>2. hand'.at > 1 => Room
    BY <1>1, <1>3, <2>1 DEF IInv, Admitted
  <2>3. hand'.at > 1 => Room'
    BY <1>1, <2>2 DEF Room, Capture
  <2>4. QED
    BY <1>1, <2>3 DEF Admitted
<1>14. Polled'
  BY <1>1, <1>3, <1>6, <1>7, FramesAre DEF IInv, Typed, Polled
<1>15. HeldOnce'
  BY <1>1 DEF IInv, HeldOnce
<1>16. QED
  BY <1>8, <1>9, <1>10, <1>12, <1>13, <1>14, <1>15 DEF IInv

\* The frame in the loop's hand is the next one of the message it sends.
LEMMA HandIsNext ==
  ASSUME IInv, at = "send", NEW d, d = hand.dir
  PROVE  /\ d \in ready /\ d \in Ways
         /\ \E n \in 1 .. MaxMessages[d], l \in Lengths :
              \E k \in 1 .. l :
                /\ n \in Nat /\ l \in Nat /\ Transfer(d, n, k, l)
                /\ Append(way[d].open, hand) = Sent(d, n, k, l)
                /\ More(hand) <=> k < l
<1>1. d \in ready /\ d \in Ways /\ InStep(d)
  BY FramesAre DEF IInv, Hands, Typed, Relaying, Good
<1>2. PICK n \in 1 .. MaxMessages[d], l \in Lengths :
        \E k \in 1 .. l : Transfer(d, n, k, l)
  BY <1>1 DEF InStep
<1>3. PICK k \in 1 .. l : Transfer(d, n, k, l)
  BY <1>2
<1>4. n \in Nat /\ l \in Nat /\ k - 1 \in 0 .. l /\ k - 1 < l /\ (k - 1) + 1 = k
  BY ProxyAssumption
<1>5. hand = FrameOf(d, n, k, l) /\ way[d].open = Sent(d, n, k - 1, l)
  BY <1>3 DEF Transfer
<1>6. Append(way[d].open, hand) = Sent(d, n, k, l)
  <2> DEFINE j == k - 1
  <2>1. j \in 0 .. l /\ j < l
    BY <1>4
  <2> HIDE DEF j
  <2>2. Append(Sent(d, n, j, l), FrameOf(d, n, j + 1, l)) = Sent(d, n, j + 1, l)
    BY <1>1, <1>4, <2>1, SentIs
  <2>3. QED
    BY <1>4, <1>5, <2>2 DEF j
<1>7. More(hand) <=> k < l
  BY <1>5 DEF More, FrameOf
<1>8. QED
  BY <1>1, <1>3, <1>4, <1>6, <1>7

LEMMA SendKeepsIInv ==
  ASSUME IInv, Send
  PROVE  IInv'
<1>1. PICK d : d = hand.dir
  OBVIOUS
<1>2. /\ at = "send" /\ at' = "forward" /\ hand' = Nothing
      /\ UNCHANGED <<handle, result, self, paused, inbox, load, terminated>>
  BY DEF Send
<1>3. d \in ready /\ d \in Ways
  BY <1>1, <1>2, HandIsNext
<1>4. PICK n \in 1 .. MaxMessages[d], l \in Lengths :
        \E k \in 1 .. l :
          /\ n \in Nat /\ l \in Nat /\ Transfer(d, n, k, l)
          /\ Append(way[d].open, hand) = Sent(d, n, k, l)
          /\ More(hand) <=> k < l
  BY <1>1, <1>2, HandIsNext
<1>5. PICK k \in 1 .. l :
        /\ n \in Nat /\ l \in Nat /\ Transfer(d, n, k, l)
        /\ Append(way[d].open, hand) = Sent(d, n, k, l)
        /\ More(hand) <=> k < l
  BY <1>4
<1> DEFINE message == Sent(d, n, k, l)
<1>6. /\ way \in [Ways -> WayState] /\ message \in Seq(Frame)
      /\ way[d].relayed \in Seq(Seq(Frame))
      /\ HighWaterMark \in Nat
  <2>1. message \in Seq(Frame)
    BY <1>3, <1>5, SentIs
  <2>2. QED
    BY <1>3, <2>1, ProxyAssumption DEF IInv, Typed, WayState
<1>7. HeldOnce'
  BY <1>2 DEF IInv, HeldOnce
<1>8. hand'.dir \notin Ways
  BY <1>2, FramesAre
<1>9. \A e \in Ways \ {d} : hand.dir # e /\ way[e].open = <<>> /\ InStep(e)
  BY <1>1, <1>2 DEF IInv, Focus, Relaying, Good
\* More frames of the message follow.
<1>10. CASE k < l
  <2> HIDE DEF message
  <2>1. way' = [way EXCEPT ![d].open = message] /\ ready' = ready
    BY <1>1, <1>5, <1>10 DEF Send, message
  <2>2. /\ way' \in [Ways -> WayState]
        /\ \A e \in Ways \ {d} : way'[e] = way[e]
        /\ way'[d].arrived = way[d].arrived
        /\ way'[d].incoming = way[d].incoming
        /\ way'[d].waiting = way[d].waiting
        /\ way'[d].open = message
    BY <1>3, <1>6, <2>1 DEF WayState
  <2>3. Typed'
    <3>1. \A e \in Ways : way'[e].arrived <= MaxMessages[e]
      BY <1>3, <2>2 DEF IInv, Typed
    <3>2. QED
      BY <1>2, <2>1, <2>2, <3>1, FramesAre DEF IInv, Typed
  <2>4. Transfer(d, n, k, l)'
    <3>1. WholeAfter(d, 1)'
      BY <1>5, <1>10, <2>2 DEF Transfer, WholeAfter
    <3>2. /\ way'[d].incoming # <<>> /\ way'[d].incoming[1] = Left(d, n, k, l)
      BY <1>5, <1>10, <2>2 DEF Transfer
    <3>3. hand'.dir # d
      BY <1>3, <1>8
    <3>4. QED
      BY <1>5, <1>10, <2>2, <3>1, <3>2, <3>3 DEF Transfer, message
  <2>5. Relaying'
    <3>1. InStep(d)'
      BY <2>4 DEF InStep
    <3>2. ASSUME NEW e \in Ways \ {d}
          PROVE  InStep(e)'
      BY <1>8, <1>9, <2>2, KeepsInStep
    <3>3. \A e \in Ways : InStep(e)'
      BY <3>1, <3>2
    <3>4. Good'
      BY <1>2 DEF Good
    <3>5. QED
      BY <3>3, <3>4 DEF Relaying
  <2>6. Focus'
    <3> SUFFICES ASSUME NEW e \in Ways, way'[e].open # <<>>
                 PROVE  /\ ~paused' /\ e \in ready'
                        /\ e = IF "request" \in ready' THEN "request" ELSE "reply"
      BY <1>2, <1>8 DEF Focus
    <3>1. e = d
      BY <1>9, <2>2
    <3>2. QED
      BY <1>1, <1>2, <1>3, <2>1, <3>1 DEF IInv, Focus, Good
  <2>7. Hands'
    BY <1>2 DEF Hands
  <2>8. Admitted'
    <3>1. Room
      BY <1>2, <1>5, <1>10 DEF IInv, Admitted
    <3>2. Room'
      BY <1>2, <3>1 DEF Room, Capture
    <3>3. QED
      BY <1>2, <3>2 DEF Admitted
  <2>9. Polled'
    <3>1. way'[d].incoming # <<>>
      BY <1>5, <1>10, <2>2 DEF Transfer
    <3>2. \A e \in Ways : way'[e].waiting = way[e].waiting
      BY <2>2
    <3>3. \A e \in ready \ {d} : way'[e] = way[e] /\ hand.dir # e
      BY <1>1, <2>2, FramesAre DEF IInv, Typed
    <3>4. ready \subseteq Ways
      BY FramesAre DEF IInv, Typed
    <3>5. QED
      BY <2>1, <3>1, <3>2, <3>3, <3>4 DEF IInv, Polled
  <2>10. QED
    BY <1>7, <2>3, <2>5, <2>6, <2>7, <2>8, <2>9 DEF IInv
\* It was the last one.
<1>11. CASE k = l
  <2> HIDE DEF message
  <2> DEFINE w == IF To(d) \in Blocking THEN way[d].waiting + 1 ELSE way[d].waiting
  <2>1. /\ way' = [way EXCEPT ![d].open = <<>>,
                     ![d].relayed = Append(way[d].relayed, message),
                     ![d].waiting = w]
        /\ ready' = ready \ {d}
    BY <1>1, <1>5, <1>11 DEF Send, message
  <2>2. /\ Append(way[d].relayed, message) \in Seq(Seq(Frame))
        /\ <<>> \in Seq(Frame)
    BY <1>6, AppendProperties, EmptySeq
  <2>3. w \in 0 .. HighWaterMark
    <3>1. way[d].waiting \in 0 .. HighWaterMark
      BY <1>3, <1>6 DEF WayState
    <3>2. To(d) \in Blocking => way[d].waiting < HighWaterMark
      BY <1>3 DEF IInv, Polled
    <3>3. QED
      BY <1>6, <3>1, <3>2
  <2> HIDE DEF w
  <2>4. /\ way' \in [Ways -> WayState]
        /\ \A e \in Ways \ {d} : way'[e] = way[e]
        /\ way'[d].arrived = way[d].arrived
        /\ way'[d].incoming = way[d].incoming
        /\ way'[d].open = <<>>
    BY <1>3, <1>6, <2>1, <2>2, <2>3 DEF WayState
  <2>5. Typed'
    <3>1. \A e \in Ways : way'[e].arrived <= MaxMessages[e]
      BY <1>3, <2>4 DEF IInv, Typed
    <3>2. QED
      BY <1>2, <2>1, <2>4, <3>1, FramesAre DEF IInv, Typed
  <2>6. Quiet'
    <3>1. WholeAfter(d, 0)'
      BY <1>5, <1>11, <2>4 DEF Transfer, WholeAfter
    <3>2. ASSUME NEW e \in Ways \ {d}
          PROVE  way'[e].open = <<>> /\ WholeAfter(e, 0)'
      <4>1. WholeAfter(e, 0)
        BY <1>9, NothingTaken
      <4>2. QED
        BY <1>9, <2>4, <4>1 DEF WholeAfter
    <3>3. QED
      BY <1>8, <2>4, <3>1, <3>2 DEF Quiet
  <2>7. Relaying' /\ Focus'
    BY <2>5, <2>6, QuietAfter
  <2>8. Hands' /\ Admitted'
    BY <1>2, <2>6 DEF Hands, Admitted, Quiet
  <2>9. Polled'
    <3>1. \A e \in ready \ {d} : way'[e] = way[e] /\ hand.dir # e
      BY <1>1, <2>4, FramesAre DEF IInv, Typed
    <3>2. QED
      BY <2>1, <3>1 DEF IInv, Polled
  <2>10. QED
    BY <1>7, <2>5, <2>7, <2>8, <2>9 DEF IInv
<1>12. QED
  BY <1>5, <1>10, <1>11

LEMMA LoopAgainKeepsIInv ==
  ASSUME IInv, LoopAgain
  PROVE  IInv'
<1>1. /\ at = "forward" /\ at' = "poll" /\ (paused \/ ready = {})
      /\ UNCHANGED <<handle, result, self, paused, ready, hand, way, inbox,
                     load, terminated>>
  BY DEF LoopAgain
<1>2. Typed'
  BY <1>1 DEF IInv, Typed
<1>3. Quiet
  BY <1>1, IsQuiet DEF Good
<1>4. Quiet'
  BY <1>1, <1>3, StaysQuiet DEF Quiet
<1>5. Relaying' /\ Focus'
  BY <1>2, <1>4, QuietAfter
<1>6. Hands' /\ Admitted' /\ Polled' /\ HeldOnce'
  BY <1>1 DEF IInv, Hands, Admitted, Polled, HeldOnce
<1>7. QED
  BY <1>2, <1>5, <1>6 DEF IInv

\* Wherever the loop is broken off, no direction is run again.
LEMMA FailsKeepsIInv ==
  ASSUME IInv, Fails
  PROVE  IInv'
<1>1. /\ at # "idle" /\ Good /\ Returns(FALSE)
      /\ UNCHANGED <<handle, way, inbox, load, terminated>>
  BY DEF Fails, CaptureBlocked, Good
<1>2. Typed' /\ Hands' /\ Admitted' /\ Polled'
  BY <1>1, ReturnedIsTyped DEF IInv
<1>3. ~Good'
  <2>1. /\ at' = "idle"
        /\ result' = [value |-> IF Control # null THEN FALSE ELSE TRUE,
                      controlled |-> Control # null]
    BY <1>1 DEF Returns
  <2>2. result'.value = (IF Control # null THEN FALSE ELSE TRUE)
    BY <2>1
  <2>3. result'.controlled = (Control # null)
    BY <2>1
  <2>4. ~(result'.value /\ result'.controlled)
    BY <2>2, <2>3
  <2>5. QED
    BY <2>1, <2>4 DEF Good
<1>4. ASSUME NEW d \in Ways
      PROVE  /\ WholeAfter(d, 1)
             /\ way[d].incoming # <<>> =>
                  \/ way[d].incoming[1] \in WholeMessages(d)
                  \/ way[d].incoming[1][1].at > 1
  <2>1. WholeAfter(d, 0) => WholeAfter(d, 1)
    BY DEF WholeAfter
  <2>2. WholeAfter(d, 0) /\ way[d].incoming # <<>> =>
          way[d].incoming[1] \in WholeMessages(d)
    <3>1. way[d].incoming \in Seq(Seq(Frame))
      BY DEF IInv, Typed, WayState
    <3>2. way[d].incoming # <<>> => 1 \in 1 .. Len(way[d].incoming)
      BY <3>1, TailIs
    <3>3. QED
      BY <3>2 DEF WholeAfter
  <2>3. ASSUME NEW n \in 1 .. MaxMessages[d], NEW l \in Lengths, NEW k \in 1 .. l,
               Transfer(d, n, k, l), k # l
        PROVE  WholeAfter(d, 1) /\ way[d].incoming[1][1].at > 1
    <3>1. n \in Nat /\ l \in Nat /\ k \in 0 .. l /\ k < l
      BY <2>3, ProxyAssumption
    <3>2. way[d].incoming[1] = Left(d, n, k, l) /\ WholeAfter(d, 1)
      BY <2>3 DEF Transfer
    <3>3. Left(d, n, k, l)[1] = FrameOf(d, n, k + 1, l)
      BY <3>1, LeftIs
    <3>4. FrameOf(d, n, k + 1, l).at = k + 1 /\ k + 1 > 1
      BY <3>1 DEF FrameOf
    <3>5. QED
      BY <3>2, <3>3, <3>4
  <2>4. ASSUME NEW n \in 1 .. MaxMessages[d], NEW l \in Lengths, NEW k \in 1 .. l,
               Transfer(d, n, k, l), k = l
        PROVE  WholeAfter(d, 0)
    BY <2>4 DEF Transfer
  <2>5. InStep(d)
    BY <1>1 DEF IInv, Relaying
  <2>6. QED
    BY <2>1, <2>2, <2>3, <2>4, <2>5 DEF InStep
<1>5. Relaying'
  <2> SUFFICES ASSUME NEW d \in Ways
               PROVE  /\ WholeAfter(d, 1)'
                      /\ way'[d].incoming # <<>> =>
                           \/ way'[d].incoming[1] \in WholeMessages(d)
                           \/ way'[d].incoming[1][1].at > 1
    BY <1>3 DEF Relaying
  <2>1. WholeAfter(d, 1) => WholeAfter(d, 1)'
    BY <1>1 DEF WholeAfter
  <2>2. QED
    BY <1>1, <1>4, <2>1
<1>6. Focus' /\ HeldOnce'
  BY <1>1, <1>3 DEF IInv, Focus, HeldOnce
<1>7. QED
  BY <1>2, <1>5, <1>6 DEF IInv

(* The peers' steps.                                                       *)

LEMMA ArriveKeepsIInv ==
  ASSUME IInv, NEW d \in Directions, NEW l \in Lengths, Arrive(d, l)
  PROVE  IInv'
<1> DEFINE n == way[d].arrived + 1
           m == Message(d, n, l)
           q == way[d].incoming
<1>1. /\ d \in Ways /\ way \in [Ways -> WayState]
      /\ way[d].arrived \in Nat /\ way[d].arrived < MaxMessages[d]
      /\ MaxMessages[d] \in Nat /\ l \in Nat \ {0} /\ q \in Seq(Seq(Frame))
  BY FramesAre, ProxyAssumption DEF IInv, Typed, WayState, Arrive
<1>2. /\ way' = [way EXCEPT ![d].arrived = n, ![d].incoming = Append(q, m)]
      /\ UNCHANGED <<handle, result, at, self, paused, ready, hand, inbox, load,
                     terminated>>
  BY DEF Arrive, Unmoved, loop
<1>3. n \in 1 .. MaxMessages[d] /\ n \in Nat
  BY <1>1
<1>4. m \in WholeMessages(d) /\ m \in Seq(Frame)
  <2> HIDE DEF n
  <2>1. QED
    BY <1>1, <1>3, MessageIs DEF WholeMessages
<1> HIDE DEF m, n
<1>5. /\ Append(q, m) \in Seq(Seq(Frame)) /\ Len(q) \in Nat
      /\ Len(Append(q, m)) = Len(q) + 1 /\ Append(q, m)[Len(q) + 1] = m
      /\ \A i \in 1 .. Len(q) : Append(q, m)[i] = q[i]
  <2> HIDE DEF q
  <2>1. QED
    BY <1>1, <1>4, AppendProperties, LenProperties
<1>6. /\ way' \in [Ways -> WayState]
      /\ \A e \in Ways \ {d} : way'[e] = way[e]
      /\ way'[d].arrived = n
      /\ way'[d].incoming = Append(q, m)
      /\ way'[d].open = way[d].open
      /\ way'[d].waiting = way[d].waiting
  <2> HIDE DEF q
  <2>1. QED
    BY <1>1, <1>2, <1>3, <1>5 DEF WayState
<1>7. Typed'
  <2>1. \A e \in Ways : way'[e].arrived <= MaxMessages[e]
    BY <1>3, <1>6 DEF IInv, Typed
  <2>2. QED
    BY <1>2, <1>6, <2>1 DEF IInv, Typed
<1>8. ASSUME NEW k \in {0, 1}, WholeAfter(d, k)
      PROVE  WholeAfter(d, k)'
  <2> SUFFICES ASSUME NEW i \in 1 .. Len(way'[d].incoming), i > k
               PROVE  way'[d].incoming[i] \in WholeMessages(d)
    BY DEF WholeAfter
  <2>1. CASE i = Len(q) + 1
    BY <1>4, <1>5, <1>6, <2>1
  <2>2. CASE i # Len(q) + 1
    <3>1. i \in 1 .. Len(q)
      BY <1>5, <1>6, <2>2
    <3>2. QED
      BY <1>5, <1>6, <1>8, <3>1 DEF WholeAfter
  <2>3. QED
    BY <2>1, <2>2
<1>9. way[d].incoming # <<>> =>
        way'[d].incoming # <<>> /\ way'[d].incoming[1] = way[d].incoming[1]
  <2>1. q # <<>> => 1 \in 1 .. Len(q)
    BY <1>1, TailIs
  <2>2. Append(q, m) # <<>>
    BY <1>5, EmptySeq
  <2>3. QED
    BY <1>5, <1>6, <2>1, <2>2
<1>10. way[d].incoming = <<>> =>
         way'[d].incoming[1] \in WholeMessages(d)
  <2>1. q = <<>> => Len(q) = 0
    BY EmptySeq
  <2>2. QED
    BY <1>4, <1>5, <1>6, <2>1
<1>11. Relaying'
  <2>1. Good <=> Good'
    BY <1>2 DEF Good
  <2>2. ASSUME NEW e \in Ways \ {d}
        PROVE  /\ InStep(e) <=> InStep(e)'
               /\ WholeAfter(e, 1) <=> WholeAfter(e, 1)'
               /\ way'[e] = way[e]
    BY <1>2, <1>6, KeepsInStep
  <2>3. InStep(d) => InStep(d)'
    <3>1. ASSUME NEW n1, NEW l1, NEW k1, Transfer(d, n1, k1, l1)
          PROVE  Transfer(d, n1, k1, l1)'
      BY <1>2, <1>6, <1>8, <1>9, <3>1 DEF Transfer
    <3>2. QED
      BY <1>2, <1>6, <1>8, <3>1 DEF InStep
  <2>4. ASSUME ~Good
        PROVE  /\ WholeAfter(d, 1)'
               /\ way'[d].incoming # <<>> =>
                    \/ way'[d].incoming[1] \in WholeMessages(d)
                    \/ way'[d].incoming[1][1].at > 1
    BY <1>1, <1>8, <1>9, <1>10, <2>4 DEF IInv, Relaying
  <2>5. ASSUME NEW e \in Ways
        PROVE  IF Good' THEN InStep(e)'
               ELSE /\ WholeAfter(e, 1)'
                    /\ way'[e].incoming # <<>> =>
                         \/ way'[e].incoming[1] \in WholeMessages(e)
                         \/ way'[e].incoming[1][1].at > 1
    <3>1. CASE e = d
      BY <1>1, <2>1, <2>3, <2>4, <3>1 DEF IInv, Relaying
    <3>2. CASE e # d
      BY <2>1, <2>2, <3>2 DEF IInv, Relaying
    <3>3. QED
      BY <3>1, <3>2
  <2>6. QED
    BY <2>5 DEF Relaying
<1>12. Focus' /\ Hands' /\ Admitted' /\ HeldOnce'
  <2>1. \A e \in Ways : way'[e].open = way[e].open
    BY <1>6
  <2>2. Focus'
    BY <1>2, <2>1 DEF IInv, Focus, Good
  <2>3. Hands' /\ HeldOnce'
    BY <1>2 DEF IInv, Hands, Commanded, Control, HeldOnce
  <2>4. Admitted'
    BY <1>2, <2>1 DEF IInv, Admitted, Room, Capture
  <2>5. QED
    BY <2>2, <2>3, <2>4
<1>13. Polled'
  BY <1>2, <1>6, <1>9, FramesAre DEF IInv, Typed, Polled
<1>14. QED
  BY <1>7, <1>11, <1>12, <1>13 DEF IInv

LEMMA PeerTakesKeepsIInv ==
  ASSUME IInv, NEW d \in Directions, PeerTakes(d)
  PROVE  IInv'
<1>1. /\ d \in Ways /\ way \in [Ways -> WayState]
      /\ way[d].waiting \in 0 .. HighWaterMark /\ way[d].waiting > 0
      /\ HighWaterMark \in Nat
      /\ way' = [way EXCEPT ![d].waiting = way[d].waiting - 1]
      /\ UNCHANGED <<handle, result, at, self, paused, ready, hand, inbox, load,
                     terminated>>
  BY FramesAre, ProxyAssumption
  DEF IInv, Typed, WayState, PeerTakes, Unmoved, loop
<1>2. /\ way' \in [Ways -> WayState]
      /\ \A e \in Ways :
           /\ way'[e].arrived = way[e].arrived
           /\ way'[e].incoming = way[e].incoming
           /\ way'[e].open = way[e].open
           /\ way'[e].waiting <= way[e].waiting
  <2> DEFINE w == way[d].waiting - 1
  <2>1. w \in 0 .. HighWaterMark /\ w <= way[d].waiting
    BY <1>1
  <2>2. way' = [way EXCEPT ![d].waiting = w]
    BY <1>1
  <2> HIDE DEF w
  <2>3. way' \in [Ways -> WayState]
    BY <1>1, <2>1, <2>2 DEF WayState
  <2>4. /\ way'[d].arrived = way[d].arrived /\ way'[d].incoming = way[d].incoming
        /\ way'[d].open = way[d].open /\ way'[d].waiting = w
    BY <1>1, <2>2 DEF WayState
  <2>5. \A e \in Ways \ {d} :
          way'[e] = way[e] /\ way[e].waiting \in 0 .. HighWaterMark
    BY <1>1, <2>2 DEF WayState
  <2>6. QED
    BY <1>1, <2>1, <2>3, <2>4, <2>5
<1>3. Typed'
  BY <1>1, <1>2 DEF IInv, Typed
<1>4. Relaying'
  BY <1>1, <1>2, KeepsRelaying DEF IInv, Good
<1>5. Focus' /\ Hands' /\ Admitted' /\ HeldOnce'
  BY <1>1, <1>2 DEF IInv, Focus, Good, Hands, Commanded, Control, Admitted, Room,
                    Capture, HeldOnce
<1>6. Polled'
  <2> SUFFICES ASSUME NEW e \in ready
               PROVE  /\ hand.dir # e => way'[e].incoming # <<>>
                      /\ To(e) \in Blocking => way'[e].waiting < HighWaterMark
    BY <1>1 DEF Polled
  <2>1. e \in Ways
    BY FramesAre DEF IInv, Typed
  <2>2. /\ way[e].waiting \in Int /\ way'[e].waiting \in Int
        /\ way'[e].incoming = way[e].incoming /\ way'[e].waiting <= way[e].waiting
    BY <1>1, <1>2, <2>1 DEF WayState
  <2>3. QED
    BY <1>1, <2>2 DEF IInv, Polled
<1>7. QED
  BY <1>3, <1>4, <1>5, <1>6 DEF IInv

LEMMA CaptureTakenKeepsIInv ==
  ASSUME IInv, NEW s \in Captures, CaptureTaken(s)
  PROVE  IInv'
<1>1. /\ load \in [Captures -> 0 .. HighWaterMark] /\ load[s] > 0
      /\ HighWaterMark \in Nat
      /\ load' = [load EXCEPT ![s] = load[s] - 1]
      /\ UNCHANGED <<handle, result, at, self, paused, ready, hand, way, inbox,
                     terminated>>
  BY ProxyAssumption DEF IInv, Typed, CaptureTaken, Unmoved, loop
<1>2. load' \in [Captures -> 0 .. HighWaterMark]
  BY <1>1
<1>3. \A c \in Captures : load[c] \in Int /\ load'[c] \in Int /\ load'[c] <= load[c]
  BY <1>1
<1>4. Typed'
  BY <1>1, <1>2 DEF IInv, Typed
<1>5. Relaying'
  BY <1>1, KeepsRelaying DEF IInv, Good
<1>6. Focus' /\ Hands' /\ Polled' /\ HeldOnce'
  BY <1>1 DEF IInv, Focus, Good, Hands, Commanded, Control, Polled, HeldOnce
<1>7. Admitted'
  <2>1. ASSUME at # "idle", Room
        PROVE  Room'
    <3>1. self \in Proxies
      BY <2>1 DEF IInv, Typed
    <3>2. Capture \in Captures \cup {null} /\ Capture' = Capture
      BY <1>1, <3>1 DEF IInv, Typed, Capture
    <3>3. QED
      BY <1>1, <1>3, <2>1, <3>2 DEF Room
  <2>2. QED
    BY <1>1, <2>1 DEF IInv, Admitted
<1>8. QED
  BY <1>4, <1>5, <1>6, <1>7 DEF IInv

LEMMA SteerKeepsIInv ==
  ASSUME IInv, NEW s \in Controls, NEW c \in Commands, Steer(s, c)
  PROVE  IInv'
<1>1. /\ inbox \in [Controls -> Seq(CommandFrames)]
      /\ inbox' = [inbox EXCEPT ![s] = Append(inbox[s], Command(c))]
      /\ Command(c) \in CommandFrames
      /\ UNCHANGED <<handle, result, at, self, paused, ready, hand, way, load,
                     terminated>>
  BY DEF IInv, Typed, Steer, Unmoved, loop, CommandFrames
<1>2. /\ Append(inbox[s], Command(c)) \in Seq(CommandFrames)
      /\ Append(inbox[s], Command(c)) # <<>>
  <2> DEFINE i == inbox[s]
             x == Command(c)
  <2>1. i \in Seq(CommandFrames) /\ x \in CommandFrames
    BY <1>1
  <2> HIDE DEF i, x
  <2>2. Append(i, x) \in Seq(CommandFrames) /\ Append(i, x) # <<>>
    <3>1. Append(i, x) \in Seq(CommandFrames) /\ Len(Append(i, x)) = Len(i) + 1
      BY <2>1, AppendProperties
    <3>2. Len(i) \in Nat
      BY <2>1, LenProperties
    <3>3. QED
      BY <3>1, <3>2, EmptySeq
  <2>3. QED
    BY <2>2 DEF i, x
<1>3. /\ inbox' \in [Controls -> Seq(CommandFrames)]
      /\ inbox'[s] # <<>>
      /\ \A r \in Controls \ {s} : inbox'[r] = inbox[r]
  BY <1>1, <1>2
<1>4. Typed'
  BY <1>1, <1>3 DEF IInv, Typed
<1>5. Relaying'
  BY <1>1, KeepsRelaying DEF IInv, Good
<1>6. Hands'
  <2>1. at = "control" => Commanded'
    <3> SUFFICES ASSUME at = "control"
                 PROVE  Commanded'
      OBVIOUS
    <3>1. self \in Proxies /\ Control # null /\ inbox[Control] # <<>>
      BY DEF IInv, Typed, Hands, Commanded
    <3>2. Control \in Controls /\ Control' = Control
      BY <1>1, <3>1 DEF IInv, Typed, Control
    <3>3. QED
      BY <1>3, <3>1, <3>2 DEF Commanded
  <2>2. QED
    BY <1>1, <2>1 DEF IInv, Hands, Control
<1>7. Focus' /\ Admitted' /\ Polled' /\ HeldOnce'
  BY <1>1 DEF IInv, Focus, Good, Admitted, Room, Capture, Polled, HeldOnce
<1>8. QED
  BY <1>4, <1>5, <1>6, <1>7 DEF IInv

\* The context's termination, or a step of something else, changes no more.
LEMMA OthersKeepIInv ==
  ASSUME IInv, terminated' \in BOOLEAN,
         UNCHANGED <<handle, result, loop, way, inbox, load>>
  PROVE  IInv'
<1>1. UNCHANGED <<handle, result, at, self, paused, ready, hand, way, inbox, load>>
  BY DEF loop
<1>2. Typed'
  BY <1>1 DEF IInv, Typed
<1>3. Relaying'
  BY <1>1, KeepsRelaying DEF IInv, Good
<1>4. Focus' /\ Hands' /\ Admitted' /\ Polled' /\ HeldOnce'
  BY <1>1 DEF IInv, Focus, Good, Hands, Commanded, Control, Admitted, Room,
              Capture, Polled, HeldOnce
<1>5. QED
  BY <1>2, <1>3, <1>4 DEF IInv
----------------------------------------------------------------------------
(* The invariant.                                                          *)

LEMMA StepKeepsIInv == IInv /\ [Next]_vars => IInv'
<1> SUFFICES ASSUME IInv, [Next]_vars
             PROVE  IInv'
  OBVIOUS
<1>1. CASE UNCHANGED vars
  BY <1>1, OthersKeepIInv DEF vars, IInv, Typed
<1>2. ASSUME NEW p \in Proxies,
             \/ Run(p)
             \/ \E s \in Captures : SetCaptureSocket(p, s)
             \/ \E s \in Controls : SetControlSocket(p, s)
             \/ \E q \in Proxies \ {p} : SwapProxies(p, q) \/ MoveConstruct(p, q)
      PROVE  IInv'
  <2>1. CASE Run(p)
    BY <2>1, RunKeepsIInv
  <2>2. CASE ~Run(p)
    BY <1>2, <2>2, ObjectsKeepIInv
  <2>3. QED
    BY <2>1, <2>2
<1>3. CASE Library
  BY <1>3, PollKeepsIInv, TakeCommandKeepsIInv, CopyKeepsIInv, ObeyKeepsIInv,
     ReceiveKeepsIInv, SendKeepsIInv, LoopAgainKeepsIInv DEF Library
<1>4. CASE Fails
  BY <1>4, FailsKeepsIInv
<1>5. ASSUME NEW d \in Directions, PeerTakes(d) \/ \E n \in Lengths : Arrive(d, n)
      PROVE  IInv'
  BY <1>5, PeerTakesKeepsIInv, ArriveKeepsIInv
<1>6. ASSUME NEW s \in Captures, CaptureTaken(s)
      PROVE  IInv'
  BY <1>6, CaptureTakenKeepsIInv
<1>7. ASSUME NEW s \in Controls, NEW c \in Commands, Steer(s, c)
      PROVE  IInv'
  BY <1>7, SteerKeepsIInv
<1>8. CASE TerminateContext
  BY <1>8, OthersKeepIInv DEF TerminateContext
<1>9. QED
  BY <1>1, <1>2, <1>3, <1>4, <1>5, <1>6, <1>7, <1>8 DEF Next

LEMMA InitIInv == Init => IInv
<1> SUFFICES ASSUME Init
             PROVE  IInv
  OBVIOUS
<1>1. Typed
  <2>1. handle \in [Proxies -> [capture : Captures \cup {null},
                                control : Controls \cup {null}]]
    BY DEF Init
  <2>2. way \in [Ways -> WayState] /\ \A d \in Ways : way[d].arrived = 0
    <3>1. <<>> \in Seq(Seq(Frame)) /\ <<>> \in Seq(Frame)
      BY EmptySeq
    <3>2. 0 \in 0 .. HighWaterMark
      BY ProxyAssumption
    <3>3. QED
      BY <3>1, <3>2 DEF Init, WayState
  <2>3. inbox \in [Controls -> Seq(CommandFrames)]
    BY EmptySeq DEF Init
  <2>4. load \in [Captures -> 0 .. HighWaterMark]
    BY ProxyAssumption DEF Init
  <2>5. \A d \in Ways : way[d].arrived <= MaxMessages[d]
    BY <2>2, ProxyAssumption
  <2>6. result \in [value : BOOLEAN, controlled : BOOLEAN]
    BY DEF Init
  <2>7. QED
    BY <2>1, <2>2, <2>3, <2>4, <2>5, <2>6, FramesAre, ProxyAssumption
    DEF Init, Typed
<1>2. Quiet
  <2>1. \A d \in Ways : way[d].open = <<>> /\ Len(way[d].incoming) = 0
    BY EmptySeq DEF Init
  <2>2. QED
    BY <2>1, FramesAre DEF Init, Quiet, WholeAfter
<1>3. Hands /\ Admitted /\ Polled
  BY DEF Init, Hands, Admitted, Polled
<1>4. Relaying /\ Focus
  <2>1. Good
    BY DEF Init, Good
  <2>2. \A d \in Ways : InStep(d)
    BY <1>2 DEF Quiet, InStep
  <2>3. QED
    BY <1>2, <2>1, <2>2 DEF Relaying, Focus, Quiet
<1>5. HeldOnce
  BY DEF Init, HeldOnce
<1>6. QED
  BY <1>1, <1>3, <1>4, <1>5 DEF IInv

LEMMA Invariance == Spec => []IInv
BY InitIInv, StepKeepsIInv, PTL DEF Spec
----------------------------------------------------------------------------
(* Theorems.                                                               *)

\* Every variable keeps its type; libzmq's loop holds a frame, and has a control
\* socket, where it uses them, and it sends a frame only where zmq_poll has found
\* room; no queue is filled beyond its mark.
THEOREM TypeCorrect == Spec => []TypeOK
<1>1. IInv => TypeOK
  <2> SUFFICES ASSUME IInv
               PROVE  TypeOK
    OBVIOUS
  <2>1. \A d \in Directions : way[d].waiting \in 0 .. HighWaterMark
    BY FramesAre DEF IInv, Typed, WayState
  <2>2. at \in {"control", "obey"} => Control # null
    BY DEF IInv, Hands, Commanded
  <2>3. QED
    BY <2>1, <2>2 DEF IInv, Typed, Hands, TypeOK
<1>2. QED
  BY <1>1, Invariance, PTL

\* A capture or control socket that was given to one Proxy is held by one at
\* most, whatever is moved, swapped and constructed (Proxy's move constructor,
\* move assignment and swap).
THEOREM SocketsHeldOnce == Spec => []HeldOnce
<1>1. IInv => HeldOnce
  BY DEF IInv
<1>2. QED
  BY <1>1, Invariance, PTL

\* If a Proxy with a control socket returns true from run(), every message is
\* relayed in full or not begun: TERMINATE is obeyed between two messages only
\* (Proxy::run).
THEOREM TrueLeavesWholeMessages == Spec => []TrueMeansWhole
<1>1. IInv => TrueMeansWhole
  <2> SUFFICES ASSUME IInv, at = "idle", result.value, result.controlled,
                      NEW d \in Directions
               PROVE  /\ way[d].open = <<>>
                      /\ \A i \in 1 .. Len(way[d].incoming) :
                           way[d].incoming[i][1].at = 1
    BY DEF TrueMeansWhole
  <2>1. d \in Ways /\ Quiet
    BY FramesAre, IsQuiet DEF Good
  <2>2. /\ way[d].open = <<>>
        /\ \A i \in 1 .. Len(way[d].incoming) :
             way[d].incoming[i] \in WholeMessages(d)
    BY <2>1 DEF Quiet, WholeAfter
  <2>3. QED
    BY <2>1, <2>2, WholeIs
<1>2. QED
  BY <1>1, Invariance, PTL
----------------------------------------------------------------------------
(* Each direction implements AtomicChannel.                                *)

\* Queue, of any place of the thread, frame in its hand and state of a direction.
TakenIn(h, w, d) == IF h.dir = d THEN Append(w.open, h) ELSE w.open
UntouchedIn(w) ==
  IF w.incoming # <<>> /\ w.incoming[1][1].at > 1
  THEN Tail(w.incoming) ELSE w.incoming
QueueIn(a, h, w, d) ==
  (IF a = "idle" \/ TakenIn(h, w, d) = <<>> THEN <<>>
   ELSE <<Message(d, TakenIn(h, w, d)[1].no, TakenIn(h, w, d)[1].of)>>)
    \o UntouchedIn(w)

LEMMA QueuesAre ==
  ASSUME NEW d \in Ways
  PROVE  /\ Queue(d) = QueueIn(at, hand, way[d], d)
         /\ Queue(d)' = QueueIn(at', hand', way'[d], d)
BY DEF Queue, Halfway, Taken, Untouched, QueueIn, TakenIn, UntouchedIn

\* All of w.incoming that no frame has been taken of.
Whole(w, d) ==
  \A i \in 1 .. Len(w.incoming) : w.incoming[i] \in WholeMessages(d)

LEMMA NoneTaken ==
  ASSUME NEW d \in Ways, NEW a, NEW h, NEW w \in WayState,
         h.dir # d, w.open = <<>>, Whole(w, d)
  PROVE  QueueIn(a, h, w, d) = w.incoming
<1> DEFINE q == w.incoming
<1>1. q \in Seq(Seq(Frame))
  BY DEF WayState
<1>2. ~(q # <<>> /\ q[1][1].at > 1)
  <2> SUFFICES ASSUME q # <<>>
               PROVE  q[1][1].at = 1
    OBVIOUS
  <2>1. 1 \in 1 .. Len(q)
    <3> HIDE DEF q
    <3>1. QED
      BY <1>1, TailIs
  <2>2. QED
    BY <2>1, WholeIs DEF Whole
<1>3. QueueIn(a, h, w, d) = <<>> \o q
  BY <1>2 DEF QueueIn, TakenIn, UntouchedIn
<1>4. <<>> \o q = q
  <2> HIDE DEF q
  <2>1. QED
    BY <1>1, ConcatEmptySeq
<1>5. QED
  BY <1>3, <1>4

\* Transfer, of any frame in hand and state of a direction.
TransferIn(h, w, d, n, k, l) ==
  /\ IF h.dir = d THEN h = FrameOf(d, n, k, l) /\ w.open = Sent(d, n, k - 1, l)
     ELSE w.open = Sent(d, n, k, l)
  /\ IF k = l THEN Whole(w, d)
     ELSE w.incoming # <<>> /\ w.incoming[1] = Left(d, n, k, l)

LEMMA TransfersAre ==
  ASSUME NEW d \in Ways, NEW n, NEW k, NEW l
  PROVE  /\ Transfer(d, n, k, l) => TransferIn(hand, way[d], d, n, k, l)
         /\ Transfer(d, n, k, l)' => TransferIn(hand', way'[d], d, n, k, l)
<1>1. WholeAfter(d, 0) => Whole(way[d], d)
  BY DEF WholeAfter, Whole
<1>2. WholeAfter(d, 0)' => Whole(way'[d], d)
  BY DEF WholeAfter, Whole
<1>3. QED
  BY <1>1, <1>2 DEF Transfer, TransferIn

\* What waits behind the message of which k of the l frames have been received.
Behind(w, k, l) == IF k = l THEN w.incoming ELSE Tail(w.incoming)

LEMMA BehindIs ==
  ASSUME NEW d \in Ways, NEW h, NEW w \in WayState,
         NEW n \in Nat, NEW l \in Nat, NEW k \in 1 .. l,
         TransferIn(h, w, d, n, k, l)
  PROVE  /\ UntouchedIn(w) = Behind(w, k, l)
         /\ Behind(w, k, l) \in Seq(Seq(Frame))
<1> DEFINE q == w.incoming
<1>1. CASE k = l
  <2>1. Whole(w, d) /\ q \in Seq(Seq(Frame))
    BY <1>1 DEF TransferIn, WayState
  <2>2. ~(q # <<>> /\ q[1][1].at > 1)
    <3> SUFFICES ASSUME q # <<>>
                 PROVE  q[1][1].at = 1
      OBVIOUS
    <3>1. 1 \in 1 .. Len(q)
      <4> HIDE DEF q
      <4>1. QED
        BY <2>1, TailIs
    <3>2. QED
      BY <2>1, <3>1, WholeIs DEF Whole
  <2>3. QED
    BY <1>1, <2>1, <2>2 DEF Behind, UntouchedIn
<1>2. CASE k # l
  <2>1. q # <<>> /\ q[1] = Left(d, n, k, l)
    BY <1>2 DEF TransferIn
  <2>2. Left(d, n, k, l)[1] = FrameOf(d, n, k + 1, l)
    <3>1. k \in 0 .. l /\ k < l
      BY <1>2
    <3>2. QED
      BY <3>1, LeftIs
  <2>3. q[1][1].at = k + 1 /\ k + 1 > 1
    BY <2>1, <2>2 DEF FrameOf
  <2>4. Tail(q) \in Seq(Seq(Frame))
    <3>1. q \in Seq(Seq(Frame))
      BY DEF WayState
    <3> HIDE DEF q
    <3>2. QED
      BY <2>1, <3>1, TailIs
  <2>5. QED
    BY <1>2, <2>1, <2>3, <2>4 DEF Behind, UntouchedIn
<1>3. QED
  BY <1>1, <1>2

LEMMA SomeTaken ==
  ASSUME NEW d \in Ways, NEW a, a # "idle", NEW h, NEW w \in WayState,
         NEW n \in Nat, NEW l \in Nat, NEW k \in 1 .. l,
         TransferIn(h, w, d, n, k, l)
  PROVE  QueueIn(a, h, w, d) = <<Message(d, n, l)>> \o Behind(w, k, l)
<1> DEFINE s == Sent(d, n, k, l)
<1>1. TakenIn(h, w, d) = s
  <2>1. CASE h.dir = d
    <3> DEFINE j == k - 1
    <3>1. j \in 0 .. l /\ j < l /\ j + 1 = k
      OBVIOUS
    <3> HIDE DEF j
    <3>2. Append(Sent(d, n, j, l), FrameOf(d, n, j + 1, l)) = Sent(d, n, j + 1, l)
      BY <3>1, SentIs
    <3>3. Append(w.open, h) = s
      BY <2>1, <3>1, <3>2 DEF TransferIn, j
    <3>4. QED
      BY <2>1, <3>3 DEF TakenIn
  <2>2. CASE h.dir # d
    BY <2>2 DEF TransferIn, TakenIn
  <2>3. QED
    BY <2>1, <2>2
<1>2. s # <<>> /\ s[1].no = n /\ s[1].of = l
  <2>1. k \in 0 .. l /\ 1 \in 1 .. k /\ k # 0
    OBVIOUS
  <2>2. s[1] = FrameOf(d, n, 1, l) /\ s # <<>>
    BY <2>1, SentIs
  <2>3. QED
    BY <2>2 DEF FrameOf
<1>3. UntouchedIn(w) = Behind(w, k, l)
  BY BehindIs
<1> HIDE DEF s
<1>4. QED
  BY <1>1, <1>2, <1>3 DEF QueueIn

\* The steps of AtomicChannel, on what direction d stands for.
Stays(d) == Queue(d)' = Queue(d) /\ way'[d].relayed = way[d].relayed
PutInto(d) ==
  /\ \E m \in WholeMessages(d) : Queue(d)' = Append(Queue(d), m)
  /\ way'[d].relayed = way[d].relayed
GetFrom(d) ==
  /\ Queue(d) # <<>> /\ Queue(d)' = Tail(Queue(d))
  /\ way'[d].relayed = Append(way[d].relayed, Head(Queue(d)))
LoseFrom(d) ==
  /\ Queue(d) # <<>> /\ Queue(d)' = Tail(Queue(d))
  /\ way'[d].relayed = way[d].relayed

\* A step that takes, puts and sends no frame of direction d.
LEMMA NotOfWay ==
  ASSUME NEW d \in Ways, at = "idle" <=> at' = "idle",
         hand' = hand \/ (hand.dir # d /\ hand'.dir # d),
         way'[d].open = way[d].open, way'[d].incoming = way[d].incoming,
         way'[d].relayed = way[d].relayed
  PROVE  Stays(d)
<1>1. TakenIn(hand', way'[d], d) = TakenIn(hand, way[d], d)
  BY DEF TakenIn
<1>2. QueueIn(at', hand', way'[d], d) = QueueIn(at, hand, way[d], d)
  BY <1>1 DEF QueueIn, UntouchedIn
<1>3. QED
  BY <1>2, QueuesAre DEF Stays

\* A step that starts or ends run() between two messages.
LEMMA QuietStays ==
  ASSUME Typed, Typed', Quiet, Quiet', UNCHANGED way, NEW d \in Ways
  PROVE  Stays(d)
<1>1. QueueIn(at, hand, way[d], d) = way[d].incoming
  <2>1. hand.dir # d /\ way[d].open = <<>> /\ Whole(way[d], d) /\ way[d] \in WayState
    BY DEF Quiet, WholeAfter, Whole, Typed
  <2>2. QED
    BY <2>1, NoneTaken
<1>2. QueueIn(at', hand', way'[d], d) = way'[d].incoming
  <2>1. /\ hand'.dir # d /\ way'[d].open = <<>> /\ Whole(way'[d], d)
        /\ way'[d] \in WayState
    BY DEF Quiet, WholeAfter, Whole, Typed
  <2>2. QED
    BY <2>1, NoneTaken
<1>3. QED
  BY <1>1, <1>2, QueuesAre DEF Stays

\* A step of the application or a peer that is not an arrival.
LEMMA OthersStay ==
  ASSUME at' = at, hand' = hand, NEW d \in Ways,
         way'[d].open = way[d].open, way'[d].incoming = way[d].incoming,
         way'[d].relayed = way[d].relayed
  PROVE  Stays(d)
BY NotOfWay

LEMMA ObjectsStay ==
  ASSUME NEW p \in Proxies,
         \/ \E s \in Captures : SetCaptureSocket(p, s)
         \/ \E s \in Controls : SetControlSocket(p, s)
         \/ \E q \in Proxies \ {p} : SwapProxies(p, q) \/ MoveConstruct(p, q),
         NEW d \in Ways
  PROVE  Stays(d)
<1>1. UNCHANGED <<at, hand, way>>
  BY DEF SetCaptureSocket, SetControlSocket, SwapProxies, MoveConstruct, Object,
         loop
<1>2. QED
  BY <1>1, OthersStay

LEMMA RunStays ==
  ASSUME IInv, IInv', NEW p \in Proxies, Run(p), NEW d \in Ways
  PROVE  Stays(d)
<1>1. /\ at = "idle" /\ result.value /\ result.controlled
      /\ UNCHANGED <<hand, way>>
  BY DEF Run
<1>2. Quiet
  BY <1>1, IsQuiet DEF Good
<1>3. Quiet'
  BY <1>1, <1>2, StaysQuiet DEF Quiet
<1>4. QED
  BY <1>1, <1>2, <1>3, QuietStays DEF IInv

LEMMA ObeyStays ==
  ASSUME IInv, IInv', Obey, NEW d \in Ways
  PROVE  Stays(d)
<1>1. /\ at = "obey" /\ hand' = Nothing /\ UNCHANGED way
  BY DEF Obey, Returns
<1>2. Quiet
  BY <1>1, IsQuiet DEF Good
<1>3. Quiet'
  BY <1>1, <1>2, FramesAre, StaysQuiet
<1>4. QED
  BY <1>1, <1>2, <1>3, QuietStays DEF IInv

\* The steps of the loop that neither receive nor send a frame of a message.
LEMMA LoopStays ==
  ASSUME IInv, Poll \/ TakeCommand \/ Copy \/ LoopAgain, NEW d \in Ways
  PROVE  Stays(d)
<1>1. CASE Poll \/ Copy \/ LoopAgain
  <2>1. at # "idle" /\ at' # "idle" /\ hand' = hand /\ way' = way
    BY <1>1 DEF Poll, Copy, LoopAgain
  <2>2. QED
    BY <2>1, NotOfWay
<1>2. CASE TakeCommand
  <2>1. at = "control" /\ at' = "copy" /\ way' = way
    BY <1>2 DEF TakeCommand
  <2>2. hand.dir # d
    BY <2>1, FramesAre DEF IInv, Hands
  <2>3. hand'.dir # d
    <3>1. IInv'
      BY <1>2, TakeCommandKeepsIInv
    <3>2. hand' = Head(inbox[Control]) /\ self \in Proxies
      BY <1>2, <2>1 DEF TakeCommand, IInv, Typed
    <3>3. Control # null /\ inbox[Control] # <<>> /\ Control \in Controls \cup {null}
      BY <2>1, <3>2 DEF IInv, Hands, Commanded, Typed, Control
    <3>4. inbox[Control] \in Seq(CommandFrames)
      BY <3>3 DEF IInv, Typed
    <3>5. Head(inbox[Control]) \in CommandFrames
      BY <3>3, <3>4, TailIs
    <3>6. QED
      BY <3>2, <3>5, FramesAre
  <2>4. QED
    BY <2>1, <2>2, <2>3, NotOfWay
<1>3. QED
  BY <1>1, <1>2

LEMMA FirstAndRest ==
  ASSUME NEW S, NEW q \in Seq(S), q # <<>>
  PROVE  <<q[1]>> \o Tail(q) = q
<1>1. /\ Len(q) \in Nat /\ 1 \in 1 .. Len(q) /\ q[1] \in S
      /\ Tail(q) \in Seq(S) /\ Len(Tail(q)) = Len(q) - 1
      /\ \A i \in 1 .. Len(Tail(q)) : Tail(q)[i] = q[i + 1]
  BY TailIs
<1> DEFINE e == q[1]
           u == Tail(q)
           s == <<e>> \o u
<1>2. /\ s \in Seq(S) /\ Len(s) = Len(u) + 1 /\ s[1] = e
      /\ \A i \in 2 .. Len(u) + 1 : s[i] = u[i - 1] /\ i - 1 \in 1 .. Len(u)
  <2>1. e \in S /\ u \in Seq(S)
    BY <1>1
  <2> HIDE DEF e, u
  <2>2. QED
    BY <2>1, ConsIs
<1>3. Len(s) = Len(q)
  BY <1>1, <1>2
<1>4. ASSUME NEW i \in 1 .. Len(s)
      PROVE  s[i] = q[i]
  <2>1. CASE i = 1
    BY <1>2, <2>1
  <2>2. CASE i # 1
    <3>1. i \in 2 .. Len(u) + 1 /\ (i - 1) + 1 = i
      BY <1>1, <1>2, <2>2
    <3>2. s[i] = u[i - 1] /\ i - 1 \in 1 .. Len(u)
      BY <1>2, <3>1
    <3>3. u[i - 1] = q[(i - 1) + 1]
      BY <1>1, <3>2
    <3>4. QED
      BY <3>1, <3>2, <3>3
  <2>3. QED
    BY <2>1, <2>2
<1>5. s = q
  <2> HIDE DEF s
  <2>1. QED
    BY <1>2, <1>3, <1>4, SeqEqual
<1>6. QED
  BY <1>5

\* A frame that is received leaves its message where it is in the queue.
LEMMA ReceiveStays ==
  ASSUME IInv, Receive, NEW d \in Ways
  PROVE  Stays(d)
<1>1. at = "forward" /\ at' = "copy" /\ ~paused /\ ready # {} /\ hand = Nothing
  BY DEF Receive, IInv, Hands
<1>2. PICK t : t = Turn
  OBVIOUS
<1>3. PICK n \in 1 .. MaxMessages[t], l \in Lengths :
        \E k \in 0 .. l - 1 : Ahead(t, n, k, l)
  BY <1>1, <1>2, TurnIsAhead
<1>4. PICK k \in 0 .. l - 1 : Ahead(t, n, k, l)
  BY <1>3
<1>5. /\ n \in Nat /\ l \in Nat /\ k + 1 \in 1 .. l /\ k \in 0 .. l
      /\ hand' = FrameOf(t, n, k + 1, l)
      /\ way' \in [Ways -> WayState]
      /\ \A e \in Ways \ {t} : way'[e] = way[e]
      /\ way'[t].relayed = way[t].relayed
      /\ way[t].incoming \in Seq(Seq(Frame))
      /\ way'[t].incoming =
           IF k + 1 = l THEN Tail(way[t].incoming)
           ELSE <<Left(t, n, k + 1, l)>> \o Tail(way[t].incoming)
      /\ Left(t, n, k + 1, l) \in Seq(Frame)
      /\ Transfer(t, n, k + 1, l)'
  BY <1>2, <1>4, Received
<1>6. t \in Ways
  BY <1>1, <1>2, TurnIsAhead
<1>7. CASE d # t
  <2>1. hand.dir # d /\ hand'.dir # d
    BY <1>1, <1>5, <1>7, FramesAre DEF FrameOf
  <2>2. QED
    BY <1>1, <1>5, <1>7, <2>1, NotOfWay
<1>8. CASE d = t
  <2> DEFINE q == way[t].incoming
             m == Message(t, n, l)
             j == k + 1
  <2>0. n \in Nat /\ l \in Nat
    BY <1>5
  <2>1. q \in Seq(Seq(Frame)) /\ q # <<>> /\ q[1] = Left(t, n, k, l)
    BY <1>4, <1>5 DEF Ahead
  <2>2. QueueIn(at, hand, way[t], t) = <<m>> \o Tail(q)
    <3>1. CASE k = 0
      <4>1. l # 0
        BY <1>5
      <4>2. q[1] = m
        BY <1>5, <1>6, <2>1, <3>1, <4>1, MessageIs
      <4>3. q = <<m>> \o Tail(q)
        <5> HIDE DEF q, m
        <5>1. QED
          BY <2>1, <4>2, FirstAndRest
      <4>4. /\ way[t].open = <<>> /\ hand.dir # t /\ way[t] \in WayState
        <5>1. way[t].open = Sent(t, n, 0, l)
          BY <1>4, <3>1 DEF Ahead
        <5>2. 0 \in 0 .. l
          BY <1>5
        <5>3. way[t].open = <<>>
          BY <1>5, <1>6, <5>1, <5>2, SentIs
        <5>4. QED
          BY <1>1, <1>6, <5>3, FramesAre DEF IInv, Typed
      <4>5. Whole(way[t], t)
        <5>1. InStep(t) /\ hand.dir # t
          BY <1>1, <1>6, FramesAre DEF IInv, Relaying, Good
        <5>2. WholeAfter(t, 0)
          BY <1>6, <4>4, <5>1, NothingTaken
        <5>3. QED
          BY <5>2 DEF WholeAfter, Whole
      <4>6. QueueIn(at, hand, way[t], t) = q
        BY <1>6, <4>4, <4>5, NoneTaken
      <4>7. QED
        BY <4>3, <4>6
    <3>2. CASE k # 0
      <4>1. k \in 1 .. l /\ k # l
        BY <1>5, <3>2
      <4>2. TransferIn(hand, way[t], t, n, k, l)
        <5>1. hand.dir # t
          BY <1>1, <1>6, FramesAre
        <5>2. QED
          BY <1>4, <4>1, <5>1 DEF Ahead, TransferIn
      <4>3. way[t] \in WayState /\ at # "idle"
        BY <1>1, <1>6 DEF IInv, Typed
      <4> DEFINE i == k
      <4>4. QueueIn(at, hand, way[t], t) = <<m>> \o Behind(way[t], i, l)
        <5>1. i \in 1 .. l /\ TransferIn(hand, way[t], t, n, i, l)
          BY <4>1, <4>2
        <5> HIDE DEF i
        <5>2. QED
          BY <1>6, <2>0, <4>3, <5>1, SomeTaken
      <4>5. QED
        BY <4>1, <4>4 DEF Behind
    <3>3. QED
      BY <3>1, <3>2
  <2>3. QueueIn(at', hand', way'[t], t) = <<m>> \o Behind(way'[t], j, l)
    <3>1. j \in 1 .. l
      BY <1>5
    <3>2. TransferIn(hand', way'[t], t, n, j, l)
      BY <1>5, <1>6, TransfersAre
    <3> HIDE DEF j
    <3>3. way'[t] \in WayState /\ at' # "idle"
      BY <1>1, <1>5, <1>6
    <3>4. QED
      BY <1>6, <2>0, <3>1, <3>2, <3>3, SomeTaken
  <2>4. Behind(way'[t], j, l) = Tail(q)
    <3>1. CASE j = l
      BY <1>5, <3>1 DEF Behind
    <3>2. CASE j # l
      <4> DEFINE rest == Left(t, n, k + 1, l)
      <4>1. way'[t].incoming = <<rest>> \o Tail(q)
        BY <1>5, <3>2
      <4>2. rest \in Seq(Frame) /\ Tail(q) \in Seq(Seq(Frame))
        <5>1. rest \in Seq(Frame)
          BY <1>5
        <5> HIDE DEF q, rest
        <5>2. QED
          BY <2>1, <5>1, TailIs
      <4>3. Tail(<<rest>> \o Tail(q)) = Tail(q)
        <5> HIDE DEF q, rest
        <5>1. QED
          BY <4>2, ConsIs
      <4>4. QED
        BY <3>2, <4>1, <4>3 DEF Behind
    <3>3. QED
      BY <3>1, <3>2
  <2>5. Queue(t)' = Queue(t)
    BY <1>6, <2>2, <2>3, <2>4, QueuesAre
  <2>6. QED
    BY <1>5, <1>8, <2>5 DEF Stays
<1>9. QED
  BY <1>7, <1>8

\* A message is delivered when its last frame is sent.
LEMMA SendGets ==
  ASSUME IInv, IInv', Send, NEW d \in Ways
  PROVE  Stays(d) \/ GetFrom(d)
<1>1. PICK t : t = hand.dir
  OBVIOUS
<1>2. at = "send" /\ at' = "forward" /\ hand' = Nothing
  BY DEF Send
<1>3. t \in Ways /\ hand'.dir \notin Ways
  BY <1>1, <1>2, FramesAre, HandIsNext
<1>4. PICK n \in 1 .. MaxMessages[t], l \in Lengths :
        \E k \in 1 .. l :
          /\ n \in Nat /\ l \in Nat /\ Transfer(t, n, k, l)
          /\ Append(way[t].open, hand) = Sent(t, n, k, l)
          /\ More(hand) <=> k < l
  BY <1>1, <1>2, HandIsNext
<1>5. PICK k \in 1 .. l :
        /\ n \in Nat /\ l \in Nat /\ Transfer(t, n, k, l)
        /\ Append(way[t].open, hand) = Sent(t, n, k, l)
        /\ More(hand) <=> k < l
  BY <1>4
<1>6. way \in [Ways -> WayState] /\ way' \in [Ways -> WayState]
  BY DEF IInv, Typed
<1> DEFINE m == Message(t, n, l)
           q == way[t].incoming
<1>7. n \in Nat /\ l \in Nat \ {0} /\ l \in Nat
  BY <1>5
<1>8. m = Sent(t, n, l, l) /\ m \in Seq(Frame)
  BY <1>3, <1>7, MessageIs
<1>9. TransferIn(hand, way[t], t, n, k, l)
  BY <1>3, <1>5, TransfersAre
<1>10. QueueIn(at, hand, way[t], t) = <<m>> \o Behind(way[t], k, l)
  <2> DEFINE i == k
  <2>1. i \in 1 .. l /\ TransferIn(hand, way[t], t, n, i, l)
    BY <1>9
  <2>2. way[t] \in WayState /\ at # "idle"
    BY <1>2, <1>3, <1>6
  <2> HIDE DEF i
  <2>3. QueueIn(at, hand, way[t], t) = <<m>> \o Behind(way[t], i, l)
    BY <1>3, <1>7, <2>1, <2>2, SomeTaken
  <2>4. QED
    BY <2>3 DEF i
<1>11. CASE d # t
  <2>1. way'[d] = way[d]
    BY <1>1, <1>3, <1>6, <1>11 DEF Send
  <2>2. QED
    BY <1>1, <1>2, <1>3, <1>11, <2>1, NotOfWay
<1>12. CASE d = t /\ k < l
  <2> DEFINE sent == Sent(t, n, k, l)
  <2>1. way' = [way EXCEPT ![t].open = sent]
    BY <1>1, <1>5, <1>12 DEF Send
  <2>2. /\ way'[t].open = sent /\ way'[t].incoming = way[t].incoming
        /\ way'[t].relayed = way[t].relayed
    <3> HIDE DEF sent
    <3>1. QED
      BY <1>3, <1>6, <2>1 DEF WayState
  <2>3. TransferIn(hand', way'[t], t, n, k, l)
    BY <1>3, <1>9, <1>12, <2>2 DEF TransferIn
  <2>4. QueueIn(at', hand', way'[t], t) = <<m>> \o Behind(way'[t], k, l)
    <3> DEFINE i == k
    <3>1. i \in 1 .. l /\ TransferIn(hand', way'[t], t, n, i, l)
      BY <2>3
    <3>2. way'[t] \in WayState /\ at' # "idle"
      BY <1>2, <1>3, <1>6
    <3> HIDE DEF i
    <3>3. QueueIn(at', hand', way'[t], t) = <<m>> \o Behind(way'[t], i, l)
      BY <1>3, <1>7, <3>1, <3>2, SomeTaken
    <3>4. QED
      BY <3>3 DEF i
  <2>5. Behind(way'[t], k, l) = Behind(way[t], k, l)
    BY <2>2 DEF Behind
  <2>6. QED
    BY <1>3, <1>10, <1>12, <2>2, <2>4, <2>5, QueuesAre DEF Stays
<1>13. CASE d = t /\ k = l
  <2>1. /\ way'[t].open = <<>> /\ way'[t].incoming = q
        /\ way'[t].relayed = Append(way[t].relayed, m)
    <3> DEFINE sent == Sent(t, n, l, l)
               w == IF To(t) \in Blocking THEN way[t].waiting + 1
                    ELSE way[t].waiting
    <3>1. /\ way' = [way EXCEPT ![t].open = <<>>,
                       ![t].relayed = Append(way[t].relayed, sent),
                       ![t].waiting = w]
      BY <1>1, <1>5, <1>13 DEF Send
    <3>2. sent = m
      BY <1>8
    <3> HIDE DEF sent, w, m
    <3>3. QED
      BY <1>3, <1>6, <3>1, <3>2 DEF WayState
  <2>2. Whole(way[t], t) /\ q \in Seq(Seq(Frame)) /\ Behind(way[t], k, l) = q
    BY <1>3, <1>6, <1>9, <1>13 DEF TransferIn, WayState, Behind
  <2>3. QueueIn(at', hand', way'[t], t) = q
    <3>1. Whole(way'[t], t)
      BY <2>1, <2>2 DEF Whole
    <3>2. way'[t] \in WayState /\ hand'.dir # t
      BY <1>3, <1>6
    <3>3. QueueIn(at', hand', way'[t], t) = way'[t].incoming
      BY <1>3, <2>1, <3>1, <3>2, NoneTaken
    <3>4. QED
      BY <2>1, <3>3
  <2>4. /\ <<m>> \o q # <<>> /\ Head(<<m>> \o q) = m
        /\ Tail(<<m>> \o q) = q
    <3> HIDE DEF m, q
    <3>1. QED
      BY <1>8, <2>2, ConsIs
  <2>5. Queue(t) = <<m>> \o q
    BY <1>3, <1>10, <2>2, QueuesAre
  <2>6. Queue(t)' = q
    BY <1>3, <2>3, QueuesAre
  <2> HIDE DEF m, q
  <2>7. QED
    BY <1>13, <2>1, <2>4, <2>5, <2>6 DEF GetFrom
<1>14. QED
  BY <1>5, <1>11, <1>12, <1>13

\* What a run that fails has taken of a message is lost with it.
LEMMA FailsLoses ==
  ASSUME IInv, Fails, NEW d \in Ways
  PROVE  Stays(d) \/ LoseFrom(d)
<1>1. /\ at # "idle" /\ Good /\ at' = "idle" /\ hand' = Nothing
      /\ UNCHANGED way
  BY DEF Fails, CaptureBlocked, Good, Returns
<1>2. way[d] \in WayState /\ hand'.dir # d /\ InStep(d)
  BY <1>1, FramesAre DEF IInv, Typed, Relaying
<1> DEFINE q == way[d].incoming
<1>3. CASE hand.dir # d /\ way[d].open = <<>> /\ WholeAfter(d, 0)
  <2>1. Whole(way[d], d)
    BY <1>3 DEF WholeAfter, Whole
  <2>2. QueueIn(at, hand, way[d], d) = q
    BY <1>2, <1>3, <2>1, NoneTaken
  <2>3. QueueIn(at', hand', way[d], d) = q
    BY <1>2, <1>3, <2>1, NoneTaken
  <2>4. QED
    BY <1>1, <2>2, <2>3, QueuesAre DEF Stays
<1>4. ASSUME NEW n \in 1 .. MaxMessages[d], NEW l \in Lengths, NEW k \in 1 .. l,
             Transfer(d, n, k, l)
      PROVE  LoseFrom(d)
  <2> DEFINE i == k
             m == Message(d, n, l)
             rest == Behind(way[d], i, l)
  <2>1. n \in Nat /\ l \in Nat /\ i \in 1 .. l
    BY ProxyAssumption
  <2>2. TransferIn(hand, way[d], d, n, i, l)
    BY <1>4, TransfersAre
  <2>3. m \in Seq(Frame)
    <3>1. l \in Nat \ {0}
      BY <2>1
    <3>2. QED
      BY <2>1, <3>1, MessageIs
  <2> HIDE DEF i
  <2>4. way[d] \in WayState /\ at # "idle"
    BY <1>1, <1>2
  <2>5. QueueIn(at, hand, way[d], d) = <<m>> \o rest
    BY <2>1, <2>2, <2>4, SomeTaken
  <2>6. UntouchedIn(way[d]) = rest
    BY <2>1, <2>2, <2>4, BehindIs
  <2>7. rest \in Seq(Seq(Frame))
    BY <2>1, <2>2, <2>4, BehindIs
  <2>8. QueueIn(at', hand', way[d], d) = <<>> \o rest
    <3> HIDE DEF rest
    <3>1. QED
      BY <1>1, <2>6 DEF QueueIn
  <2> HIDE DEF m, rest
  <2>9. <<>> \o rest = rest
    BY <2>7, ConcatEmptySeq
  <2>10. <<m>> \o rest # <<>> /\ Tail(<<m>> \o rest) = rest
    BY <2>3, <2>7, ConsIs
  <2>11. Queue(d) = <<m>> \o rest
    BY <2>5, QueuesAre
  <2>12. Queue(d)' = rest
    BY <1>1, <2>8, <2>9, QueuesAre
  <2>13. QED
    BY <1>1, <2>10, <2>11, <2>12 DEF LoseFrom
<1>5. QED
  BY <1>2, <1>3, <1>4 DEF InStep

\* A message that arrives is put into its direction's channel.
LEMMA ArrivePuts ==
  ASSUME IInv, NEW t \in Directions, NEW l \in Lengths, Arrive(t, l),
         NEW d \in Ways
  PROVE  Stays(d) \/ PutInto(d)
<1> DEFINE n == way[t].arrived + 1
           m == Message(t, n, l)
           q == way[t].incoming
           s == way[t].open
<1>1. /\ t \in Ways /\ way \in [Ways -> WayState] /\ hand \in Frame
      /\ way[t].arrived \in Nat /\ way[t].arrived < MaxMessages[t]
      /\ MaxMessages[t] \in Nat /\ l \in Nat \ {0}
      /\ q \in Seq(Seq(Frame)) /\ s \in Seq(Frame)
  BY FramesAre, ProxyAssumption DEF IInv, Typed, WayState, Arrive
<1>2. /\ way' = [way EXCEPT ![t].arrived = n, ![t].incoming = Append(q, m)]
      /\ at' = at /\ hand' = hand
  BY DEF Arrive, Unmoved, loop
<1>3. n \in 1 .. MaxMessages[t] /\ n \in Nat
  BY <1>1
<1>4. m \in WholeMessages(t) /\ m \in Seq(Frame) /\ m[1].at = 1
  <2> HIDE DEF n
  <2>1. QED
    BY <1>1, <1>3, MessageIs DEF WholeMessages
<1> HIDE DEF m, n
<1>5. /\ \A e \in Ways \ {t} : way'[e] = way[e]
      /\ way'[t].incoming = Append(q, m)
      /\ way'[t].open = way[t].open
      /\ way'[t].relayed = way[t].relayed
  <2> HIDE DEF q
  <2>1. QED
    BY <1>1, <1>2 DEF WayState
<1>6. CASE d # t
  BY <1>2, <1>5, <1>6, OthersStay
<1>7. CASE d = t
  <2> DEFINE h == IF at = "idle" \/ TakenIn(hand, way[t], t) = <<>> THEN <<>>
                  ELSE <<Message(t, TakenIn(hand, way[t], t)[1].no,
                                 TakenIn(hand, way[t], t)[1].of)>>
             u == UntouchedIn(way[t])
  <2>1. Queue(t) = h \o u
    BY <1>1, QueuesAre DEF QueueIn
  <2>2. Queue(t)' = h \o UntouchedIn(way'[t])
    <3>1. TakenIn(hand', way'[t], t) = TakenIn(hand, way[t], t)
      <4>1. hand' = hand /\ way'[t].open = way[t].open
        BY <1>2, <1>5
      <4>2. QED
        BY <4>1 DEF TakenIn
    <3>2. QED
      BY <1>1, <1>2, <3>1, QueuesAre DEF QueueIn
  <2>3. h \in Seq(Seq(Frame))
    <3> DEFINE taken == TakenIn(hand, way[t], t)
    <3>1. taken \in Seq(Frame)
      <4> HIDE DEF s
      <4>1. Append(s, hand) \in Seq(Frame) /\ s \in Seq(Frame)
        BY <1>1, AppendProperties
      <4>2. QED
        BY <4>1 DEF TakenIn, s
    <3> HIDE DEF taken
    <3>2. CASE taken = <<>>
      BY <3>2 DEF taken
    <3>3. CASE taken # <<>>
      <4>1. taken[1] \in Frame
        BY <3>1, <3>3, TailIs
      <4> DEFINE no == taken[1].no
                 of == taken[1].of
                 x == Message(t, no, of)
      <4>2. no \in Nat /\ of \in Nat
        BY <4>1 DEF Frame
      <4>3. x \in Seq(Frame)
        <5> HIDE DEF no, of
        <5>1. x = Sent(t, no, of, of) /\ of \in 0 .. of
          BY <4>2 DEF Message, Sent, FrameOf
        <5>2. QED
          BY <1>1, <4>2, <5>1, SentIs
      <4>4. h = IF at = "idle" THEN <<>> ELSE <<x>>
        BY <3>3 DEF taken
      <4> HIDE DEF x, h
      <4>5. QED
        BY <4>3, <4>4
    <3>4. QED
      BY <3>2, <3>3
  <2>4. UntouchedIn(way'[t]) = Append(u, m) /\ u \in Seq(Seq(Frame))
    <3>1. /\ UntouchedIn(way[t]) = IF q # <<>> /\ q[1][1].at > 1 THEN Tail(q) ELSE q
          /\ UntouchedIn(way'[t]) =
               IF Append(q, m) # <<>> /\ Append(q, m)[1][1].at > 1
               THEN Tail(Append(q, m)) ELSE Append(q, m)
      BY <1>5 DEF UntouchedIn
    <3>2. CASE q = <<>>
      <4>1. Append(q, m) = <<m>> /\ <<m>>[1] = m
        BY <3>2
      <4> HIDE DEF q
      <4>2. QED
        BY <1>1, <1>4, <3>1, <3>2, <4>1
    <3>3. CASE q # <<>>
      <4> HIDE DEF q
      <4>1. /\ Append(q, m) # <<>> /\ Append(q, m)[1] = q[1]
            /\ Tail(q) \in Seq(Seq(Frame))
        <5>1. 1 \in 1 .. Len(q) /\ Tail(q) \in Seq(Seq(Frame))
          BY <1>1, <3>3, TailIs
        <5>2. /\ Append(q, m) # <<>>
              /\ \A i \in 1 .. Len(q) : Append(q, m)[i] = q[i]
          BY <1>1, <1>4, AppendProperties
        <5>3. QED
          BY <5>1, <5>2
      <4>2. Tail(Append(q, m)) = Append(Tail(q), m)
        <5>1. Tail(Append(q, m)) = IF q = <<>> THEN <<>> ELSE Append(Tail(q), m)
          BY <1>1, HeadTailAppend
        <5>2. QED
          BY <3>3, <5>1
      <4>3. QED
        BY <1>1, <3>1, <3>3, <4>1, <4>2
    <3>4. QED
      BY <3>2, <3>3
  <2> HIDE DEF h, u
  <2>5. h \o Append(u, m) = Append(h \o u, m)
    <3>1. Append(u, m) = u \o <<m>>
      BY <1>4, <2>4, AppendIsConcat
    <3>2. h \o u \in Seq(Seq(Frame))
      BY <2>3, <2>4, ConcatProperties
    <3>3. Append(h \o u, m) = (h \o u) \o <<m>>
      BY <1>4, <3>2, AppendIsConcat
    <3>4. <<m>> \in Seq(Seq(Frame))
      BY <1>4
    <3>5. (h \o u) \o <<m>> = h \o (u \o <<m>>)
      BY <2>3, <2>4, <3>4, ConcatAssociative
    <3>6. QED
      BY <3>1, <3>3, <3>5
  <2>6. Queue(t)' = Append(Queue(t), m)
    BY <2>1, <2>2, <2>4, <2>5
  <2>7. QED
    BY <1>4, <1>5, <1>7, <2>6 DEF PutInto
<1>8. QED
  BY <1>6, <1>7

LEMMA StepImplements ==
  ASSUME IInv, [Next]_vars, NEW d \in Ways
  PROVE  Stays(d) \/ PutInto(d) \/ GetFrom(d) \/ LoseFrom(d)
<1>1. IInv'
  BY StepKeepsIInv
<1>2. CASE UNCHANGED vars
  BY <1>2, OthersStay DEF vars, loop
<1>3. ASSUME NEW p \in Proxies,
             \/ Run(p)
             \/ \E s \in Captures : SetCaptureSocket(p, s)
             \/ \E s \in Controls : SetControlSocket(p, s)
             \/ \E q \in Proxies \ {p} : SwapProxies(p, q) \/ MoveConstruct(p, q)
      PROVE  Stays(d)
  <2>1. CASE Run(p)
    BY <1>1, <2>1, RunStays
  <2>2. CASE ~Run(p)
    BY <1>3, <2>2, ObjectsStay
  <2>3. QED
    BY <2>1, <2>2
<1>4. CASE Poll \/ TakeCommand \/ Copy \/ LoopAgain
  BY <1>4, LoopStays
<1>5. CASE Obey
  BY <1>1, <1>5, ObeyStays
<1>6. CASE Receive
  BY <1>6, ReceiveStays
<1>7. CASE Send
  BY <1>1, <1>7, SendGets
<1>8. CASE Fails
  BY <1>8, FailsLoses
<1>9. ASSUME NEW t \in Directions, PeerTakes(t)
      PROVE  Stays(d)
  <2>1. t \in Ways /\ way \in [Ways -> WayState]
    BY FramesAre DEF IInv, Typed
  <2>2. /\ way' = [way EXCEPT ![t].waiting = way[t].waiting - 1]
        /\ at' = at /\ hand' = hand
    BY <1>9 DEF PeerTakes, Unmoved, loop
  <2>3. /\ way'[d].open = way[d].open /\ way'[d].incoming = way[d].incoming
        /\ way'[d].relayed = way[d].relayed
    BY <2>1, <2>2 DEF WayState
  <2>4. QED
    BY <2>2, <2>3, OthersStay
<1>10. ASSUME NEW t \in Directions, NEW l \in Lengths, Arrive(t, l)
       PROVE  Stays(d) \/ PutInto(d)
  BY <1>10, ArrivePuts
<1>11. CASE \/ \E s \in Captures : CaptureTaken(s)
            \/ \E s \in Controls, c \in Commands : Steer(s, c)
            \/ TerminateContext
  <2>1. UNCHANGED <<at, hand, way>>
    BY <1>11 DEF CaptureTaken, Steer, TerminateContext, Unmoved, loop
  <2>2. QED
    BY <2>1, OthersStay
<1>12. QED
  BY <1>2, <1>3, <1>4, <1>5, <1>6, <1>7, <1>8, <1>9, <1>10, <1>11
  DEF Next, Library

\* Each direction of a proxied pair implements AtomicChannel: whatever commands
\* come, however the Proxies are exchanged and wherever a run fails, a message is
\* relayed as a whole and in its order, or not at all, and none twice
\* (Proxy::run, zmq_proxy_steerable).
THEOREM RelaysWholeMessages == Spec => ImplementsChannel
<1>1. Init => Requests!Init /\ Replies!Init
  <2> SUFFICES ASSUME Init, NEW d \in Ways
               PROVE  Queue(d) = <<>> /\ way[d].relayed = <<>>
    BY DEF Requests!Init, Replies!Init, Ways
  <2>1. /\ at = "idle" /\ way[d].incoming = <<>> /\ way[d].relayed = <<>>
    BY DEF Init
  <2>2. Halfway(d) = <<>> /\ Untouched(d) = <<>>
    BY <2>1 DEF Halfway, Untouched
  <2>3. QED
    BY <2>1, <2>2 DEF Queue
<1>2. IInv /\ [Next]_vars => [Requests!Next]_(Requests!vars)
  <2> SUFFICES ASSUME IInv, [Next]_vars
               PROVE  [Requests!Next]_(Requests!vars)
    OBVIOUS
  <2> DEFINE d == "request"
  <2>1. Stays(d) \/ PutInto(d) \/ GetFrom(d) \/ LoseFrom(d)
    BY StepImplements DEF Ways
  <2>2. QED
    BY <2>1 DEF Stays, PutInto, GetFrom, LoseFrom, Requests!Next, Requests!Put,
                Requests!Get, Requests!Lose, Requests!vars
<1>3. IInv /\ [Next]_vars => [Replies!Next]_(Replies!vars)
  <2> SUFFICES ASSUME IInv, [Next]_vars
               PROVE  [Replies!Next]_(Replies!vars)
    OBVIOUS
  <2> DEFINE d == "reply"
  <2>1. Stays(d) \/ PutInto(d) \/ GetFrom(d) \/ LoseFrom(d)
    BY StepImplements DEF Ways
  <2>2. QED
    BY <2>1 DEF Stays, PutInto, GetFrom, LoseFrom, Replies!Next, Replies!Put,
                Replies!Get, Replies!Lose, Replies!vars
<1>4. QED
  BY <1>1, <1>2, <1>3, Invariance, PTL
  DEF Spec, ImplementsChannel, Requests!Spec, Replies!Spec
=============================================================================
