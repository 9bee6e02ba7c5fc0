---------------------------- MODULE Poller_proofs ----------------------------
(***************************************************************************)
(* Proofs about Poller, for any Sockets and Items, any nesting of poll()   *)
(* calls and any callbacks.                                                *)
(*                                                                         *)
(* The calls in progress are in different states: the innermost may be     *)
(* between two callbacks, all others are in one.  The invariant says what  *)
(* each has run so far (Ran) and, in a build with assertions, that none    *)
(* waits for an object without a socket (Asserted), without which what     *)
(* zmq_poll finds could not be trusted at all.                             *)
(***************************************************************************)
EXTENDS Poller, SequenceTheorems, TLAPS

\* InCallback, Ready and the parts of the properties, for any values of the
\* variables.
CalledIn(a, j) ==
  j > 1 \/ a \in {"callback", "receive", "send", "caught", "aborted"}
ReadyIn(in, out, none, s, e) ==
  /\ s \notin none
  /\ \/ e = "in" /\ in[s] > 0
     \/ e = "out" /\ out[s] < Capacity

\* The callbacks that f has run are those of the first p positions.
Kept(f, p) ==
  /\ {f.ran[k] : k \in 1 .. Len(f.ran)} =
       {i \in 1 .. p : ItemAt(i).callable /\ f.revents[i] # {}}
  /\ \A k, l \in 1 .. Len(f.ran) : k < l => f.ran[k] < f.ran[l]
Shape(f, called) ==
  IF called THEN f.next <= N /\ Kept(f, f.next) ELSE Kept(f, f.next - 1)

FreshIn(in, out, none, f) ==
  \A i \in f.next .. N : \A e \in f.revents[i] :
    ReadyIn(in, out, none, ItemAt(i).socket, e) \/ ItemAt(i).socket \in f.used[e]

Ran ==
  /\ at = "poll" => frames[1].next = 1
  /\ \A j \in 1 .. Len(frames) : Shape(frames[j], CalledIn(at, j))

Asserted ==
  ~NDEBUG =>
    /\ at = "poll" => ~Null
    /\ \A j \in 1 .. Len(frames) : FreshIn(inbox, outbox, gone, frames[j])

IInv == TypeOK /\ Ran /\ Asserted
----------------------------------------------------------------------------
(* The items and the frames.                                               *)

LEMMA ItemsAre ==
  /\ N \in Nat \ {0} /\ Capacity \in Nat \ {0} /\ MaxDepth \in Nat
  /\ Movable \subseteq Sockets
  /\ \A i \in 1 .. N :
       ItemAt(i).socket \in Sockets /\ ItemAt(i).events \subseteq Events
<1>1. N \in Nat \ {0}
  BY PollerAssumption, EmptySeq DEF N
<1>2. ASSUME NEW i \in 1 .. N
      PROVE  ItemAt(i) \in PollItems
  <2>1. N + 1 - i \in 1 .. Len(Items)
    BY <1>1 DEF N
  <2>2. QED
    BY <2>1, PollerAssumption, ElementOfSeq DEF ItemAt
<1>3. QED
  BY <1>1, <1>2, PollerAssumption DEF PollItems

\* One call in progress looks as another one, and may have been told of more
\* uses of the sockets.
Follows(f, g) ==
  /\ g.next = f.next /\ g.ran = f.ran /\ g.revents = f.revents
  /\ \A e \in Events : f.used[e] \subseteq g.used[e]

LEMMA FollowsKeepsShape ==
  ASSUME NEW f, NEW g, Follows(f, g), NEW c \in BOOLEAN, Shape(f, c)
  PROVE  Shape(g, c)
<1>1. g.next = f.next /\ g.ran = f.ran /\ g.revents = f.revents
  BY DEF Follows
<1>2. ASSUME NEW p, Kept(f, p)
      PROVE  Kept(g, p)
  BY <1>1, <1>2 DEF Kept
<1>3. QED
  BY <1>1, <1>2 DEF Shape

LEMMA FollowsKeepsFresh ==
  ASSUME NEW f \in Frames, NEW g, Follows(f, g),
         NEW in, NEW out, NEW none, FreshIn(in, out, none, f),
         NEW in2, NEW out2, NEW none2,
         \A s \in Sockets : \A e \in Events :
           ReadyIn(in, out, none, s, e) =>
             ReadyIn(in2, out2, none2, s, e) \/ s \in g.used[e]
  PROVE  FreshIn(in2, out2, none2, g)
<1> SUFFICES ASSUME NEW i \in g.next .. N, NEW e \in g.revents[i]
             PROVE  \/ ReadyIn(in2, out2, none2, ItemAt(i).socket, e)
                    \/ ItemAt(i).socket \in g.used[e]
  BY DEF FreshIn
<1>1. i \in f.next .. N /\ e \in f.revents[i] /\ f.used[e] \subseteq g.used[e]
      /\ i \in 1 .. N /\ e \in Events
  BY ItemsAre DEF Follows, Frames
<1>2. ItemAt(i).socket \in Sockets
  BY <1>1, ItemsAre
<1>3. QED
  BY <1>1, <1>2 DEF FreshIn

\* A step after which every poll() in progress is one that was before it.
LEMMA Continues ==
  ASSUME IInv, TypeOK',
         \A k \in 1 .. Len(frames') : \E j \in 1 .. Len(frames) :
           Follows(frames[j], frames'[k]) /\ (CalledIn(at, j) <=> CalledIn(at', k)),
         \A s \in Sockets : \A e \in Events :
           ReadyIn(inbox, outbox, gone, s, e) =>
             \/ ReadyIn(inbox', outbox', gone', s, e)
             \/ \A k \in 1 .. Len(frames') : s \in frames'[k].used[e],
         at' = "poll" => at = "poll" /\ gone' = gone
                           /\ frames'[1].next = frames[1].next
  PROVE  IInv'
<1>1. Ran'
  <2>1. at' = "poll" => frames'[1].next = 1
    BY DEF IInv, Ran
  <2>2. ASSUME NEW k \in 1 .. Len(frames')
        PROVE  Shape(frames'[k], CalledIn(at', k))
    <3>1. PICK j \in 1 .. Len(frames) :
            Follows(frames[j], frames'[k]) /\ (CalledIn(at, j) <=> CalledIn(at', k))
      OBVIOUS
    <3>2. Shape(frames[j], CalledIn(at, j))
      BY DEF IInv, Ran
    <3>3. CalledIn(at, j) = CalledIn(at', k) /\ CalledIn(at, j) \in BOOLEAN
      BY <3>1 DEF CalledIn
    <3>4. PICK c \in BOOLEAN : c = CalledIn(at, j)
      BY <3>3
    <3>5. Shape(frames'[k], c)
      BY <3>1, <3>2, <3>4, FollowsKeepsShape
    <3>6. QED
      BY <3>3, <3>4, <3>5
  <2>3. QED
    BY <2>1, <2>2 DEF Ran
<1>2. Asserted'
  <2> SUFFICES ASSUME ~NDEBUG
               PROVE  /\ at' = "poll" => ~Null'
                      /\ \A k \in 1 .. Len(frames') :
                           FreshIn(inbox', outbox', gone', frames'[k])
    BY DEF Asserted
  <2>1. at' = "poll" => ~Null'
    BY DEF IInv, Asserted, Null
  <2>2. ASSUME NEW k \in 1 .. Len(frames')
        PROVE  FreshIn(inbox', outbox', gone', frames'[k])
    <3>1. PICK j \in 1 .. Len(frames) : Follows(frames[j], frames'[k])
      OBVIOUS
    <3>2. FreshIn(inbox, outbox, gone, frames[j])
      BY DEF IInv, Asserted
    <3>3. frames[j] \in Frames
      BY ElementOfSeq DEF IInv, TypeOK
    <3>4. \A s \in Sockets : \A e \in Events :
            ReadyIn(inbox, outbox, gone, s, e) =>
              ReadyIn(inbox', outbox', gone', s, e) \/ s \in frames'[k].used[e]
      OBVIOUS
    <3>5. QED
      BY <3>1, <3>2, <3>3, <3>4, FollowsKeepsFresh
  <2>3. QED
    BY <2>1, <2>2
<1>3. QED
  BY <1>1, <1>2 DEF IInv

\* A step of the loop in the innermost poll(), which becomes g.
LEMMA InnerGoesOn ==
  ASSUME IInv, TypeOK', NEW g \in Frames, frames # <<>>,
         frames' = [frames EXCEPT ![1] = g], at' # "poll",
         UNCHANGED <<inbox, outbox, gone>>,
         Shape(g, CalledIn(at', 1)),
         ~NDEBUG => FreshIn(inbox, outbox, gone, g)
  PROVE  IInv'
<1>1. /\ frames \in Seq(Frames) /\ Len(frames) \in Nat /\ 1 \in 1 .. Len(frames)
      /\ Len(frames') = Len(frames) /\ frames'[1] = g
      /\ \A j \in 1 .. Len(frames) : j # 1 => frames'[j] = frames[j]
  <2>1. frames \in Seq(Frames) /\ Len(frames) \in Nat /\ 1 \in 1 .. Len(frames)
    BY EmptySeq DEF IInv, TypeOK
  <2>2. QED
    BY <2>1, ExceptSeq
<1>2. ASSUME NEW j \in 1 .. Len(frames')
      PROVE  /\ Shape(frames'[j], CalledIn(at', j))
             /\ ~NDEBUG => FreshIn(inbox', outbox', gone', frames'[j])
  <2>1. CASE j = 1
    BY <1>1, <2>1
  <2>2. CASE j # 1
    <3>1. frames'[j] = frames[j] /\ j \in 1 .. Len(frames)
      BY <1>1, <2>2
    <3>2. CalledIn(at', j) = CalledIn(at, j)
      BY <1>1, <2>2 DEF CalledIn
    <3>3. QED
      BY <3>1, <3>2 DEF IInv, Ran, Asserted
  <2>3. QED
    BY <2>1, <2>2
<1>3. Ran' /\ Asserted'
  BY <1>2 DEF Ran, Asserted
<1>4. QED
  BY <1>3 DEF IInv

LEMMA InnerIs ==
  ASSUME TypeOK, frames # <<>>
  PROVE  /\ frames \in Seq(Frames) /\ Len(frames) \in Nat \ {0}
         /\ 1 \in 1 .. Len(frames) /\ Inner \in Frames /\ Inner = frames[1]
<1>1. frames \in Seq(Frames)
  BY DEF TypeOK
<1>2. Len(frames) \in Nat \ {0}
  BY <1>1, EmptySeq
<1>3. frames[1] \in Frames
  BY <1>1, <1>2, ElementOfSeq
<1>4. QED
  BY <1>1, <1>2, <1>3 DEF Inner

LEMMA InnerReplaced ==
  ASSUME TypeOK, frames # <<>>, NEW g \in Frames
  PROVE  /\ [frames EXCEPT ![1] = g] \in Seq(Frames)
         /\ Len([frames EXCEPT ![1] = g]) = Len(frames)
         /\ [frames EXCEPT ![1] = g] # <<>>
<1>1. frames \in Seq(Frames) /\ 1 \in 1 .. Len(frames) /\ Len(frames) # 0
  BY InnerIs
<1> DEFINE s == [frames EXCEPT ![1] = g]
<1>2. s \in Seq(Frames) /\ Len(s) = Len(frames)
  BY <1>1, ExceptSeq
<1> HIDE DEF s
<1>3. s # <<>>
  BY <1>1, <1>2, EmptySeq
<1>4. QED
  BY <1>2, <1>3 DEF s

\* A callback that acts is noted in the innermost poll(), if there is one.
LEMMA ActsIs ==
  ASSUME TypeOK
  PROVE  /\ Acts \in Seq(Frames) /\ Len(Acts) = Len(frames) /\ Len(frames) \in Nat
         /\ \A j \in 1 .. Len(frames) :
              Follows(frames[j], Acts[j]) /\ Acts[j].used = frames[j].used
<1>1. frames \in Seq(Frames) /\ Len(frames) \in Nat
  BY LenProperties DEF TypeOK
<1>2. CASE frames = <<>>
  BY <1>1, <1>2 DEF Acts, Follows
<1>3. CASE frames # <<>>
  <2> DEFINE f == frames[1]
             g == [f EXCEPT !.acted = TRUE]
  <2>1. f \in Frames /\ 1 \in 1 .. Len(frames)
    BY <1>3, InnerIs
  <2>2. /\ g \in Frames
        /\ g.next = f.next /\ g.ran = f.ran /\ g.revents = f.revents
        /\ g.used = f.used
    <3> HIDE DEF f
    <3>1. QED
      BY <2>1 DEF Frames
  <2>3. Acts = [frames EXCEPT ![1] = g]
    BY <1>3 DEF Acts
  <2> HIDE DEF g
  <2>4. /\ Acts \in Seq(Frames) /\ Len(Acts) = Len(frames)
        /\ \A j \in 1 .. Len(frames) : Acts[j] = IF j = 1 THEN g ELSE frames[j]
    BY <1>1, <2>1, <2>2, <2>3, ExceptSeq
  <2>5. ASSUME NEW j \in 1 .. Len(frames)
        PROVE  Follows(frames[j], Acts[j]) /\ Acts[j].used = frames[j].used
    BY <2>2, <2>4 DEF Follows
  <2>6. QED
    BY <1>1, <2>4, <2>5
<1>4. QED
  BY <1>2, <1>3
----------------------------------------------------------------------------
(* The loop of poll().                                                     *)

LEMMA ZmqPollReturnsKeepsIInv ==
  ASSUME IInv, ZmqPollReturns
  PROVE  IInv'
<1>1. /\ at = "poll" /\ at' = "loop" /\ frames # <<>>
      /\ UNCHANGED <<inbox, outbox, gone, timeout, on>>
  BY DEF ZmqPollReturns, IInv, TypeOK
<1>2. PICK stdin \in (IF Null THEN SUBSET Events ELSE {{}}) :
        frames' = [frames EXCEPT ![1].revents =
                     [i \in 1 .. N |->
                        IF ItemAt(i).socket \in gone THEN stdin \cap ItemAt(i).events
                        ELSE ReadyEvents(i)]]
  BY DEF ZmqPollReturns
<1> DEFINE found == [i \in 1 .. N |->
                       IF ItemAt(i).socket \in gone THEN stdin \cap ItemAt(i).events
                       ELSE ReadyEvents(i)]
           f == frames[1]
           g == [f EXCEPT !.revents = found]
<1>3. f \in Frames /\ TypeOK
  BY <1>1, InnerIs DEF IInv
<1>4. found \in [1 .. N -> SUBSET Events]
  BY ItemsAre DEF ReadyEvents
<1>5. frames' = [frames EXCEPT ![1] = g]
  BY <1>2
<1>6. /\ g \in Frames /\ g.next = f.next /\ g.ran = f.ran /\ g.revents = found
      /\ g.used = f.used
  <2> HIDE DEF f, found
  <2>1. QED
    BY <1>3, <1>4 DEF Frames
<1>7. f.next = 1 /\ Kept(f, 0)
  <2>1. f.next = 1 /\ Shape(f, CalledIn(at, 1))
    BY <1>1, <1>3, InnerIs DEF IInv, Ran
  <2>2. ~CalledIn(at, 1)
    BY <1>1 DEF CalledIn
  <2> HIDE DEF f
  <2>3. QED
    BY <2>1, <2>2 DEF Shape
<1>8. Shape(g, CalledIn(at', 1))
  <2>1. ~CalledIn(at', 1)
    BY <1>1 DEF CalledIn
  <2>2. Kept(g, 0)
    <3>1. \A k \in 1 .. Len(f.ran) : FALSE
      <4> HIDE DEF f
      <4>1. SUFFICES ASSUME NEW k \in 1 .. Len(f.ran)
                     PROVE  FALSE
        OBVIOUS
      <4>2. f.ran[k] \in {f.ran[l] : l \in 1 .. Len(f.ran)}
        OBVIOUS
      <4>3. f.ran[k] \in 1 .. 0
        BY <1>7, <4>2 DEF Kept
      <4>4. QED
        BY <4>3
    <3> HIDE DEF f, g
    <3>2. QED
      BY <1>6, <3>1 DEF Kept
  <2> HIDE DEF f, g
  <2>3. QED
    BY <1>6, <1>7, <2>1, <2>2 DEF Shape
<1>9. ASSUME ~NDEBUG
      PROVE  FreshIn(inbox, outbox, gone, g)
  <2>1. ~Null
    BY <1>1, <1>9 DEF IInv, Asserted
  <2>2. ASSUME NEW i \in 1 .. N, NEW e \in found[i]
        PROVE  ReadyIn(inbox, outbox, gone, ItemAt(i).socket, e)
    <3>1. ItemAt(i).socket \notin gone
      BY <2>1 DEF Null
    <3>2. e \in ReadyEvents(i)
      BY <2>2, <3>1
    <3>3. QED
      BY <3>2 DEF ReadyEvents, Ready, ReadyIn
  <2> HIDE DEF f, g, found
  <2>3. QED
    BY <1>6, <1>7, <2>2 DEF FreshIn
<1>10. TypeOK'
  <2> HIDE DEF g
  <2>1. frames' \in Seq(Frames) /\ Len(frames') = Len(frames) /\ frames' # <<>>
    BY <1>1, <1>3, <1>5, <1>6, InnerReplaced
  <2>2. QED
    BY <1>1, <2>1 DEF IInv, TypeOK
<1> HIDE DEF g
<1>11. QED
  BY <1>1, <1>5, <1>6, <1>8, <1>9, <1>10, InnerGoesOn

\* A step of the loop that changes no event: what was fresh of the positions to
\* come still is.
LEMMA InnerMoves ==
  ASSUME IInv, NEW g \in Frames, frames # <<>>, frames' = [frames EXCEPT ![1] = g],
         at \in {"loop", "callback"}, at' \in {"loop", "callback"},
         UNCHANGED <<inbox, outbox, gone, timeout, on>>,
         g.revents = Inner.revents, g.used = Inner.used,
         g.next \in Inner.next .. N + 1, Shape(g, at' = "callback")
  PROVE  IInv'
<1>1. /\ TypeOK /\ Inner \in Frames /\ Inner = frames[1] /\ 1 \in 1 .. Len(frames)
  BY InnerIs DEF IInv
<1>2. TypeOK'
  <2>1. frames' \in Seq(Frames) /\ Len(frames') = Len(frames) /\ frames' # <<>>
    BY <1>1, InnerReplaced
  <2>2. QED
    BY <2>1 DEF IInv, TypeOK
<1>3. Shape(g, CalledIn(at', 1))
  <2>1. CalledIn(at', 1) = (at' = "callback")
    BY DEF CalledIn
  <2>2. QED
    BY <2>1
<1>4. ASSUME ~NDEBUG
      PROVE  FreshIn(inbox, outbox, gone, g)
  <2>1. FreshIn(inbox, outbox, gone, Inner)
    BY <1>1, <1>4 DEF IInv, Asserted
  <2>2. \A i \in g.next .. N : i \in Inner.next .. N
    BY <1>1, ItemsAre DEF Frames
  <2>3. QED
    BY <2>1, <2>2 DEF FreshIn
<1>5. QED
  BY <1>2, <1>3, <1>4, InnerGoesOn

\* What the innermost poll() has run, between two callbacks and in one.
LEMMA InnerHasRun ==
  ASSUME IInv, at \in {"loop", "callback"}
  PROVE  /\ frames # <<>> /\ Inner \in Frames
         /\ Inner.next \in 1 .. N + 1 /\ Inner.ran \in Seq(1 .. N)
         /\ at = "loop" => Kept(Inner, Inner.next - 1)
         /\ at = "callback" => Inner.next <= N /\ Kept(Inner, Inner.next)
<1>1. frames # <<>>
  BY DEF IInv, TypeOK
<1>2. Inner \in Frames /\ Inner = frames[1] /\ 1 \in 1 .. Len(frames)
  BY <1>1, InnerIs DEF IInv
<1>3. Shape(Inner, CalledIn(at, 1))
  BY <1>2 DEF IInv, Ran
<1>4. CalledIn(at, 1) <=> at = "callback"
  BY DEF CalledIn
<1>5. QED
  BY <1>1, <1>2, <1>3, <1>4 DEF Shape, Frames

\* The callback of the next position is added to those that have been run.
LEMMA RunsNext ==
  ASSUME NEW f \in Frames, NEW g \in Frames, Kept(f, f.next - 1), f.next <= N,
         ItemAt(f.next).callable, f.revents[f.next] # {},
         g.ran = Append(f.ran, f.next), g.revents = f.revents
  PROVE  Kept(g, f.next)
<1> DEFINE n == f.next
           r == f.ran
<1>1. n \in 1 .. N /\ n - 1 \in Nat /\ r \in Seq(1 .. N) /\ N \in Nat
  BY ItemsAre DEF Frames
<1>2. /\ Len(r) \in Nat /\ Len(g.ran) = Len(r) + 1 /\ g.ran[Len(r) + 1] = n
      /\ \A k \in 1 .. Len(r) : g.ran[k] = r[k] /\ r[k] \in 1 .. N
  <2> HIDE DEF n, r
  <2>1. g.ran = Append(r, n)
    BY DEF n, r
  <2>2. Len(r) \in Nat /\ \A k \in 1 .. Len(r) : r[k] \in 1 .. N
    BY <1>1, LenProperties, ElementOfSeq
  <2>3. QED
    BY <1>1, <2>1, <2>2, AppendProperties
<1>3. \A k \in 1 .. Len(r) : r[k] < n
  <2>1. \A k \in 1 .. Len(r) : r[k] \in 1 .. n - 1
    BY DEF Kept
  <2>2. QED
    BY <1>1, <2>1
<1>4. {g.ran[k] : k \in 1 .. Len(g.ran)} = {r[k] : k \in 1 .. Len(r)} \cup {n}
  <2> HIDE DEF n, r
  <2>1. QED
    BY <1>2
<1>5. {i \in 1 .. n : ItemAt(i).callable /\ g.revents[i] # {}}
        = {i \in 1 .. n - 1 : ItemAt(i).callable /\ f.revents[i] # {}} \cup {n}
  <2>1. \A i : i \in 1 .. n <=> i \in 1 .. n - 1 \/ i = n
    BY <1>1
  <2>2. QED
    BY <2>1
<1>6. ASSUME NEW k \in 1 .. Len(g.ran), NEW l \in 1 .. Len(g.ran), k < l
      PROVE  g.ran[k] < g.ran[l]
  <2>1. k \in 1 .. Len(r)
    BY <1>2, <1>6
  <2>2. CASE l = Len(r) + 1
    BY <1>2, <1>3, <2>1, <2>2
  <2>3. CASE l # Len(r) + 1
    <3>1. l \in 1 .. Len(r)
      BY <1>2, <2>3
    <3>2. r[k] < r[l]
      BY <1>6, <2>1, <3>1 DEF Kept
    <3>3. QED
      BY <1>2, <2>1, <3>1, <3>2
  <2>4. QED
    BY <2>2, <2>3
<1>7. QED
  BY <1>4, <1>5, <1>6 DEF Kept

LEMMA RunCallbackKeepsIInv ==
  ASSUME IInv, RunCallback
  PROVE  IInv'
<1> DEFINE f == Inner
           g == [f EXCEPT !.ran = Append(f.ran, f.next), !.acted = FALSE]
<1>1. /\ at = "loop" /\ at' = "callback" /\ f.next <= N
      /\ ItemAt(f.next).callable /\ f.revents[f.next] # {}
      /\ frames' = [frames EXCEPT ![1] = g]
      /\ UNCHANGED <<inbox, outbox, gone, timeout, on>>
  BY DEF RunCallback, Inner
<1>2. /\ f \in Frames /\ frames # <<>> /\ Kept(f, f.next - 1)
      /\ f.next \in 1 .. N + 1 /\ f.ran \in Seq(1 .. N) /\ N \in Nat
  BY <1>1, InnerHasRun, ItemsAre
<1> HIDE DEF f
<1>3. Append(f.ran, f.next) \in Seq(1 .. N)
  <2> DEFINE n == f.next
             r == f.ran
  <2>1. n \in 1 .. N /\ r \in Seq(1 .. N)
    BY <1>1, <1>2
  <2> HIDE DEF n, r
  <2>2. Append(r, n) \in Seq(1 .. N)
    BY <2>1, AppendProperties
  <2>3. QED
    BY <2>2 DEF n, r
<1>4. /\ g \in Frames /\ g.next = f.next /\ g.ran = Append(f.ran, f.next)
      /\ g.revents = f.revents /\ g.used = f.used
  BY <1>2, <1>3 DEF Frames
<1> HIDE DEF g
<1>5. Kept(g, g.next)
  BY <1>1, <1>2, <1>4, RunsNext
<1>6. Shape(g, at' = "callback")
  BY <1>1, <1>4, <1>5 DEF Shape
<1>7. g.next \in f.next .. N + 1
  BY <1>2, <1>4
<1>8. QED
  BY <1>1, <1>2, <1>4, <1>6, <1>7, InnerMoves DEF f

LEMMA NextPosition ==
  ASSUME IInv, frames # <<>>, Inner \in Frames, Inner.next <= N,
         at \in {"loop", "callback"}, at' = "loop", Kept(Inner, Inner.next),
         frames' = [frames EXCEPT ![1].next = @ + 1],
         UNCHANGED <<inbox, outbox, gone, timeout, on>>
  PROVE  IInv'
<1> DEFINE f == Inner
           n == f.next + 1
           g == [f EXCEPT !.next = n]
<1>1. frames' = [frames EXCEPT ![1] = g]
  BY DEF Inner
<1>2. f.next \in 1 .. N + 1 /\ N \in Nat
  BY ItemsAre DEF Frames
<1> HIDE DEF f
<1>3. n \in 1 .. N + 1 /\ n - 1 = f.next /\ n \in f.next .. N + 1
  BY <1>2 DEF f
<1> HIDE DEF n
<1>4. /\ g \in Frames /\ g.next = n /\ g.ran = f.ran
      /\ g.revents = f.revents /\ g.used = f.used
  BY <1>3 DEF Frames, f
<1> HIDE DEF g
<1>5. Kept(g, n - 1)
  BY <1>3, <1>4 DEF Kept, f
<1>6. Shape(g, at' = "callback")
  BY <1>4, <1>5 DEF Shape
<1>7. QED
  BY <1>1, <1>3, <1>4, <1>6, InnerMoves DEF f

LEMMA SkipItemKeepsIInv ==
  ASSUME IInv, SkipItem
  PROVE  IInv'
<1>1. /\ at = "loop" /\ at' = "loop" /\ Inner.next <= N
      /\ ~ItemAt(Inner.next).callable \/ Inner.revents[Inner.next] = {}
      /\ frames' = [frames EXCEPT ![1].next = @ + 1]
      /\ UNCHANGED <<inbox, outbox, gone, timeout, on>>
  BY DEF SkipItem
<1>2. /\ Inner \in Frames /\ frames # <<>> /\ Kept(Inner, Inner.next - 1)
      /\ Inner.next \in 1 .. N + 1 /\ N \in Nat
  BY <1>1, InnerHasRun, ItemsAre
<1>3. Kept(Inner, Inner.next)
  <2>1. \A i : i \in 1 .. Inner.next <=> i \in 1 .. Inner.next - 1 \/ i = Inner.next
    BY <1>2
  <2>2. {i \in 1 .. Inner.next : ItemAt(i).callable /\ Inner.revents[i] # {}}
          = {i \in 1 .. Inner.next - 1 : ItemAt(i).callable /\ Inner.revents[i] # {}}
    BY <1>1, <2>1
  <2>3. QED
    BY <1>2, <2>2 DEF Kept
<1>4. QED
  BY <1>1, <1>2, <1>3, NextPosition

LEMMA CallbackReturnsKeepsIInv ==
  ASSUME IInv, CallbackReturns
  PROVE  IInv'
<1>1. /\ at = "callback" /\ at' = "loop"
      /\ frames' = [frames EXCEPT ![1].next = @ + 1]
      /\ UNCHANGED <<inbox, outbox, gone, timeout, on>>
  BY DEF CallbackReturns
<1>2. /\ Inner \in Frames /\ frames # <<>> /\ Inner.next <= N
      /\ Kept(Inner, Inner.next)
  BY <1>1, InnerHasRun
<1>3. QED
  BY <1>1, <1>2, NextPosition
----------------------------------------------------------------------------
(* Calls and returns of poll(), and what callbacks do.                     *)

LEMMA ConsIs ==
  ASSUME NEW S, NEW q \in Seq(S), NEW e \in S
  PROVE  /\ <<e>> \o q \in Seq(S) /\ Len(<<e>> \o q) = Len(q) + 1
         /\ Len(q) \in Nat /\ <<e>> \o q # <<>>
         /\ (<<e>> \o q)[1] = e
         /\ \A i \in 2 .. Len(q) + 1 :
              (<<e>> \o q)[i] = q[i - 1] /\ i - 1 \in 1 .. Len(q)
<1>1. /\ <<e>> \in Seq(S) /\ Len(<<e>>) = 1 /\ <<e>>[1] = e /\ Len(q) \in Nat
  BY LenProperties
<1>2. /\ <<e>> \o q \in Seq(S) /\ Len(<<e>> \o q) = Len(q) + 1
      /\ \A i \in 1 .. 1 + Len(q) :
           (<<e>> \o q)[i] = IF i <= 1 THEN <<e>>[i] ELSE q[i - 1]
  BY <1>1, ConcatProperties
<1>3. <<e>> \o q # <<>>
  <2> DEFINE s == <<e>> \o q
  <2>1. s \in Seq(S) /\ Len(s) = Len(q) + 1
    BY <1>2
  <2> HIDE DEF s
  <2>2. s # <<>>
    BY <1>1, <2>1, EmptySeq
  <2>3. QED
    BY <2>2 DEF s
<1>4. QED
  BY <1>1, <1>2, <1>3

LEMMA CallPollKeepsIInv ==
  ASSUME IInv, CallPoll
  PROVE  IInv'
<1> DEFINE f == [waits |-> timeout = "infinite",
                 revents |-> [i \in 1 .. N |-> {}], next |-> 1, ran |-> <<>>,
                 used |-> [e \in Events |-> {}], acted |-> FALSE]
<1>1. /\ at = "app" \/ (at = "callback" /\ frames # <<>>)
      /\ Len(frames) < MaxDepth /\ (Null => NDEBUG) /\ at' = "poll"
      /\ frames' = <<f>> \o Acts
      /\ UNCHANGED <<inbox, outbox, gone, timeout, on>>
  BY DEF CallPoll, MayAct, IInv, TypeOK
<1>2. f \in Frames /\ f.next = 1 /\ f.ran = <<>> /\ \A i \in 1 .. N : f.revents[i] = {}
  <2>1. <<>> \in Seq(1 .. N)
    BY EmptySeq
  <2>2. 1 \in 1 .. N + 1
    BY ItemsAre
  <2>3. QED
    BY <2>1, <2>2 DEF Frames
<1> HIDE DEF f
<1>3. /\ Acts \in Seq(Frames) /\ Len(Acts) = Len(frames) /\ Len(frames) \in Nat
      /\ \A j \in 1 .. Len(frames) : Follows(frames[j], Acts[j])
  BY ActsIs DEF IInv
<1>4. /\ frames' \in Seq(Frames) /\ Len(frames') = Len(frames) + 1
      /\ frames' # <<>> /\ frames'[1] = f
      /\ \A k \in 2 .. Len(frames) + 1 :
           frames'[k] = Acts[k - 1] /\ k - 1 \in 1 .. Len(frames)
  <2>1. PICK q : q = Acts
    OBVIOUS
  <2>2. q \in Seq(Frames) /\ frames' = <<f>> \o q
    BY <1>1, <1>3, <2>1
  <2>3. QED
    BY <1>2, <1>3, <2>1, <2>2, ConsIs
<1>5. TypeOK'
  BY <1>1, <1>3, <1>4, ItemsAre DEF IInv, TypeOK
<1>6. ASSUME NEW k \in 2 .. Len(frames')
      PROVE  /\ Shape(frames'[k], CalledIn(at', k))
             /\ ~NDEBUG => FreshIn(inbox', outbox', gone', frames'[k])
  <2> DEFINE j == k - 1
             h == frames[j]
             g == frames'[k]
  <2>1. j \in 1 .. Len(frames) /\ Follows(h, g)
    BY <1>3, <1>4
  <2>2. CalledIn(at, j) /\ CalledIn(at', k)
    <3>1. at = "app" => frames = <<>>
      BY DEF IInv, TypeOK
    <3>2. Len(frames) # 0
      BY <1>3, <2>1
    <3>3. at = "callback"
      BY <1>1, <3>1, <3>2, EmptySeq
    <3>4. QED
      BY <3>3 DEF CalledIn
  <2> HIDE DEF j
  <2>3. Shape(h, TRUE)
    BY <2>1, <2>2 DEF IInv, Ran
  <2>4. ~NDEBUG => FreshIn(inbox, outbox, gone, h)
    BY <2>1 DEF IInv, Asserted
  <2>5. h \in Frames
    BY <2>1, ElementOfSeq DEF IInv, TypeOK
  <2> HIDE DEF h, g
  <2>6. Shape(g, TRUE)
    BY <2>1, <2>3, FollowsKeepsShape
  <2>7. ~NDEBUG => FreshIn(inbox, outbox, gone, g)
    BY <2>1, <2>4, <2>5, FollowsKeepsFresh
  <2>8. QED
    BY <1>1, <2>2, <2>6, <2>7 DEF g
<1>7. Shape(f, CalledIn(at', 1)) /\ FreshIn(inbox', outbox', gone', f)
  <2>1. ~CalledIn(at', 1)
    BY <1>1 DEF CalledIn
  <2>2. Kept(f, 0)
    <3>1. Len(f.ran) = 0 /\ \A i : i \notin 1 .. 0
      BY <1>2, EmptySeq
    <3>2. QED
      BY <3>1 DEF Kept
  <2>3. FreshIn(inbox', outbox', gone', f)
    BY <1>2, ItemsAre DEF FreshIn
  <2>4. QED
    BY <1>2, <2>1, <2>2, <2>3 DEF Shape
<1>8. ASSUME NEW k \in 1 .. Len(frames')
      PROVE  /\ Shape(frames'[k], CalledIn(at', k))
             /\ ~NDEBUG => FreshIn(inbox', outbox', gone', frames'[k])
  <2>1. CASE k = 1
    BY <1>4, <1>7, <2>1
  <2>2. CASE k # 1
    <3>1. k \in 2 .. Len(frames')
      BY <1>3, <1>4, <2>2
    <3>2. QED
      BY <1>6, <3>1
  <2>3. QED
    BY <2>1, <2>2
<1>9. Ran'
  BY <1>2, <1>4, <1>8 DEF Ran
<1>10. Asserted'
  BY <1>1, <1>8 DEF Asserted, Null
<1>11. QED
  BY <1>5, <1>9, <1>10 DEF IInv

\* A step by which no socket gets less ready, nor any of the calls another state.
LEMMA SameCalls ==
  ASSUME IInv, TypeOK', Len(frames') = Len(frames),
         \A j \in 1 .. Len(frames) : Follows(frames[j], frames'[j]),
         \A s \in Sockets : \A e \in Events :
           ReadyIn(inbox, outbox, gone, s, e) =>
             \/ ReadyIn(inbox', outbox', gone', s, e)
             \/ \A k \in 1 .. Len(frames') : s \in frames'[k].used[e],
         frames # <<>> => (CalledIn(at, 1) <=> CalledIn(at', 1)),
         at' = "poll" => at = "poll" /\ gone' = gone
  PROVE  IInv'
<1>1. Len(frames) \in Nat
  BY LenProperties DEF IInv, TypeOK
<1>2. ASSUME NEW k \in 1 .. Len(frames')
      PROVE  \E j \in 1 .. Len(frames) :
               /\ Follows(frames[j], frames'[k])
               /\ CalledIn(at, j) <=> CalledIn(at', k)
  <2>1. k \in 1 .. Len(frames) /\ Follows(frames[k], frames'[k])
    OBVIOUS
  <2>2. CalledIn(at, k) <=> CalledIn(at', k)
    <3>1. frames # <<>>
      BY <1>1, <2>1, EmptySeq
    <3>2. QED
      BY <1>1, <2>1, <3>1 DEF CalledIn
  <2>3. QED
    BY <2>1, <2>2
<1>3. ASSUME at' = "poll"
      PROVE  at = "poll" /\ gone' = gone /\ frames'[1].next = frames[1].next
  <2>1. at = "poll" /\ gone' = gone /\ frames # <<>>
    BY <1>3 DEF IInv, TypeOK
  <2>2. 1 \in 1 .. Len(frames)
    BY <2>1, InnerIs DEF IInv
  <2>3. QED
    BY <2>1, <2>2 DEF Follows
<1>4. QED
  BY <1>2, <1>3, Continues

\* Steps that leave the calls as they are, or note that a callback acted.
LEMMA UnchangedCalls ==
  ASSUME IInv, TypeOK', frames' = frames \/ frames' = Acts,
         \A s \in Sockets : \A e \in Events :
           ReadyIn(inbox, outbox, gone, s, e) =>
             ReadyIn(inbox', outbox', gone', s, e),
         frames # <<>> => (CalledIn(at, 1) <=> CalledIn(at', 1)),
         at' = "poll" => at = "poll" /\ gone' = gone
  PROVE  IInv'
<1>1. /\ Len(frames') = Len(frames)
      /\ \A j \in 1 .. Len(frames) : Follows(frames[j], frames'[j])
  <2>1. CASE frames' = frames
    BY <2>1 DEF Follows
  <2>2. CASE frames' = Acts
    <3>1. PICK q : q = Acts
      OBVIOUS
    <3>2. Len(q) = Len(frames) /\ \A j \in 1 .. Len(frames) : Follows(frames[j], q[j])
      BY <3>1, ActsIs DEF IInv
    <3>3. QED
      BY <2>2, <3>1, <3>2
  <2>3. QED
    BY <2>1, <2>2
<1>2. QED
  BY <1>1, SameCalls

LEMMA ActsAre ==
  ASSUME TypeOK
  PROVE  /\ Acts \in Seq(Frames) /\ Len(Acts) = Len(frames)
         /\ Acts = <<>> <=> frames = <<>>
<1>1. Acts \in Seq(Frames) /\ Len(Acts) = Len(frames) /\ frames \in Seq(Frames)
  BY ActsIs DEF TypeOK
<1>2. PICK q : q = Acts
  OBVIOUS
<1>3. q = <<>> <=> frames = <<>>
  BY <1>1, <1>2, EmptySeq
<1>4. QED
  BY <1>1, <1>2, <1>3

LEMMA AssertionFailsKeepsIInv ==
  ASSUME IInv, AssertionFails
  PROVE  IInv'
<1>1. at = "app" \/ at = "callback"
  BY DEF AssertionFails, MayAct
<1>2. at' = "aborted" /\ UNCHANGED <<inbox, outbox, gone, timeout, on, frames>>
  BY DEF AssertionFails
<1>3. TypeOK'
  BY <1>2 DEF IInv, TypeOK
<1>4. frames # <<>> => (CalledIn(at, 1) <=> CalledIn(at', 1))
  BY <1>1, <1>2 DEF IInv, TypeOK, CalledIn
<1>5. QED
  BY <1>2, <1>3, <1>4, UnchangedCalls

LEMMA SetTimeoutKeepsIInv ==
  ASSUME IInv, NEW t \in {"infinite", "finite"}, SetTimeout(t)
  PROVE  IInv'
<1>1. /\ at # "poll" /\ timeout' = t /\ frames' = Acts
      /\ UNCHANGED <<inbox, outbox, gone, at, on>>
  BY DEF SetTimeout, MayAct
<1>2. TypeOK'
  BY <1>1, ActsAre DEF IInv, TypeOK
<1>3. QED
  BY <1>1, <1>2, UnchangedCalls

LEMMA CallbackCallsKeepsIInv ==
  ASSUME IInv, NEW s \in Sockets, NEW call \in {"receive", "send"},
         CallbackCalls(s, call)
  PROVE  IInv'
<1>1. /\ at = "callback" /\ at' = call /\ on' = {s} /\ frames' = Acts
      /\ frames # <<>> /\ UNCHANGED <<inbox, outbox, gone, timeout>>
  BY DEF CallbackCalls, MayAct, IInv, TypeOK
<1>2. TypeOK'
  BY <1>1, ActsAre DEF IInv, TypeOK
<1>3. CalledIn(at, 1) <=> CalledIn(at', 1)
  BY <1>1 DEF CalledIn
<1>4. QED
  BY <1>1, <1>2, <1>3, UnchangedCalls

LEMMA ArriveKeepsIInv ==
  ASSUME IInv, NEW s \in Sockets, Arrive(s)
  PROVE  IInv'
<1> DEFINE n == inbox[s] + 1
<1>1. /\ inbox[s] < Capacity /\ inbox' = [inbox EXCEPT ![s] = n]
      /\ UNCHANGED <<outbox, gone, timeout, at, on, frames>>
  BY DEF Arrive
<1>2. inbox \in [Sockets -> 0 .. Capacity] /\ n \in 0 .. Capacity /\ n > inbox[s]
  BY <1>1, ItemsAre DEF IInv, TypeOK
<1> HIDE DEF n
<1>3. TypeOK'
  BY <1>1, <1>2 DEF IInv, TypeOK
<1>4. ASSUME NEW r \in Sockets, NEW e \in Events, ReadyIn(inbox, outbox, gone, r, e)
      PROVE  ReadyIn(inbox', outbox', gone', r, e)
  BY <1>1, <1>2, <1>4 DEF ReadyIn
<1>5. QED
  BY <1>1, <1>3, <1>4, UnchangedCalls

LEMMA PeerTakesKeepsIInv ==
  ASSUME IInv, NEW s \in Sockets, PeerTakes(s)
  PROVE  IInv'
<1> DEFINE n == outbox[s] - 1
<1>1. /\ outbox[s] > 0 /\ outbox' = [outbox EXCEPT ![s] = n]
      /\ UNCHANGED <<inbox, gone, timeout, at, on, frames>>
  BY DEF PeerTakes
<1>2. outbox \in [Sockets -> 0 .. Capacity] /\ n \in 0 .. Capacity /\ n < Capacity
  BY <1>1, ItemsAre DEF IInv, TypeOK
<1> HIDE DEF n
<1>3. TypeOK'
  BY <1>1, <1>2 DEF IInv, TypeOK
<1>4. ASSUME NEW r \in Sockets, NEW e \in Events, ReadyIn(inbox, outbox, gone, r, e)
      PROVE  ReadyIn(inbox', outbox', gone', r, e)
  BY <1>1, <1>2, <1>4 DEF ReadyIn
<1>5. QED
  BY <1>1, <1>3, <1>4, UnchangedCalls

LEMMA CatchKeepsIInv ==
  ASSUME IInv, Catch
  PROVE  IInv'
<1>1. /\ at = "caught" /\ at' = IF frames = <<>> THEN "app" ELSE "callback"
      /\ UNCHANGED <<inbox, outbox, gone, timeout, on, frames>>
  BY DEF Catch
<1>2. TypeOK'
  BY <1>1 DEF IInv, TypeOK
<1>3. frames # <<>> => (CalledIn(at, 1) <=> CalledIn(at', 1))
  BY <1>1 DEF CalledIn
<1>4. at' # "poll"
  BY <1>1
<1>5. QED
  BY <1>1, <1>2, <1>3, <1>4, UnchangedCalls

\* receive() or send() on a socket is noted in all calls in progress.
LEMMA UsesIs ==
  ASSUME TypeOK, NEW e \in Events
  PROVE  /\ Uses(e) \in Seq(Frames) /\ Len(Uses(e)) = Len(frames)
         /\ Uses(e) = <<>> <=> frames = <<>>
         /\ \A j \in 1 .. Len(frames) :
              Follows(frames[j], Uses(e)[j]) /\ on \subseteq Uses(e)[j].used[e]
<1>1. frames \in Seq(Frames) /\ Len(frames) \in Nat /\ on \subseteq Sockets
  BY LenProperties DEF TypeOK
<1>2. ASSUME NEW j \in 1 .. Len(frames)
      PROVE  /\ [frames[j] EXCEPT !.used[e] = @ \cup on] \in Frames
             /\ Follows(frames[j], [frames[j] EXCEPT !.used[e] = @ \cup on])
             /\ on \subseteq [frames[j] EXCEPT !.used[e] = @ \cup on].used[e]
  <2> DEFINE f == frames[j]
             u == [f.used EXCEPT ![e] = f.used[e] \cup on]
             g == [f EXCEPT !.used = u]
  <2>1. f \in Frames
    BY <1>1, ElementOfSeq
  <2>2. [frames[j] EXCEPT !.used[e] = @ \cup on] = g
    OBVIOUS
  <2> HIDE DEF f
  <2>3. u \in [Events -> SUBSET Sockets] /\ f.used \in [Events -> SUBSET Sockets]
    BY <1>1, <2>1 DEF Frames
  <2>4. on \subseteq u[e] /\ \A d \in Events : f.used[d] \subseteq u[d]
    BY <2>3
  <2> HIDE DEF u
  <2>5. /\ g \in Frames /\ g.next = f.next /\ g.ran = f.ran
        /\ g.revents = f.revents /\ g.used = u
    BY <2>1, <2>3 DEF Frames
  <2> HIDE DEF g
  <2>6. Follows(f, g) /\ on \subseteq g.used[e]
    BY <2>4, <2>5 DEF Follows
  <2>7. QED
    BY <2>2, <2>5, <2>6 DEF f
<1> DEFINE s == [j \in 1 .. Len(frames) |-> [frames[j] EXCEPT !.used[e] = @ \cup on]]
<1>3. s \in Seq(Frames) /\ Len(s) = Len(frames)
  BY <1>1, <1>2
<1>4. s = <<>> <=> frames = <<>>
  <2> HIDE DEF s
  <2>1. QED
    BY <1>1, <1>3, EmptySeq
<1>5. Uses(e) = s
  BY DEF Uses
<1>6. QED
  BY <1>2, <1>3, <1>4, <1>5

LEMMA ReceiveReturnsKeepsIInv ==
  ASSUME IInv, ReceiveReturns
  PROVE  IInv'
<1>1. /\ at = "receive" /\ at' = "callback" /\ on' = {} /\ frames # <<>>
      /\ frames' = Uses("in") /\ UNCHANGED <<outbox, gone, timeout>>
  BY DEF ReceiveReturns, IInv, TypeOK
<1>2. PICK s \in on : inbox[s] > 0 /\ inbox' = [inbox EXCEPT ![s] = inbox[s] - 1]
  BY DEF ReceiveReturns
<1> DEFINE n == inbox[s] - 1
<1>3. /\ s \in Sockets /\ inbox \in [Sockets -> 0 .. Capacity] /\ n \in 0 .. Capacity
      /\ inbox' = [inbox EXCEPT ![s] = n]
  BY <1>2, ItemsAre DEF IInv, TypeOK
<1> HIDE DEF n
<1>4. "in" \in Events
  BY DEF Events
<1>5. /\ frames' \in Seq(Frames) /\ Len(frames') = Len(frames) /\ frames' # <<>>
      /\ \A j \in 1 .. Len(frames) :
           Follows(frames[j], frames'[j]) /\ on \subseteq frames'[j].used["in"]
  <2>1. PICK q : q = Uses("in")
    OBVIOUS
  <2>2. /\ q \in Seq(Frames) /\ Len(q) = Len(frames) /\ q # <<>>
        /\ \A j \in 1 .. Len(frames) :
             Follows(frames[j], q[j]) /\ on \subseteq q[j].used["in"]
    BY <1>1, <1>4, <2>1, UsesIs DEF IInv
  <2>3. QED
    BY <1>1, <2>1, <2>2
<1>6. TypeOK'
  BY <1>1, <1>3, <1>5 DEF IInv, TypeOK
<1>7. ASSUME NEW r \in Sockets, NEW e \in Events, ReadyIn(inbox, outbox, gone, r, e)
      PROVE  \/ ReadyIn(inbox', outbox', gone', r, e)
             \/ \A k \in 1 .. Len(frames') : r \in frames'[k].used[e]
  <2>1. CASE r = s /\ e = "in"
    BY <1>2, <1>5, <2>1
  <2>2. CASE r # s \/ e # "in"
    BY <1>1, <1>3, <1>7, <2>2 DEF ReadyIn
  <2>3. QED
    BY <2>1, <2>2
<1>8. CalledIn(at, 1) <=> CalledIn(at', 1)
  BY <1>1 DEF CalledIn
<1>9. QED
  BY <1>1, <1>5, <1>6, <1>7, <1>8, SameCalls

LEMMA SendReturnsKeepsIInv ==
  ASSUME IInv, SendReturns
  PROVE  IInv'
<1>1. /\ at = "send" /\ at' = "callback" /\ on' = {} /\ frames # <<>>
      /\ frames' = Uses("out") /\ UNCHANGED <<inbox, gone, timeout>>
  BY DEF SendReturns, IInv, TypeOK
<1>2. PICK s \in on :
        outbox[s] < Capacity /\ outbox' = [outbox EXCEPT ![s] = outbox[s] + 1]
  BY DEF SendReturns
<1> DEFINE n == outbox[s] + 1
<1>3. /\ s \in Sockets /\ outbox \in [Sockets -> 0 .. Capacity] /\ n \in 0 .. Capacity
      /\ outbox' = [outbox EXCEPT ![s] = n]
  BY <1>2, ItemsAre DEF IInv, TypeOK
<1> HIDE DEF n
<1>4. "out" \in Events
  BY DEF Events
<1>5. /\ frames' \in Seq(Frames) /\ Len(frames') = Len(frames) /\ frames' # <<>>
      /\ \A j \in 1 .. Len(frames) :
           Follows(frames[j], frames'[j]) /\ on \subseteq frames'[j].used["out"]
  <2>1. PICK q : q = Uses("out")
    OBVIOUS
  <2>2. /\ q \in Seq(Frames) /\ Len(q) = Len(frames) /\ q # <<>>
        /\ \A j \in 1 .. Len(frames) :
             Follows(frames[j], q[j]) /\ on \subseteq q[j].used["out"]
    BY <1>1, <1>4, <2>1, UsesIs DEF IInv
  <2>3. QED
    BY <1>1, <2>1, <2>2
<1>6. TypeOK'
  BY <1>1, <1>3, <1>5 DEF IInv, TypeOK
<1>7. ASSUME NEW r \in Sockets, NEW e \in Events, ReadyIn(inbox, outbox, gone, r, e)
      PROVE  \/ ReadyIn(inbox', outbox', gone', r, e)
             \/ \A k \in 1 .. Len(frames') : r \in frames'[k].used[e]
  <2>1. CASE r = s /\ e = "out"
    BY <1>2, <1>5, <2>1
  <2>2. CASE r # s \/ e # "out"
    BY <1>1, <1>3, <1>7, <2>2 DEF ReadyIn
  <2>3. QED
    BY <2>1, <2>2
<1>8. CalledIn(at, 1) <=> CalledIn(at', 1)
  BY <1>1 DEF CalledIn
<1>9. QED
  BY <1>1, <1>5, <1>6, <1>7, <1>8, SameCalls

LEMMA ReassignKeepsIInv ==
  ASSUME IInv, NEW s \in Movable, NEW now \in {gone \cup {s}, gone \ {s}},
         Reassign(s, now)
  PROVE  IInv'
<1>1. /\ at # "poll" /\ gone' = now
      /\ inbox' = [inbox EXCEPT ![s] = 0] /\ outbox' = [outbox EXCEPT ![s] = 0]
      /\ UNCHANGED <<timeout, at, on>>
  BY DEF Reassign, MayAct
<1>2. /\ s \in Sockets /\ 0 \in 0 .. Capacity /\ now \subseteq Movable
      /\ inbox \in [Sockets -> 0 .. Capacity] /\ outbox \in [Sockets -> 0 .. Capacity]
  BY ItemsAre DEF IInv, TypeOK
<1>3. PICK q : q = Acts
  OBVIOUS
<1>4. /\ q \in Seq(Frames) /\ Len(q) = Len(frames) /\ Len(q) \in Nat
      /\ \A j \in 1 .. Len(frames) : Follows(frames[j], q[j])
  BY <1>3, ActsIs DEF IInv
<1> DEFINE G(j) == [q[j] EXCEPT !.used = [e \in Events |-> q[j].used[e] \cup {s}]]
<1>5. frames' = [j \in 1 .. Len(q) |-> G(j)]
  BY <1>3 DEF Reassign
<1>6. ASSUME NEW j \in 1 .. Len(q)
      PROVE  /\ G(j) \in Frames /\ Follows(frames[j], G(j))
             /\ \A e \in Events : s \in G(j).used[e]
  <2> DEFINE f == q[j]
             u == [e \in Events |-> f.used[e] \cup {s}]
             g == [f EXCEPT !.used = u]
  <2>1. f \in Frames
    BY <1>4, ElementOfSeq
  <2>2. Follows(frames[j], f)
    BY <1>4
  <2> HIDE DEF f
  <2>3. u \in [Events -> SUBSET Sockets]
    BY <1>2, <2>1 DEF Frames
  <2>4. \A e \in Events : s \in u[e] /\ f.used[e] \subseteq u[e]
    OBVIOUS
  <2> HIDE DEF u
  <2>5. /\ g \in Frames /\ g.next = f.next /\ g.ran = f.ran
        /\ g.revents = f.revents /\ g.used = u
    BY <2>1, <2>3 DEF Frames
  <2> HIDE DEF g
  <2>6. Follows(frames[j], g) /\ \A e \in Events : s \in g.used[e]
    BY <2>2, <2>4, <2>5 DEF Follows
  <2>7. QED
    BY <2>5, <2>6 DEF g, u, f
<1> HIDE DEF G
<1>7. /\ frames' \in Seq(Frames) /\ Len(frames') = Len(frames)
      /\ \A j \in 1 .. Len(frames) :
           /\ Follows(frames[j], frames'[j])
           /\ \A e \in Events : s \in frames'[j].used[e]
  BY <1>4, <1>5, <1>6
<1>8. TypeOK'
  <2>1. frames = <<>> <=> frames' = <<>>
    BY <1>4, <1>7, EmptySeq DEF IInv, TypeOK
  <2>2. QED
    BY <1>1, <1>2, <1>7, <2>1 DEF IInv, TypeOK
<1>9. ASSUME NEW r \in Sockets, NEW e \in Events, ReadyIn(inbox, outbox, gone, r, e)
      PROVE  \/ ReadyIn(inbox', outbox', gone', r, e)
             \/ \A k \in 1 .. Len(frames') : r \in frames'[k].used[e]
  <2>1. CASE r = s
    BY <1>7, <2>1
  <2>2. CASE r # s
    BY <1>1, <1>2, <1>9, <2>2 DEF ReadyIn
  <2>3. QED
    BY <2>1, <2>2
<1>10. QED
  BY <1>1, <1>7, <1>8, <1>9, SameCalls

\* The call that a poll() was made in is the innermost one again.
LEMMA PollReturnsKeepsIInv ==
  ASSUME IInv, PollReturns
  PROVE  IInv'
<1>1. /\ at = "loop" /\ frames # <<>> /\ frames' = Tail(frames)
      /\ at' = IF Tail(frames) = <<>> THEN "app" ELSE "callback"
      /\ UNCHANGED <<inbox, outbox, gone, timeout, on>>
  BY DEF PollReturns, IInv, TypeOK
<1>2. /\ frames' \in Seq(Frames) /\ Len(frames') = Len(frames) - 1
      /\ Len(frames) \in Nat \ {0} /\ Len(frames) <= MaxDepth
      /\ \A k \in 1 .. Len(frames') : frames'[k] = frames[k + 1]
  <2>1. frames \in Seq(Frames) /\ Len(frames) \in Nat \ {0}
    BY <1>1, InnerIs DEF IInv
  <2>2. QED
    BY <1>1, <2>1, HeadTailProperties DEF IInv, TypeOK
<1>3. TypeOK'
  BY <1>1, <1>2, ItemsAre DEF IInv, TypeOK
<1>4. ASSUME NEW k \in 1 .. Len(frames')
      PROVE  \E j \in 1 .. Len(frames) :
               /\ Follows(frames[j], frames'[k])
               /\ CalledIn(at, j) <=> CalledIn(at', k)
  <2>1. k + 1 \in 1 .. Len(frames) /\ k + 1 > 1
    BY <1>2
  <2>2. frames' # <<>>
    BY <1>2, EmptySeq
  <2>3. at' = "callback"
    BY <1>1, <2>2
  <2>4. CalledIn(at, k + 1) /\ CalledIn(at', k)
    BY <2>1, <2>3 DEF CalledIn
  <2>5. Follows(frames[k + 1], frames'[k])
    BY <1>2 DEF Follows
  <2>6. QED
    BY <2>1, <2>4, <2>5
<1>5. at' # "poll"
  BY <1>1
<1>6. QED
  BY <1>1, <1>3, <1>4, <1>5, Continues

\* An exception ends the n innermost calls.
LEMMA ThrowKeepsIInv ==
  ASSUME IInv, NEW n \in 1 .. Len(frames), Throw(n)
  PROVE  IInv'
<1>1. /\ at' = "caught" /\ on' = {} /\ frames' = SubSeq(frames, n + 1, Len(frames))
      /\ UNCHANGED <<inbox, outbox, gone, timeout>>
  BY DEF Throw
<1>2. /\ frames' \in Seq(Frames) /\ Len(frames') = Len(frames) - n
      /\ Len(frames) \in Nat /\ Len(frames) <= MaxDepth
      /\ \A k \in 1 .. Len(frames') :
           frames'[k] = frames[n + k] /\ n + k \in 1 .. Len(frames)
  <2> DEFINE q == frames
             m == n + 1
             l == Len(q)
  <2>1. q \in Seq(Frames) /\ l \in Nat /\ m \in Int /\ l <= MaxDepth
    BY LenProperties DEF IInv, TypeOK
  <2>2. \A i \in m .. l : q[i] \in Frames
    BY <2>1, ElementOfSeq
  <2>3. l \in Int
    BY <2>1
  <2> HIDE DEF m, l
  <2>4. /\ SubSeq(q, m, l) \in Seq(Frames)
        /\ Len(SubSeq(q, m, l)) = IF m <= l THEN l - m + 1 ELSE 0
        /\ \A i \in 1 .. l - m + 1 : SubSeq(q, m, l)[i] = q[m + i - 1]
    BY <2>1, <2>2, <2>3, SubSeqProperties
  <2>5. frames' = SubSeq(q, m, l)
    BY <1>1 DEF m, l
  <2>6. m = n + 1 /\ n \in 1 .. l /\ l = Len(frames)
    BY DEF m, l
  <2>7. Len(frames') = l - n /\ l - m + 1 = l - n
    BY <2>1, <2>4, <2>5, <2>6
  <2>8. ASSUME NEW k \in 1 .. l - n
        PROVE  frames'[k] = frames[n + k] /\ n + k \in 1 .. l
    <3>1. frames'[k] = q[m + k - 1]
      BY <2>4, <2>5, <2>7
    <3>2. m + k - 1 = n + k /\ n + k \in 1 .. l
      BY <2>1, <2>6
    <3>3. QED
      BY <3>1, <3>2
  <2>9. QED
    BY <2>1, <2>4, <2>5, <2>6, <2>7, <2>8
<1>3. TypeOK'
  BY <1>1, <1>2, ItemsAre DEF IInv, TypeOK
<1>4. ASSUME NEW k \in 1 .. Len(frames')
      PROVE  \E j \in 1 .. Len(frames) :
               /\ Follows(frames[j], frames'[k])
               /\ CalledIn(at, j) <=> CalledIn(at', k)
  <2>1. n + k \in 1 .. Len(frames) /\ n + k > 1
    BY <1>2
  <2>2. CalledIn(at, n + k) /\ CalledIn(at', k)
    BY <1>1, <2>1 DEF CalledIn
  <2>3. Follows(frames[n + k], frames'[k])
    BY <1>2 DEF Follows
  <2>4. QED
    BY <2>1, <2>2, <2>3
<1>5. QED
  BY <1>1, <1>3, <1>4, Continues
----------------------------------------------------------------------------
(* The invariant.                                                          *)

LEMMA StepKeepsIInv == IInv /\ [Next]_vars => IInv'
<1> SUFFICES ASSUME IInv, [Next]_vars
             PROVE  IInv'
  OBVIOUS
<1>1. CASE UNCHANGED vars
  <2>1. TypeOK' /\ UNCHANGED <<inbox, outbox, gone, at, frames>>
    BY <1>1 DEF IInv, TypeOK, vars
  <2>2. QED
    BY <2>1, UnchangedCalls
<1>2. CASE CallPoll
  BY <1>2, CallPollKeepsIInv
<1>3. CASE AssertionFails
  BY <1>3, AssertionFailsKeepsIInv
<1>4. ASSUME NEW s \in Movable,
             Reassign(s, gone \cup {s}) \/ Reassign(s, gone \ {s})
      PROVE  IInv'
  BY <1>4, ReassignKeepsIInv
<1>5. ASSUME NEW t \in {"infinite", "finite"}, SetTimeout(t)
      PROVE  IInv'
  BY <1>5, SetTimeoutKeepsIInv
<1>6. CASE Progress
  BY <1>6, CallbackCallsKeepsIInv, CallbackReturnsKeepsIInv,
     ZmqPollReturnsKeepsIInv, RunCallbackKeepsIInv, SkipItemKeepsIInv,
     PollReturnsKeepsIInv, CatchKeepsIInv, ReceiveReturnsKeepsIInv,
     SendReturnsKeepsIInv
  DEF Progress, Callback
<1>7. ASSUME NEW n \in 1 .. Len(frames), Throw(n)
      PROVE  IInv'
  BY <1>7, ThrowKeepsIInv
<1>8. ASSUME NEW s \in Sockets, Arrive(s) \/ PeerTakes(s)
      PROVE  IInv'
  BY <1>8, ArriveKeepsIInv, PeerTakesKeepsIInv
<1>9. QED
  BY <1>1, <1>2, <1>3, <1>4, <1>5, <1>6, <1>7, <1>8 DEF Next

LEMMA InitIInv == Init => IInv
<1> SUFFICES ASSUME Init
             PROVE  IInv
  OBVIOUS
<1>1. frames \in Seq(Frames) /\ Len(frames) = 0
  BY EmptySeq DEF Init
<1>2. TypeOK
  BY <1>1, ItemsAre DEF Init, TypeOK
<1>3. Ran /\ Asserted
  BY <1>1 DEF Init, Ran, Asserted
<1>4. QED
  BY <1>2, <1>3 DEF IInv

LEMMA Invariance == Spec => []IInv
BY InitIInv, StepKeepsIInv, PTL DEF Spec
----------------------------------------------------------------------------
(* Theorems.                                                               *)

\* Every variable keeps its type, and a poll() is in progress wherever its loop
\* or one of its callbacks is (Poller::poll).
THEOREM TypeCorrect == Spec => []TypeOK
<1>1. IInv => TypeOK
  BY DEF IInv
<1>2. QED
  BY <1>1, Invariance, PTL

\* However callbacks use the sockets, poll again or throw, each poll() runs the
\* callback of each item it passes that was ready, once, from the last parameter
\* to the first (Poller::poll).
THEOREM ReadyItemsServedOnce == Spec => []ReadyItemsOnceInReverse
<1>1. IInv => ReadyItemsOnceInReverse
  <2> SUFFICES ASSUME IInv, NEW j \in 1 .. Len(frames)
               PROVE  Kept(frames[j], IF InCallback(j) THEN frames[j].next
                                      ELSE frames[j].next - 1)
    BY DEF ReadyItemsOnceInReverse, Kept
  <2>1. Shape(frames[j], CalledIn(at, j))
    BY DEF IInv, Ran
  <2>2. CalledIn(at, j) <=> InCallback(j)
    BY DEF CalledIn, InCallback
  <2>3. QED
    BY <2>1, <2>2 DEF Shape
<1>2. QED
  BY <1>1, Invariance, PTL

\* With assertions in the build, an event that poll() is still to report is out
\* of date only if a callback has used or replaced that socket since zmq_poll
\* saw it (Poller::poll, PollItem::getRawSocket).
THEOREM StaleByUseOnly ==
  ASSUME ~NDEBUG
  PROVE  Spec => []StaleOnlyIfUsed
<1>1. IInv => StaleOnlyIfUsed
  <2> SUFFICES ASSUME IInv, NEW j \in 1 .. Len(frames),
                      NEW i \in frames[j].next .. N, NEW e \in frames[j].revents[i]
               PROVE  \/ Ready(ItemAt(i).socket, e)
                      \/ ItemAt(i).socket \in frames[j].used[e]
    BY DEF StaleOnlyIfUsed
  <2>1. FreshIn(inbox, outbox, gone, frames[j])
    BY DEF IInv, Asserted
  <2>2. \/ ReadyIn(inbox, outbox, gone, ItemAt(i).socket, e)
        \/ ItemAt(i).socket \in frames[j].used[e]
    BY <2>1 DEF FreshIn
  <2>3. QED
    BY <2>2 DEF Ready, ReadyIn
<1>2. QED
  BY <1>1, Invariance, PTL
=============================================================================
