------------------------ MODULE MessageHandles_proofs ------------------------
(***************************************************************************)
(* Proofs about MessageHandles, for any finite numbers of messages, any    *)
(* capacity of the pipes and any number of contents.                       *)
(*                                                                         *)
(* CountsExact is about the size of two sets, which a step changes by at   *)
(* most an element or two: the lemmas of the first part say by how much.   *)
(* For it to be inductive no reference may go to a content that is yet to  *)
(* be allocated (Allocated), and a message that a receive() waits for must *)
(* have given its content back (Reset).                                    *)
(***************************************************************************)
EXTENDS MessageHandles, FiniteSetTheorems, FunctionTheorems, SequenceTheorems,
        TLAPS

Cells == Messages \cup {"copy"}

\* Nothing refers to a content that has not been allocated yet.
Allocated ==
  /\ \A t \in Threads : \A m \in Cells : handle[t][m] <= Len(refs)
  /\ \A t \in Threads : \A i \in 1 .. Len(pipe[t]) : pipe[t][i] <= Len(refs)

\* A thread in receive() waits for one message, which is empty.
Reset ==
  \A t \in Threads :
    at[t] = "receive" =>
      \E m \in Incoming : into[t] = {m} /\ handle[t][m] = Empty

IInv == TypeOK /\ Allocated /\ Reset /\ CountsExact
----------------------------------------------------------------------------
(* Counting references.                                                    *)

\* Holders and Frames, of any handles and pipes.
HoldersIn(F, c) == {p \in Threads \X Cells : F[p[1]][p[2]] = c}
FramesIn(P, c) ==
  {p \in Threads \X (1 .. Capacity) :
     p[2] <= Len(P[p[1]]) /\ P[p[1]][p[2]] = c}

Same(x, c) == IF x = c THEN 1 ELSE 0

LEMMA FiniteParts ==
  ASSUME NEW F, NEW P, NEW c
  PROVE  /\ IsFiniteSet(HoldersIn(F, c)) /\ Cardinality(HoldersIn(F, c)) \in Nat
         /\ IsFiniteSet(FramesIn(P, c)) /\ Cardinality(FramesIn(P, c)) \in Nat
<1>1. IsFiniteSet(Threads) /\ IsFiniteSet(1 .. Capacity)
  BY HandlesAssumption, FS_Interval
<1>2. IsFiniteSet(Cells)
  BY HandlesAssumption, FS_Union, FS_Singleton DEF Cells, Messages
<1>3. IsFiniteSet(Threads \X Cells) /\ IsFiniteSet(Threads \X (1 .. Capacity))
  BY <1>1, <1>2, FS_Product
<1>4. /\ HoldersIn(F, c) \in SUBSET (Threads \X Cells)
      /\ FramesIn(P, c) \in SUBSET (Threads \X (1 .. Capacity))
  BY DEF HoldersIn, FramesIn
<1>5. IsFiniteSet(HoldersIn(F, c)) /\ IsFiniteSet(FramesIn(P, c))
  BY <1>3, <1>4, FS_Subset
<1>6. QED
  BY <1>5, FS_CardinalityType

\* One element more, or one less, or the same.
LEMMA CountChange ==
  ASSUME NEW S, NEW T, NEW x, IsFiniteSet(S), IsFiniteSet(T),
         S \ {x} = T \ {x}
  PROVE  Cardinality(T) = Cardinality(S) - (IF x \in S THEN 1 ELSE 0) + (IF x \in T THEN 1 ELSE 0)
<1>1. /\ Cardinality(S) \in Nat /\ Cardinality(T) \in Nat
      /\ Cardinality(S \ {x}) \in Nat
  BY FS_CardinalityType, FS_RemoveElement
<1>2. /\ x \in S => Cardinality(S \ {x}) = Cardinality(S) - 1
      /\ x \notin S => Cardinality(S \ {x}) = Cardinality(S)
  BY FS_RemoveElement
<1>3. /\ x \in T => Cardinality(T \ {x}) = Cardinality(T) - 1
      /\ x \notin T => Cardinality(T \ {x}) = Cardinality(T)
  BY FS_RemoveElement
<1>4. Cardinality(S \ {x}) = Cardinality(T \ {x})
  OBVIOUS
<1> DEFINE n == Cardinality(S \ {x})
<1>5. /\ n \in Nat
      /\ Cardinality(S) = IF x \in S THEN n + 1 ELSE n
      /\ Cardinality(T) = IF x \in T THEN n + 1 ELSE n
  BY <1>1, <1>2, <1>3, <1>4
<1> HIDE DEF n
<1>6. QED
  BY <1>5 DEF Same

\* The handles F and G differ in that the message m of t refers to x in G.
CellSet(F, G, t, m, x) ==
  \A u \in Threads : \A n \in Cells :
    G[u][n] = IF u = t /\ n = m THEN x ELSE F[u][n]

\* A handle is given another value.
LEMMA HandleSet ==
  ASSUME NEW F, NEW G, NEW t \in Threads, NEW m \in Cells, NEW x, NEW c,
         CellSet(F, G, t, m, x)
  PROVE  Cardinality(HoldersIn(G, c))
           = Cardinality(HoldersIn(F, c)) - Same(F[t][m], c) + Same(x, c)
<1>1. <<t, m>> \in Threads \X Cells
  OBVIOUS
<1>2. /\ (<<t, m>> \in HoldersIn(F, c)) <=> F[t][m] = c
      /\ (<<t, m>> \in HoldersIn(G, c)) <=> x = c
  BY <1>1 DEF HoldersIn, CellSet
<1>3. \A p \in Threads \X Cells :
        p # <<t, m>> => G[p[1]][p[2]] = F[p[1]][p[2]]
  BY DEF CellSet
<1>4. HoldersIn(F, c) \ {<<t, m>>} = HoldersIn(G, c) \ {<<t, m>>}
  BY <1>3 DEF HoldersIn
<1>5. Cardinality(HoldersIn(G, c))
        = Cardinality(HoldersIn(F, c)) - (IF <<t, m>> \in HoldersIn(F, c) THEN 1 ELSE 0)
                                       + (IF <<t, m>> \in HoldersIn(G, c) THEN 1 ELSE 0)
  <2>1. IsFiniteSet(HoldersIn(F, c)) /\ IsFiniteSet(HoldersIn(G, c))
    BY FiniteParts
  <2>2. QED
    BY <1>4, <2>1, CountChange
<1>6. QED
  BY <1>2, <1>5 DEF Same

\* The pipes Q are P with the frame x added on its way to t.
Lengthened(P, Q, t, x) == Q = [P EXCEPT ![t] = Append(P[t], x)]

\* A frame is added to a pipe that has room.
LEMMA FrameAdded ==
  ASSUME NEW P \in [Threads -> Seq(Empty .. MaxContents)],
         NEW t \in Threads, NEW x \in Empty .. MaxContents, NEW c,
         Len(P[t]) < Capacity,
         NEW Q, Lengthened(P, Q, t, x)
  PROVE  Cardinality(FramesIn(Q, c)) = Cardinality(FramesIn(P, c)) + Same(x, c)
<1> DEFINE last == Len(P[t]) + 1
<1>1. /\ Q[t] = Append(P[t], x)
      /\ \A u \in Threads \ {t} : Q[u] = P[u]
  BY DEF Lengthened
<1>2. /\ Len(P[t]) \in Nat
      /\ Len(Q[t]) = last /\ Q[t][last] = x
      /\ \A i \in 1 .. Len(P[t]) : Q[t][i] = P[t][i]
  BY <1>1, AppendProperties, LenProperties
<1>3. last \in 1 .. Capacity /\ <<t, last>> \in Threads \X (1 .. Capacity)
  BY <1>2, HandlesAssumption
<1>4. /\ <<t, last>> \notin FramesIn(P, c)
      /\ (<<t, last>> \in FramesIn(Q, c)) <=> x = c
  BY <1>2, <1>3 DEF FramesIn
<1>5. \A p \in Threads \X (1 .. Capacity) :
        p # <<t, last>> =>
          /\ p[2] <= Len(Q[p[1]]) <=> p[2] <= Len(P[p[1]])
          /\ p[2] <= Len(P[p[1]]) => Q[p[1]][p[2]] = P[p[1]][p[2]]
  BY <1>1, <1>2
<1>6. FramesIn(P, c) \ {<<t, last>>} = FramesIn(Q, c) \ {<<t, last>>}
  BY <1>5 DEF FramesIn
<1>7. Cardinality(FramesIn(Q, c))
        = Cardinality(FramesIn(P, c)) - (IF <<t, last>> \in FramesIn(P, c) THEN 1 ELSE 0)
                                      + (IF <<t, last>> \in FramesIn(Q, c) THEN 1 ELSE 0)
  <2>1. IsFiniteSet(FramesIn(P, c)) /\ IsFiniteSet(FramesIn(Q, c))
    BY FiniteParts
  <2> HIDE DEF last
  <2>2. QED
    BY <1>6, <2>1, CountChange
<1>8. Cardinality(FramesIn(P, c)) \in Nat
  BY FiniteParts
<1>9. QED
  BY <1>4, <1>7, <1>8 DEF Same

\* The pipes Q are P without the first frame on its way to t.
Shortened(P, Q, t) == Q = [P EXCEPT ![t] = Tail(P[t])]

\* The first frame is taken from a pipe: the others move up.
LEMMA FrameTaken ==
  ASSUME NEW P \in [Threads -> Seq(Empty .. MaxContents)],
         \A u \in Threads : Len(P[u]) <= Capacity,
         NEW t \in Threads, NEW c, P[t] # <<>>,
         NEW Q, Shortened(P, Q, t)
  PROVE  Cardinality(FramesIn(Q, c))
           = Cardinality(FramesIn(P, c)) - Same(Head(P[t]), c)
<1> DEFINE S == FramesIn(P, c) \ {<<t, 1>>}
           T == FramesIn(Q, c)
           move == [p \in T |-> IF p[1] = t THEN <<t, p[2] + 1>> ELSE p]
<1>1. /\ Q[t] = Tail(P[t])
      /\ \A u \in Threads \ {t} : Q[u] = P[u]
  BY DEF Shortened
<1>2. /\ Len(P[t]) \in Nat \ {0} /\ Len(P[t]) <= Capacity
      /\ Head(P[t]) = P[t][1]
      /\ Len(Q[t]) = Len(P[t]) - 1
      /\ \A i \in 1 .. Len(Q[t]) : Q[t][i] = P[t][i + 1]
  BY <1>1, HeadTailProperties, EmptySeq
<1>3. ASSUME NEW p \in T
      PROVE  /\ p \in Threads \X (1 .. Capacity)
             /\ p = <<p[1], p[2]>>
             /\ p[1] = t => move[p] = <<t, p[2] + 1>>
             /\ p[1] # t => move[p] = p
             /\ move[p] \in S
  <2>1. /\ p \in Threads \X (1 .. Capacity) /\ p = <<p[1], p[2]>>
        /\ p[1] \in Threads /\ p[2] \in 1 .. Capacity
        /\ p[2] <= Len(Q[p[1]]) /\ Q[p[1]][p[2]] = c
    BY DEF FramesIn
  <2>2. /\ p[1] = t => move[p] = <<t, p[2] + 1>>
        /\ p[1] # t => move[p] = p
    OBVIOUS
  <2>3. CASE p[1] = t
    <3>1. /\ p[2] \in 1 .. Len(Q[t]) /\ p[2] + 1 <= Len(P[t])
          /\ p[2] + 1 \in 1 .. Capacity /\ p[2] + 1 # 1
          /\ P[t][p[2] + 1] = c
      BY <1>2, <2>1, <2>3, HandlesAssumption
    <3>2. <<t, p[2] + 1>> \in FramesIn(P, c) /\ <<t, p[2] + 1>> # <<t, 1>>
      BY <3>1 DEF FramesIn
    <3>3. QED
      BY <2>1, <2>2, <2>3, <3>2
  <2>4. CASE p[1] # t
    <3>1. p \in FramesIn(P, c) /\ p # <<t, 1>>
      BY <1>1, <2>1, <2>4 DEF FramesIn
    <3>2. QED
      BY <2>1, <2>2, <2>4, <3>1
  <2>5. QED
    BY <2>3, <2>4
<1>4. ASSUME NEW p \in T, NEW q \in T, move[p] = move[q]
      PROVE  p = q
  <2>1. /\ p \in Threads \X (1 .. Capacity) /\ q \in Threads \X (1 .. Capacity)
    BY <1>3
  <2> HIDE DEF move, T
  <2>2. CASE p[1] = t /\ q[1] = t
    <3>1. <<t, p[2] + 1>> = <<t, q[2] + 1>>
      BY <1>3, <1>4, <2>2
    <3>2. p[2] + 1 = q[2] + 1
      BY <3>1
    <3>3. QED
      BY <2>1, <2>2, <3>2
  <2>3. CASE p[1] # t /\ q[1] # t
    BY <1>3, <1>4, <2>3
  <2>4. CASE p[1] = t /\ q[1] # t
    <3>1. <<t, p[2] + 1>> = q
      BY <1>3, <1>4, <2>4
    <3>2. QED
      BY <2>4, <3>1
  <2>5. CASE p[1] # t /\ q[1] = t
    <3>1. p = <<t, q[2] + 1>>
      BY <1>3, <1>4, <2>5
    <3>2. QED
      BY <2>5, <3>1
  <2>6. QED
    BY <2>2, <2>3, <2>4, <2>5
<1>5. ASSUME NEW q \in S
      PROVE  \E p \in T : move[p] = q
  <2>1. /\ q = <<q[1], q[2]>> /\ q # <<t, 1>>
        /\ q[1] \in Threads /\ q[2] \in 1 .. Capacity
        /\ q[2] <= Len(P[q[1]]) /\ P[q[1]][q[2]] = c
    BY DEF FramesIn
  <2>2. CASE q[1] = t
    <3> DEFINE p == <<t, q[2] - 1>>
    <3>1. /\ q[2] # 1 /\ q[2] - 1 \in 1 .. Len(Q[t]) /\ q[2] - 1 \in 1 .. Capacity
          /\ (q[2] - 1) + 1 = q[2]
      BY <1>2, <2>1, <2>2, HandlesAssumption
    <3>2. Q[t][q[2] - 1] = c
      BY <1>2, <2>1, <2>2, <3>1
    <3>3. p \in T
      BY <3>1, <3>2 DEF FramesIn
    <3>4. move[p] = <<t, (q[2] - 1) + 1>>
      BY <1>3, <3>3
    <3>5. QED
      BY <2>1, <2>2, <3>1, <3>3, <3>4
  <2>3. CASE q[1] # t
    <3>1. q \in T
      BY <1>1, <2>1, <2>3 DEF FramesIn
    <3>2. QED
      BY <1>3, <2>3, <3>1
  <2>4. QED
    BY <2>2, <2>3
<1>6. move \in Bijection(T, S)
  <2>1. move \in [T -> S]
    BY <1>3
  <2> HIDE DEF move, T, S
  <2>2. QED
    BY <1>4, <1>5, <2>1, Fun_IsBij
<1>7. Cardinality(S) = Cardinality(T)
  <2>1. ExistsBijection(T, S)
    BY <1>6, Fun_ExistsBij
  <2>2. IsFiniteSet(T)
    BY FiniteParts
  <2> HIDE DEF S, T
  <2>3. QED
    BY <2>1, <2>2, FS_Bijection
<1>8. (<<t, 1>> \in FramesIn(P, c)) <=> Head(P[t]) = c
  <2>1. 1 \in 1 .. Capacity /\ 1 <= Len(P[t])
    BY <1>2, HandlesAssumption
  <2>2. QED
    BY <1>2, <2>1 DEF FramesIn
<1>9. Cardinality(S) = Cardinality(FramesIn(P, c)) - Same(Head(P[t]), c)
  <2>1. IsFiniteSet(FramesIn(P, c)) /\ Cardinality(FramesIn(P, c)) \in Nat
    BY FiniteParts
  <2>2. CASE Head(P[t]) = c
    BY <1>8, <2>1, <2>2, FS_RemoveElement DEF Same
  <2>3. CASE Head(P[t]) # c
    <3>1. S = FramesIn(P, c)
      BY <1>8, <2>3
    <3> HIDE DEF S
    <3>2. QED
      BY <2>1, <2>3, <3>1 DEF Same
  <2>4. QED
    BY <2>2, <2>3
<1>10. QED
  BY <1>7, <1>9
----------------------------------------------------------------------------
(* Steps.                                                                  *)

LEMMA OtherThread ==
  ASSUME NEW t \in Threads
  PROVE  Other(t) \in Threads /\ Other(t) # t
<1>1. \E u \in Threads : u # t
  <2>1. ASSUME \A u \in Threads : u = t
        PROVE  FALSE
    <3>1. Threads = {t}
      BY <2>1
    <3>2. Cardinality({t}) = 1
      BY FS_Singleton
    <3>3. QED
      BY <3>1, <3>2, HandlesAssumption
  <2>2. QED
    BY <2>1
<1>2. QED
  BY <1>1 DEF Other

\* The counts are those of the sets, and a content that is referred to has one.
LEMMA CountsAre ==
  ASSUME TypeOK, CountsExact
  PROVE  /\ \A c : /\ Cardinality(Holders(c)) \in Nat
                  /\ Cardinality(Frames(c)) \in Nat
                  /\ Holders(c) = HoldersIn(handle, c)
                  /\ Frames(c) = FramesIn(pipe, c)
         /\ \A c \in 1 .. Len(refs) :
              /\ refs[c] = Cardinality(Holders(c)) + Cardinality(Frames(c))
              /\ \A t \in Threads : \A m \in Cells : handle[t][m] = c => refs[c] > 0
              /\ \A t \in Threads : \A i \in 1 .. Len(pipe[t]) :
                   pipe[t][i] = c => refs[c] > 0
<1>1. \A c : Holders(c) = HoldersIn(handle, c) /\ Frames(c) = FramesIn(pipe, c)
  BY DEF Holders, HoldersIn, Frames, FramesIn, Cells
<1>2. \A c : /\ IsFiniteSet(Holders(c)) /\ Cardinality(Holders(c)) \in Nat
             /\ IsFiniteSet(Frames(c)) /\ Cardinality(Frames(c)) \in Nat
  BY <1>1, FiniteParts
<1>3. ASSUME NEW c \in 1 .. Len(refs)
      PROVE  refs[c] = Cardinality(Holders(c)) + Cardinality(Frames(c))
  BY DEF CountsExact
<1>4. ASSUME NEW c \in 1 .. Len(refs), NEW t \in Threads, NEW m \in Cells,
             handle[t][m] = c
      PROVE  refs[c] > 0
  <2>1. <<t, m>> \in Holders(c)
    BY <1>4 DEF Holders, Cells
  <2>2. Cardinality(Holders(c)) # 0
    BY <1>2, <2>1, FS_EmptySet
  <2>3. QED
    BY <1>2, <1>3, <2>2
<1>5. ASSUME NEW c \in 1 .. Len(refs), NEW t \in Threads,
             NEW i \in 1 .. Len(pipe[t]), pipe[t][i] = c
      PROVE  refs[c] > 0
  <2>1. Len(pipe[t]) \in Nat /\ Len(pipe[t]) <= Capacity /\ Capacity \in Nat
    BY LenProperties, HandlesAssumption DEF TypeOK
  <2>2. <<t, i>> \in Threads \X (1 .. Capacity)
    BY <2>1
  <2>3. <<t, i>> \in Frames(c)
    BY <1>5, <2>1, <2>2 DEF Frames
  <2>4. Cardinality(Frames(c)) # 0
    BY <1>2, <2>3, FS_EmptySet
  <2>5. QED
    BY <1>2, <1>3, <2>4
<1>6. QED
  BY <1>1, <1>2, <1>3, <1>4, <1>5

\* One more reference is made.
LEMMA RefShared ==
  ASSUME TypeOK, NEW h \in Empty .. Len(refs)
  PROVE  /\ Share(h) \in Seq(Nat) /\ Len(Share(h)) = Len(refs)
         /\ \A c \in 1 .. Len(refs) : Share(h)[c] = refs[c] + Same(h, c)
<1>1. /\ refs \in Seq(Nat) /\ Len(refs) \in Nat
      /\ \A c \in 1 .. Len(refs) : refs[c] \in Nat
  BY LenProperties, ElementOfSeq DEF TypeOK
<1>2. CASE h = Empty
  BY <1>1, <1>2 DEF Share, Empty, Same
<1>3. CASE h > 0
  <2>1. /\ h \in 1 .. Len(refs) /\ refs[h] + 1 \in Nat
        /\ Share(h) = [refs EXCEPT ![h] = refs[h] + 1]
    BY <1>1, <1>3 DEF Empty, Share
  <2>2. /\ Share(h) \in Seq(Nat) /\ Len(Share(h)) = Len(refs)
        /\ \A c \in 1 .. Len(refs) :
             Share(h)[c] = IF c = h THEN refs[h] + 1 ELSE refs[c]
    BY <1>1, <2>1, ExceptSeq
  <2>3. QED
    BY <1>1, <2>2 DEF Same
<1>4. QED
  BY <1>1, <1>2, <1>3 DEF Empty

\* A reference is given back that there is.
LEMMA RefClosed ==
  ASSUME TypeOK, NEW h \in Empty .. Len(refs), h > 0 => refs[h] > 0
  PROVE  /\ Close(h) \in Seq(Nat) /\ Len(Close(h)) = Len(refs)
         /\ \A c \in 1 .. Len(refs) : Close(h)[c] = refs[c] - Same(h, c)
<1>1. /\ refs \in Seq(Nat) /\ Len(refs) \in Nat
      /\ \A c \in 1 .. Len(refs) : refs[c] \in Nat
  BY LenProperties, ElementOfSeq DEF TypeOK
<1>2. CASE h = Empty
  BY <1>1, <1>2 DEF Close, Empty, Same
<1>3. CASE h > 0
  <2>1. /\ h \in 1 .. Len(refs) /\ refs[h] - 1 \in Nat
        /\ Close(h) = [refs EXCEPT ![h] = refs[h] - 1]
    BY <1>1, <1>3 DEF Empty, Close
  <2>2. /\ Close(h) \in Seq(Nat) /\ Len(Close(h)) = Len(refs)
        /\ \A c \in 1 .. Len(refs) :
             Close(h)[c] = IF c = h THEN refs[h] - 1 ELSE refs[c]
    BY <1>1, <2>1, ExceptSeq
  <2>3. QED
    BY <1>1, <2>2 DEF Same
<1>4. QED
  BY <1>1, <1>2, <1>3 DEF Empty

\* The conjuncts of the invariant that are about the handles and the pipes.
LEMMA TypesAre ==
  ASSUME TypeOK
  PROVE  /\ handle \in [Threads -> [Cells -> Handles]]
         /\ pipe \in [Threads -> Seq(Empty .. MaxContents)]
         /\ Len(refs) \in Nat /\ Len(refs) <= MaxContents /\ MaxContents \in Nat
         /\ \A t \in Threads : \A i \in 1 .. Len(pipe[t]) :
              pipe[t][i] \in Empty .. MaxContents
         /\ \A m \in Messages : m \in Cells /\ m # "copy"
         /\ "copy" \in Cells
<1>1. Len(refs) \in Nat
  BY LenProperties DEF TypeOK
<1>2. \A t \in Threads : \A i \in 1 .. Len(pipe[t]) :
        pipe[t][i] \in Empty .. MaxContents
  BY ElementOfSeq DEF TypeOK
<1>3. QED
  BY <1>1, <1>2, HandlesAssumption DEF TypeOK, Cells, Messages

\* A step that gives one handle another value, which may take a reference to a
\* content or give one back, and changes no pipe.
LEMMA HandleStep ==
  ASSUME IInv, NEW t \in Threads, NEW m \in Cells, NEW x \in Handles,
         x <= Len(refs'),
         handle' = [handle EXCEPT ![t][m] = x],
         UNCHANGED pipe,
         refs' \in Seq(Nat), Len(refs') = Len(refs),
         \A c \in 1 .. Len(refs) :
           refs'[c] = refs[c] - Same(handle[t][m], c) + Same(x, c)
  PROVE  Allocated' /\ CountsExact'
<1>1. /\ TypeOK /\ Allocated /\ CountsExact
      /\ handle \in [Threads -> [Cells -> Handles]]
  BY TypesAre DEF IInv
<1>2. Allocated'
  BY <1>1 DEF Allocated
<1>3. CountsExact'
  <2> SUFFICES ASSUME NEW c \in 1 .. Len(refs)
               PROVE  refs'[c] = Cardinality(Holders(c)') + Cardinality(Frames(c)')
    BY DEF CountsExact
  <2>1. /\ refs[c] = Cardinality(Holders(c)) + Cardinality(Frames(c))
        /\ Cardinality(Holders(c)) \in Nat /\ Cardinality(Frames(c)) \in Nat
        /\ Holders(c) = HoldersIn(handle, c)
    BY <1>1, CountsAre
  <2>2. Holders(c)' = HoldersIn(handle', c) /\ Frames(c)' = Frames(c)
    BY DEF Holders, HoldersIn, Frames, Cells
  <2>3. Cardinality(HoldersIn(handle', c))
          = Cardinality(Holders(c)) - Same(handle[t][m], c) + Same(x, c)
    <3>1. CellSet(handle, handle', t, m, x)
      BY <1>1 DEF CellSet
    <3>2. Cardinality(HoldersIn(handle', c))
            = Cardinality(HoldersIn(handle, c)) - Same(handle[t][m], c) + Same(x, c)
      BY <3>1, HandleSet
    <3>3. QED
      BY <2>1, <3>2
  <2>4. refs'[c] = refs[c] - Same(handle[t][m], c) + Same(x, c)
    OBVIOUS
  <2>5. QED
    BY <2>1, <2>2, <2>3, <2>4 DEF Same
<1>4. QED
  BY <1>2, <1>3

\* A step that gives two handles of a thread other values, such that what was
\* referred to still is.
LEMMA TwoHandlesStep ==
  ASSUME IInv, NEW t \in Threads, NEW m \in Cells, NEW n \in Cells, m # n,
         NEW x \in Handles, NEW y \in Handles, x <= Len(refs), y <= Len(refs),
         handle' = [handle EXCEPT ![t][m] = x, ![t][n] = y],
         UNCHANGED <<pipe, refs>>,
         \A c \in 1 .. Len(refs) :
           Same(x, c) + Same(y, c) = Same(handle[t][m], c) + Same(handle[t][n], c)
  PROVE  Allocated' /\ CountsExact'
<1> DEFINE F == [handle EXCEPT ![t][m] = x]
<1>1. /\ TypeOK /\ Allocated /\ CountsExact
      /\ handle \in [Threads -> [Cells -> Handles]]
  BY TypesAre DEF IInv
<1>2. \A u \in Threads : \A k \in Cells :
        handle'[u][k] = IF u = t /\ k = n THEN y
                        ELSE IF u = t /\ k = m THEN x ELSE handle[u][k]
  BY <1>1
<1>3. CellSet(handle, F, t, m, x) /\ CellSet(F, handle', t, n, y)
  BY <1>1, <1>2 DEF CellSet
<1>4. F[t][n] = handle[t][n]
  BY <1>1
<1> HIDE DEF F
<1>5. Allocated'
  BY <1>1, <1>2 DEF Allocated
<1>6. CountsExact'
  <2> SUFFICES ASSUME NEW c \in 1 .. Len(refs)
               PROVE  refs[c] = Cardinality(Holders(c)') + Cardinality(Frames(c)')
    BY DEF CountsExact
  <2>1. /\ refs[c] = Cardinality(Holders(c)) + Cardinality(Frames(c))
        /\ Cardinality(Holders(c)) \in Nat /\ Cardinality(Frames(c)) \in Nat
        /\ Holders(c) = HoldersIn(handle, c)
    BY <1>1, CountsAre
  <2>2. Holders(c)' = HoldersIn(handle', c) /\ Frames(c)' = Frames(c)
    BY DEF Holders, HoldersIn, Frames, Cells
  <2>3. Cardinality(HoldersIn(F, c))
          = Cardinality(HoldersIn(handle, c)) - Same(handle[t][m], c) + Same(x, c)
    BY <1>3, HandleSet
  <2>4. Cardinality(HoldersIn(handle', c))
          = Cardinality(HoldersIn(F, c)) - Same(F[t][n], c) + Same(y, c)
    BY <1>3, HandleSet
  <2>5. Same(x, c) + Same(y, c) = Same(handle[t][m], c) + Same(handle[t][n], c)
    OBVIOUS
  <2>6. Cardinality(Holders(c)') = Cardinality(Holders(c))
    BY <1>4, <2>1, <2>2, <2>3, <2>4, <2>5 DEF Same
  <2>7. QED
    BY <2>1, <2>2, <2>6
<1>7. QED
  BY <1>5, <1>6

\* TypeOK after a step that leaves the pipes alone; what a thread refers to and
\* where it is change together.
LEMMA TypesAfter ==
  ASSUME IInv, NEW t \in Threads, NEW m \in Cells, NEW x \in Handles,
         NEW a \in {"app", "send", "receive"},
         handle' = [handle EXCEPT ![t][m] = x], at' = [at EXCEPT ![t] = a],
         into' \in [Threads -> SUBSET Incoming], UNCHANGED pipe,
         refs' \in Seq(Nat), Len(refs') <= MaxContents,
         IF m = "copy" THEN a = "send" <=> x # NoObject
                       ELSE a = "send" <=> at[t] = "send"
  PROVE  TypeOK'
<1>1. /\ TypeOK /\ handle \in [Threads -> [Cells -> Handles]] /\ "copy" \in Cells
  BY TypesAre DEF IInv
<1>2. /\ handle' \in [Threads -> [Cells -> Handles]]
      /\ \A u \in Threads : \A k \in Cells :
           handle'[u][k] = IF u = t /\ k = m THEN x ELSE handle[u][k]
  BY <1>1
<1>3. /\ at' \in [Threads -> {"app", "send", "receive"}]
      /\ \A u \in Threads : at'[u] = IF u = t THEN a ELSE at[u]
  BY <1>1 DEF TypeOK
<1>4. ASSUME NEW u \in Threads
      PROVE  at'[u] = "send" <=> handle'[u]["copy"] # NoObject
  <2>1. at[u] = "send" <=> handle[u]["copy"] # NoObject
    BY <1>1 DEF TypeOK, Exists
  <2>2. CASE u = t /\ m = "copy"
    BY <1>1, <1>2, <1>3, <2>2
  <2>3. CASE ~(u = t /\ m = "copy")
    <3>1. handle'[u]["copy"] = handle[u]["copy"]
      BY <1>1, <1>2, <2>3
    <3>2. at'[u] = "send" <=> at[u] = "send"
      BY <1>3, <2>3
    <3>3. QED
      BY <2>1, <3>1, <3>2
  <2>4. QED
    BY <2>2, <2>3
<1>5. QED
  BY <1>1, <1>2, <1>3, <1>4 DEF TypeOK, Exists, Cells

\* The threads that are in receive() after a step were there before, and have
\* the same messages.
LEMMA SameReset ==
  ASSUME Reset,
         \A u \in Threads :
           at'[u] = "receive" =>
             at[u] = "receive" /\ into'[u] = into[u] /\ handle'[u] = handle[u]
  PROVE  Reset'
BY DEF Reset

LEMMA ConstructStep ==
  ASSUME IInv, NEW t \in Threads, NEW m \in Messages, Construct(t, m)
  PROVE  IInv'
<1>1. /\ TypeOK /\ Allocated /\ Reset /\ m \in Cells /\ m # "copy"
      /\ handle[t][m] = NoObject /\ at[t] = "app"
      /\ handle' = [handle EXCEPT ![t][m] = Empty]
      /\ UNCHANGED <<at, into, pipe, refs>>
      /\ Empty \in Handles /\ Len(refs) \in Nat
  BY TypesAre, HandlesAssumption
  DEF IInv, Construct, Idle, Exists, Handles, NoObject, Empty
<1>2. Allocated' /\ CountsExact'
  <2>1. \A c \in 1 .. Len(refs) :
          refs[c] = refs[c] - Same(handle[t][m], c) + Same(Empty, c)
    <3>1. \A c \in 1 .. Len(refs) : refs[c] \in Nat
      BY <1>1, ElementOfSeq DEF TypeOK
    <3>2. QED
      BY <1>1, <3>1 DEF Same, NoObject, Empty
  <2>2. Empty <= Len(refs')
    BY <1>1 DEF Empty
  <2>3. QED
    BY <1>1, <2>1, <2>2, HandleStep DEF TypeOK
<1>3. TypeOK'
  <2>1. at' = [at EXCEPT ![t] = "app"]
    BY <1>1 DEF TypeOK
  <2>2. QED
    BY <1>1, <2>1, TypesAfter DEF TypeOK
<1>4. Reset'
  BY <1>1, SameReset DEF TypeOK
<1>5. QED
  BY <1>2, <1>3, <1>4 DEF IInv

LEMMA ConstructFromStep ==
  ASSUME IInv, NEW t \in Threads, NEW m \in Messages, ConstructFrom(t, m)
  PROVE  IInv'
<1> DEFINE new == Len(refs) + 1
<1>1. /\ TypeOK /\ Allocated /\ Reset /\ CountsExact /\ m \in Cells /\ m # "copy"
      /\ handle \in [Threads -> [Cells -> Handles]]
      /\ handle[t][m] = NoObject /\ at[t] = "app"
      /\ Len(refs) \in Nat /\ Len(refs) < MaxContents /\ MaxContents \in Nat
      /\ refs \in Seq(Nat)
      /\ refs' = Append(refs, 1)
      /\ UNCHANGED <<at, into, pipe>>
  BY TypesAre DEF IInv, ConstructFrom, Idle, Exists, TypeOK
<1>2. /\ refs' \in Seq(Nat) /\ Len(refs') = new /\ refs'[new] = 1
      /\ \A c \in 1 .. Len(refs) : refs'[c] = refs[c]
  BY <1>1, AppendProperties
<1>3. /\ handle' = [handle EXCEPT ![t][m] = new] /\ new \in Handles
  BY <1>1, <1>2 DEF ConstructFrom, Handles, NoObject
<1>4. \A u \in Threads : \A k \in Cells :
        handle'[u][k] = IF u = t /\ k = m THEN new ELSE handle[u][k]
  BY <1>1, <1>3
<1>5. TypeOK'
  <2>1. at' = [at EXCEPT ![t] = "app"]
    BY <1>1 DEF TypeOK
  <2>2. Len(refs') <= MaxContents
    BY <1>1, <1>2
  <2>3. QED
    BY <1>1, <1>2, <1>3, <2>1, <2>2, TypesAfter DEF TypeOK
<1>6. Allocated'
  <2>1. ASSUME NEW u \in Threads, NEW i \in 1 .. Len(pipe'[u])
        PROVE  pipe'[u][i] <= Len(refs')
    <3>1. pipe[u][i] \in Int /\ pipe[u][i] <= Len(refs) /\ pipe'[u] = pipe[u]
      BY <1>1, TypesAre DEF Empty, Allocated
    <3>2. QED
      BY <1>1, <1>2, <3>1
  <2>2. ASSUME NEW u \in Threads, NEW k \in Cells
        PROVE  handle'[u][k] <= Len(refs')
    <3>1. handle[u][k] \in Int /\ handle[u][k] <= Len(refs)
      BY <1>1 DEF Handles, NoObject, Allocated
    <3>2. QED
      BY <1>1, <1>2, <1>4, <3>1
  <2>3. QED
    BY <2>1, <2>2 DEF Allocated
<1>7. Reset'
  BY <1>1, <1>3, SameReset DEF TypeOK
<1>8. ASSUME NEW c \in 1 .. Len(refs')
      PROVE  refs'[c] = Cardinality(Holders(c)') + Cardinality(Frames(c)')
  <2>1. /\ Cardinality(Holders(c)) \in Nat /\ Cardinality(Frames(c)) \in Nat
        /\ Holders(c) = HoldersIn(handle, c)
        /\ c \in 1 .. Len(refs) =>
             refs[c] = Cardinality(Holders(c)) + Cardinality(Frames(c))
    BY <1>1, CountsAre
  <2>2. Holders(c)' = HoldersIn(handle', c) /\ Frames(c)' = Frames(c)
    BY <1>1 DEF Holders, HoldersIn, Frames, Cells
  <2>3. Cardinality(HoldersIn(handle', c))
          = Cardinality(Holders(c)) - Same(handle[t][m], c) + Same(new, c)
    <3>1. CellSet(handle, handle', t, m, new)
      BY <1>4 DEF CellSet
    <3> HIDE DEF new
    <3>2. QED
      BY <1>1, <2>1, <3>1, HandleSet
  <2>4. Same(handle[t][m], c) = 0
    BY <1>1 DEF Same, NoObject
  <2>5. CASE c \in 1 .. Len(refs)
    BY <1>1, <1>2, <2>1, <2>2, <2>3, <2>4, <2>5 DEF Same
\* Nothing has referred to the new content before.
  <2>6. CASE c = new
    <3>1. Holders(c) = {}
      BY <1>1, <2>6 DEF Holders, Allocated, Cells, Handles, NoObject
    <3>2. Frames(c) = {}
      <4> SUFFICES ASSUME NEW p \in Frames(c)
                   PROVE  FALSE
        OBVIOUS
      <4>1. /\ p[1] \in Threads /\ p[2] \in 1 .. Capacity
            /\ p[2] <= Len(pipe[p[1]]) /\ pipe[p[1]][p[2]] = c
        BY DEF Frames
      <4>2. Len(pipe[p[1]]) \in Nat /\ Capacity \in Nat
        BY <1>1, <4>1, LenProperties, HandlesAssumption DEF TypeOK
      <4>3. p[2] \in 1 .. Len(pipe[p[1]])
        BY <4>1, <4>2
      <4>4. pipe[p[1]][p[2]] <= Len(refs)
        BY <1>1, <4>1, <4>3 DEF Allocated
      <4>5. QED
        BY <1>1, <2>6, <4>1, <4>4
    <3>3. Cardinality(Holders(c)) = 0 /\ Cardinality(Frames(c)) = 0
      BY <3>1, <3>2, FS_EmptySet
    <3>4. QED
      BY <1>2, <2>2, <2>3, <2>4, <2>6, <3>3 DEF Same
  <2>7. QED
    BY <1>1, <1>2, <2>5, <2>6
<1>9. QED
  BY <1>5, <1>6, <1>7, <1>8 DEF IInv, CountsExact

\* Two messages of a thread in its own code exchange what they refer to, or
\* the first, which was not there, takes it over from the second.
LEMMA ExchangeStep ==
  ASSUME IInv, NEW t \in Threads, NEW m \in Messages, NEW n \in Messages, m # n,
         MoveConstruct(t, m, n) \/ SwapMessages(t, m, n)
  PROVE  IInv'
<1>1. PICK y \in Handles :
        /\ (y = Empty /\ handle[t][m] = NoObject) \/ y = handle[t][m]
        /\ handle' = [handle EXCEPT ![t][m] = handle[t][n], ![t][n] = y]
  <2>1. handle[t][m] \in Handles /\ Empty \in Handles
    BY TypesAre, HandlesAssumption DEF IInv, Handles, NoObject, Empty, Cells
  <2>2. CASE MoveConstruct(t, m, n)
    <3>1. handle[t][m] = NoObject
      BY <2>2 DEF MoveConstruct, Exists
    <3>2. handle' = [handle EXCEPT ![t][m] = handle[t][n], ![t][n] = Empty]
      BY <2>2 DEF MoveConstruct
    <3>3. QED
      BY <2>1, <3>1, <3>2
  <2>3. CASE SwapMessages(t, m, n)
    BY <2>1, <2>3 DEF SwapMessages
  <2>4. QED
    BY <2>2, <2>3
<1>2. /\ TypeOK /\ Allocated /\ Reset
      /\ at[t] = "app" /\ m \in Cells /\ n \in Cells /\ m # "copy" /\ n # "copy"
      /\ handle \in [Threads -> [Cells -> Handles]] /\ Len(refs) \in Nat
      /\ UNCHANGED <<at, into, pipe, refs>>
  BY TypesAre DEF IInv, MoveConstruct, SwapMessages, Idle
<1>3. /\ handle' \in [Threads -> [Cells -> Handles]]
      /\ \A u \in Threads : handle'[u]["copy"] = handle[u]["copy"]
      /\ \A u \in Threads \ {t} : handle'[u] = handle[u]
  BY <1>1, <1>2, TypesAre
<1>4. handle[t][n] \in Handles /\ handle[t][n] <= Len(refs) /\ y <= Len(refs)
  BY <1>1, <1>2 DEF Allocated, Empty
<1>5. \A c \in 1 .. Len(refs) :
        Same(handle[t][n], c) + Same(y, c)
          = Same(handle[t][m], c) + Same(handle[t][n], c)
  BY <1>1, <1>2 DEF Same, Empty, NoObject
<1>6. Allocated' /\ CountsExact'
  BY <1>1, <1>2, <1>4, <1>5, TwoHandlesStep
<1>7. TypeOK'
  BY <1>2, <1>3 DEF TypeOK, Exists, Cells
<1>8. Reset'
  BY <1>2, <1>3, SameReset
<1>9. QED
  BY <1>6, <1>7, <1>8 DEF IInv

\* A message, or the copy in send(), is closed: ~Message, the end of a send()
\* that fails, the beginning of receive().
LEMMA CloseStep ==
  ASSUME IInv, NEW t \in Threads, NEW m \in Cells, NEW x \in {NoObject, Empty},
         handle[t][m] # NoObject,
         refs' = Close(handle[t][m]),
         handle' = [handle EXCEPT ![t][m] = x],
         UNCHANGED pipe
  PROVE  /\ Allocated' /\ CountsExact'
         /\ refs' \in Seq(Nat) /\ Len(refs') <= MaxContents /\ x \in Handles
<1> DEFINE h == handle[t][m]
<1>1. /\ TypeOK /\ Allocated /\ CountsExact
      /\ handle \in [Threads -> [Cells -> Handles]]
      /\ Len(refs) \in Nat /\ Len(refs) <= MaxContents /\ MaxContents \in Nat
  BY TypesAre DEF IInv
<1>2. h \in Empty .. Len(refs)
  BY <1>1 DEF Allocated, Handles, NoObject, Empty
<1>3. h > 0 => refs[h] > 0
  BY <1>1, <1>2, CountsAre DEF Empty
<1>4. /\ refs' \in Seq(Nat) /\ Len(refs') = Len(refs)
      /\ \A c \in 1 .. Len(refs) : refs'[c] = refs[c] - Same(h, c)
  <2> HIDE DEF h
  <2>1. refs' = Close(h)
    BY DEF h
  <2>2. TypeOK
    BY <1>1
  <2>3. /\ Close(h) \in Seq(Nat) /\ Len(Close(h)) = Len(refs)
        /\ \A c \in 1 .. Len(refs) : Close(h)[c] = refs[c] - Same(h, c)
    BY <1>2, <1>3, <2>2, RefClosed
  <2>4. QED
    BY <2>1, <2>3
<1>5. x \in Handles /\ x <= Len(refs')
  BY <1>1, <1>4 DEF Handles, NoObject, Empty
<1>6. ASSUME NEW c \in 1 .. Len(refs)
      PROVE  refs'[c] = refs[c] - Same(h, c) + Same(x, c)
  <2>1. refs[c] \in Nat /\ Same(x, c) = 0
    BY <1>1, ElementOfSeq DEF TypeOK, Same, NoObject, Empty
  <2>2. refs'[c] = refs[c] - Same(h, c)
    BY <1>4
  <2>3. QED
    BY <2>1, <2>2 DEF Same
<1>7. QED
  BY <1>1, <1>4, <1>5, <1>6, HandleStep

LEMMA DestroyStep ==
  ASSUME IInv, NEW t \in Threads, NEW m \in Messages, Destroy(t, m)
  PROVE  IInv'
<1>1. /\ TypeOK /\ Reset /\ m \in Cells /\ m # "copy"
      /\ at[t] = "app" /\ handle[t][m] # NoObject
      /\ refs' = Close(handle[t][m])
      /\ handle' = [handle EXCEPT ![t][m] = NoObject]
      /\ UNCHANGED <<at, into, pipe>>
  BY TypesAre DEF IInv, Destroy, Idle, Exists
<1>2. /\ Allocated' /\ CountsExact'
      /\ refs' \in Seq(Nat) /\ Len(refs') <= MaxContents /\ NoObject \in Handles
  BY <1>1, CloseStep
<1>3. at' = [at EXCEPT ![t] = "app"]
  BY <1>1 DEF TypeOK
<1>4. TypeOK'
  BY <1>1, <1>2, <1>3, TypesAfter DEF TypeOK
<1>5. Reset'
  BY <1>1, SameReset DEF TypeOK
<1>6. QED
  BY <1>2, <1>4, <1>5 DEF IInv

LEMMA SendFailsStep ==
  ASSUME IInv, NEW t \in Threads, SendFails(t)
  PROVE  IInv'
<1>1. /\ TypeOK /\ Reset /\ "copy" \in Cells
      /\ at[t] = "send" /\ handle[t]["copy"] # NoObject
      /\ refs' = Close(handle[t]["copy"])
      /\ handle' = [handle EXCEPT ![t]["copy"] = NoObject]
      /\ at' = [at EXCEPT ![t] = "app"]
      /\ UNCHANGED <<into, pipe>>
  BY TypesAre DEF IInv, SendFails, TypeOK, Exists
<1>2. /\ Allocated' /\ CountsExact'
      /\ refs' \in Seq(Nat) /\ Len(refs') <= MaxContents /\ NoObject \in Handles
  BY <1>1, CloseStep
<1>3. TypeOK'
  BY <1>1, <1>2, TypesAfter DEF TypeOK
<1>4. Reset'
  BY <1>1, SameReset DEF TypeOK
<1>5. QED
  BY <1>2, <1>3, <1>4 DEF IInv

LEMMA ReceiveBeginsStep ==
  ASSUME IInv, NEW t \in Threads, NEW m \in Messages, ReceiveBegins(t, m)
  PROVE  IInv'
<1>1. /\ TypeOK /\ Reset /\ m \in Cells /\ m # "copy" /\ m \in Incoming
      /\ at[t] = "app" /\ handle[t][m] # NoObject
      /\ refs' = Close(handle[t][m])
      /\ handle' = [handle EXCEPT ![t][m] = Empty]
      /\ into' = [into EXCEPT ![t] = {m}]
      /\ at' = [at EXCEPT ![t] = "receive"]
      /\ UNCHANGED pipe
  BY TypesAre DEF IInv, ReceiveBegins, Idle, Exists
<1>2. /\ Allocated' /\ CountsExact'
      /\ refs' \in Seq(Nat) /\ Len(refs') <= MaxContents /\ Empty \in Handles
  BY <1>1, CloseStep
<1>3. TypeOK'
  BY <1>1, <1>2, TypesAfter DEF TypeOK
<1>4. Reset'
  <2>1. into'[t] = {m} /\ handle'[t][m] = Empty
    BY <1>1, TypesAre DEF TypeOK
  <2>2. \A u \in Threads \ {t} :
          at'[u] = at[u] /\ into'[u] = into[u] /\ handle'[u] = handle[u]
    BY <1>1 DEF TypeOK
  <2>3. QED
    BY <1>1, <2>1, <2>2 DEF Reset
<1>5. QED
  BY <1>2, <1>3, <1>4 DEF IInv

\* send() makes its copy, which is one reference more.
LEMMA SendBeginsStep ==
  ASSUME IInv, NEW t \in Threads, NEW m \in Messages, SendBegins(t, m)
  PROVE  IInv'
<1> DEFINE h == handle[t][m]
<1>1. /\ TypeOK /\ Allocated /\ Reset /\ "copy" \in Cells /\ m \in Cells
      /\ handle \in [Threads -> [Cells -> Handles]]
      /\ Len(refs) \in Nat /\ Len(refs) <= MaxContents
      /\ at[t] = "app" /\ h # NoObject
      /\ refs' = Share(h)
      /\ handle' = [handle EXCEPT ![t]["copy"] = h]
      /\ at' = [at EXCEPT ![t] = "send"]
      /\ UNCHANGED <<into, pipe>>
  BY TypesAre DEF IInv, SendBegins, Idle, Exists
<1>2. /\ h \in Empty .. Len(refs) /\ h \in Handles
      /\ handle[t]["copy"] = NoObject
  BY <1>1 DEF Allocated, Handles, NoObject, Empty, TypeOK, Exists
<1>3. /\ refs' \in Seq(Nat) /\ Len(refs') = Len(refs)
      /\ \A c \in 1 .. Len(refs) : refs'[c] = refs[c] + Same(h, c)
  <2> HIDE DEF h
  <2>1. QED
    BY <1>1, <1>2, RefShared
<1>4. ASSUME NEW c \in 1 .. Len(refs)
      PROVE  refs'[c] = refs[c] - Same(handle[t]["copy"], c) + Same(h, c)
  <2>1. refs[c] \in Nat /\ Same(handle[t]["copy"], c) = 0
    BY <1>1, <1>2, ElementOfSeq DEF TypeOK, Same, NoObject
  <2>2. refs'[c] = refs[c] + Same(h, c)
    BY <1>3
  <2>3. QED
    BY <2>1, <2>2
<1>5. Allocated' /\ CountsExact'
  <2>1. h <= Len(refs')
    BY <1>2, <1>3 DEF Empty
  <2>2. QED
    BY <1>1, <1>2, <1>3, <1>4, <2>1, HandleStep
<1>6. TypeOK'
  <2> HIDE DEF h
  <2>1. QED
    BY <1>1, <1>2, <1>3, TypesAfter DEF TypeOK
<1>7. Reset'
  BY <1>1, SameReset DEF TypeOK
<1>8. QED
  BY <1>5, <1>6, <1>7 DEF IInv

LEMMA ReceiveFailsStep ==
  ASSUME IInv, NEW t \in Threads, ReceiveFails(t)
  PROVE  IInv'
<1>1. /\ TypeOK /\ Allocated /\ Reset /\ CountsExact
      /\ at[t] = "receive" /\ at' = [at EXCEPT ![t] = "app"]
      /\ UNCHANGED <<handle, into, pipe, refs>>
  BY DEF IInv, ReceiveFails
<1>2. TypeOK'
  BY <1>1 DEF TypeOK, Exists
<1>3. Allocated' /\ CountsExact'
  BY <1>1 DEF Allocated, CountsExact, Holders, Frames
<1>4. Reset'
  BY <1>1, SameReset DEF TypeOK
<1>5. QED
  BY <1>1, <1>2, <1>3, <1>4 DEF IInv

\* The copy becomes a frame in the other thread's pipe: its reference moves.
LEMMA SendAcceptedStep ==
  ASSUME IInv, NEW t \in Threads, SendAccepted(t)
  PROVE  IInv'
<1> DEFINE h == handle[t]["copy"]
           o == Other(t)
<1>1. /\ TypeOK /\ Allocated /\ Reset /\ CountsExact /\ "copy" \in Cells
      /\ handle \in [Threads -> [Cells -> Handles]]
      /\ pipe \in [Threads -> Seq(Empty .. MaxContents)]
      /\ Len(refs) \in Nat /\ Len(refs) <= MaxContents /\ MaxContents \in Nat
      /\ o \in Threads
      /\ at[t] = "send" /\ Len(pipe[o]) < Capacity
      /\ pipe' = [pipe EXCEPT ![o] = Append(pipe[o], h)]
      /\ handle' = [handle EXCEPT ![t]["copy"] = NoObject]
      /\ at' = [at EXCEPT ![t] = "app"]
      /\ UNCHANGED <<into, refs>>
  BY TypesAre, OtherThread DEF IInv, SendAccepted
<1>2. /\ h \in Empty .. Len(refs) /\ h \in Empty .. MaxContents
      /\ NoObject \in Handles
  <2>1. h # NoObject
    BY <1>1 DEF TypeOK, Exists
  <2>2. QED
    BY <1>1, <2>1 DEF Allocated, Handles, NoObject, Empty
<1>3. /\ pipe' \in [Threads -> Seq(Empty .. MaxContents)]
      /\ Len(pipe'[o]) = Len(pipe[o]) + 1 /\ Len(pipe[o]) \in Nat
      /\ pipe'[o][Len(pipe[o]) + 1] = h
      /\ \A i \in 1 .. Len(pipe[o]) : pipe'[o][i] = pipe[o][i]
      /\ \A u \in Threads \ {o} : pipe'[u] = pipe[u]
  <2> HIDE DEF h, o
  <2>1. /\ Append(pipe[o], h) \in Seq(Empty .. MaxContents)
        /\ pipe'[o] = Append(pipe[o], h) /\ pipe[o] \in Seq(Empty .. MaxContents)
    BY <1>1, <1>2, AppendProperties
  <2>2. QED
    BY <1>1, <1>2, <2>1, AppendProperties, LenProperties
<1>4. /\ handle' \in [Threads -> [Cells -> Handles]]
      /\ CellSet(handle, handle', t, "copy", NoObject)
  BY <1>1, <1>2 DEF CellSet
<1>5. TypeOK'
  <2>1. \A u \in Threads : Len(pipe'[u]) <= Capacity
    <3>1. Len(pipe'[o]) <= Capacity
      BY <1>1, <1>3, HandlesAssumption
    <3>2. QED
      BY <1>1, <1>3, <3>1 DEF TypeOK
  <2>2. \A u \in Threads : at'[u] = "send" <=> handle'[u]["copy"] # NoObject
    <3>1. \A u \in Threads \ {t} :
            at'[u] = at[u] /\ handle'[u]["copy"] = handle[u]["copy"]
      BY <1>1 DEF TypeOK
    <3>2. at'[t] = "app" /\ handle'[t]["copy"] = NoObject
      BY <1>1 DEF TypeOK
    <3>3. QED
      BY <1>1, <3>1, <3>2 DEF TypeOK, Exists
  <2>3. at' \in [Threads -> {"app", "send", "receive"}]
    BY <1>1 DEF TypeOK
  <2>4. QED
    BY <1>1, <1>3, <1>4, <2>1, <2>2, <2>3 DEF TypeOK, Exists, Cells
<1>6. Allocated'
  <2>1. ASSUME NEW u \in Threads, NEW i \in 1 .. Len(pipe'[u])
        PROVE  pipe'[u][i] <= Len(refs')
    <3>1. CASE u # o
      BY <1>1, <1>3, <3>1 DEF Allocated
    <3>2. CASE u = o /\ i # Len(pipe[o]) + 1
      <4>1. i \in 1 .. Len(pipe[o])
        BY <1>3, <3>2
      <4>2. QED
        BY <1>1, <1>3, <3>2, <4>1 DEF Allocated
    <3>3. CASE u = o /\ i = Len(pipe[o]) + 1
      BY <1>1, <1>2, <1>3, <3>3 DEF Empty
    <3>4. QED
      BY <3>1, <3>2, <3>3
  <2>2. ASSUME NEW u \in Threads, NEW k \in Cells
        PROVE  handle'[u][k] <= Len(refs')
    BY <1>1, <1>4 DEF CellSet, Allocated, NoObject
  <2>3. QED
    BY <2>1, <2>2 DEF Allocated
<1>7. Reset'
  BY <1>1, SameReset DEF TypeOK
<1>8. ASSUME NEW c \in 1 .. Len(refs)
      PROVE  refs[c] = Cardinality(Holders(c)') + Cardinality(Frames(c)')
  <2>1. /\ refs[c] = Cardinality(Holders(c)) + Cardinality(Frames(c))
        /\ Cardinality(Holders(c)) \in Nat /\ Cardinality(Frames(c)) \in Nat
        /\ Holders(c) = HoldersIn(handle, c) /\ Frames(c) = FramesIn(pipe, c)
    BY <1>1, CountsAre
  <2>2. Holders(c)' = HoldersIn(handle', c) /\ Frames(c)' = FramesIn(pipe', c)
    BY DEF Holders, HoldersIn, Frames, FramesIn, Cells
  <2>3. Cardinality(HoldersIn(handle', c))
          = Cardinality(HoldersIn(handle, c)) - Same(h, c) + Same(NoObject, c)
    BY <1>1, <1>4, HandleSet
  <2>4. Cardinality(FramesIn(pipe', c)) = Cardinality(FramesIn(pipe, c)) + Same(h, c)
    <3>1. Lengthened(pipe, pipe', o, h)
      BY <1>1 DEF Lengthened
    <3> HIDE DEF h, o
    <3>2. QED
      BY <1>1, <1>2, <3>1, FrameAdded
  <2>5. Same(NoObject, c) = 0 /\ Same(h, c) \in {0, 1}
    BY <1>1 DEF Same, NoObject
  <2> HIDE DEF h
  <2>6. QED
    BY <2>1, <2>2, <2>3, <2>4, <2>5
<1>9. QED
  BY <1>1, <1>5, <1>6, <1>7, <1>8 DEF IInv, CountsExact

\* What is left of a pipe without its first frame.
LEMMA PipeWithoutHead ==
  ASSUME TypeOK, Allocated, NEW t \in Threads, pipe[t] # <<>>,
         pipe' = [pipe EXCEPT ![t] = Tail(pipe[t])]
  PROVE  /\ pipe' \in [Threads -> Seq(Empty .. MaxContents)]
         /\ \A u \in Threads : Len(pipe'[u]) <= Capacity
         /\ \A u \in Threads : \A i \in 1 .. Len(pipe'[u]) :
              pipe'[u][i] <= Len(refs)
         /\ Head(pipe[t]) \in Empty .. Len(refs)
         /\ Head(pipe[t]) \in Empty .. MaxContents
         /\ 1 \in 1 .. Len(pipe[t]) /\ Head(pipe[t]) = pipe[t][1]
<1>1. /\ pipe \in [Threads -> Seq(Empty .. MaxContents)]
      /\ pipe[t] \in Seq(Empty .. MaxContents)
      /\ Len(pipe[t]) <= Capacity /\ Capacity \in Nat
      /\ Len(refs) \in Nat /\ Len(refs) <= MaxContents /\ MaxContents \in Nat
  BY TypesAre, HandlesAssumption DEF TypeOK
<1>2. /\ Len(pipe[t]) \in Nat \ {0}
      /\ Head(pipe[t]) = pipe[t][1] /\ Head(pipe[t]) \in Empty .. MaxContents
      /\ Tail(pipe[t]) \in Seq(Empty .. MaxContents)
      /\ Len(Tail(pipe[t])) = Len(pipe[t]) - 1
      /\ \A i \in 1 .. Len(Tail(pipe[t])) : Tail(pipe[t])[i] = pipe[t][i + 1]
  <2> DEFINE s == pipe[t]
  <2>1. s \in Seq(Empty .. MaxContents) /\ s # <<>>
    BY <1>1
  <2> HIDE DEF s
  <2>2. /\ Len(s) \in Nat /\ Len(s) # 0
    BY <2>1, LenProperties, EmptySeq
  <2>3. /\ Head(s) \in Empty .. MaxContents
        /\ Tail(s) \in Seq(Empty .. MaxContents)
        /\ Len(Tail(s)) = Len(s) - 1
        /\ \A i \in 1 .. Len(Tail(s)) : Tail(s)[i] = s[i + 1]
    BY <2>1, HeadTailProperties
  <2>4. Head(s) = s[1]
    BY <2>1, <2>2
  <2>5. QED
    BY <2>2, <2>3, <2>4 DEF s
<1>3. /\ pipe' \in [Threads -> Seq(Empty .. MaxContents)]
      /\ pipe'[t] = Tail(pipe[t])
      /\ \A u \in Threads \ {t} : pipe'[u] = pipe[u]
  BY <1>1, <1>2
<1>4. ASSUME NEW u \in Threads
      PROVE  Len(pipe'[u]) <= Capacity
  <2>1. CASE u = t
    BY <1>1, <1>2, <1>3, <2>1
  <2>2. CASE u # t
    BY <1>3, <2>2 DEF TypeOK
  <2>3. QED
    BY <2>1, <2>2
<1>5. ASSUME NEW u \in Threads, NEW i \in 1 .. Len(pipe'[u])
      PROVE  pipe'[u][i] <= Len(refs)
  <2>1. CASE u = t
    <3>1. i + 1 \in 1 .. Len(pipe[t]) /\ pipe'[u][i] = pipe[t][i + 1]
      BY <1>2, <1>3, <2>1
    <3>2. QED
      BY <3>1 DEF Allocated
  <2>2. CASE u # t
    BY <1>3, <2>2 DEF Allocated
  <2>3. QED
    BY <2>1, <2>2
<1>6. 1 \in 1 .. Len(pipe[t]) /\ pipe[t][1] <= Len(refs)
  BY <1>2 DEF Allocated
<1>7. QED
  BY <1>1, <1>2, <1>3, <1>4, <1>5, <1>6 DEF Empty

\* The first frame becomes the message that the thread waits for.
LEMMA ReceiveReturnsStep ==
  ASSUME IInv, NEW t \in Threads, ReceiveReturns(t)
  PROVE  IInv'
<1> DEFINE h == Head(pipe[t])
<1>1. /\ TypeOK /\ Allocated /\ Reset /\ CountsExact
      /\ handle \in [Threads -> [Cells -> Handles]]
      /\ pipe \in [Threads -> Seq(Empty .. MaxContents)]
      /\ Len(refs) \in Nat
      /\ at[t] = "receive" /\ pipe[t] # <<>>
      /\ pipe' = [pipe EXCEPT ![t] = Tail(pipe[t])]
      /\ at' = [at EXCEPT ![t] = "app"]
      /\ UNCHANGED <<into, refs>>
  BY TypesAre DEF IInv, ReceiveReturns
<1>2. PICK m \in Incoming :
        /\ handle[t][m] = Empty
        /\ handle' = [handle EXCEPT ![t][m] = h]
  <2>1. PICK k \in Incoming : into[t] = {k} /\ handle[t][k] = Empty
    BY <1>1 DEF Reset
  <2>2. PICK m \in into[t] : handle' = [handle EXCEPT ![t][m] = h]
    BY DEF ReceiveReturns
  <2>3. m = k
    BY <2>1, <2>2
  <2>4. QED
    BY <2>1, <2>2, <2>3
<1>3. m \in Cells /\ m # "copy"
  BY HandlesAssumption DEF Cells, Messages
<1>4. /\ pipe' \in [Threads -> Seq(Empty .. MaxContents)]
      /\ \A u \in Threads : Len(pipe'[u]) <= Capacity
      /\ \A u \in Threads : \A i \in 1 .. Len(pipe'[u]) : pipe'[u][i] <= Len(refs)
      /\ h \in Empty .. Len(refs) /\ h \in Empty .. MaxContents /\ h \in Handles
  <2>1. h \in Empty .. MaxContents => h \in Handles
    BY HandlesAssumption DEF Handles, Empty, NoObject
  <2> HIDE DEF h
  <2>2. QED
    BY <1>1, <2>1, PipeWithoutHead DEF h
<1>5. /\ handle' \in [Threads -> [Cells -> Handles]]
      /\ CellSet(handle, handle', t, m, h)
      /\ \A u \in Threads : handle'[u]["copy"] = handle[u]["copy"]
  <2> HIDE DEF h
  <2>1. QED
    BY <1>1, <1>2, <1>3, <1>4, TypesAre DEF CellSet
<1>6. TypeOK'
  <2>1. /\ at' \in [Threads -> {"app", "send", "receive"}]
        /\ \A u \in Threads : at'[u] = "send" <=> at[u] = "send"
    BY <1>1 DEF TypeOK
  <2>2. QED
    BY <1>1, <1>4, <1>5, <2>1 DEF TypeOK, Exists, Cells
<1>7. Allocated'
  <2>1. h <= Len(refs)
    BY <1>4 DEF Empty
  <2> HIDE DEF h
  <2>2. \A u \in Threads : \A k \in Cells : handle'[u][k] <= Len(refs)
    BY <1>1, <1>5, <2>1 DEF Allocated, CellSet
  <2>3. QED
    BY <1>1, <1>4, <2>2 DEF Allocated
<1>8. Reset'
  <2>1. \A u \in Threads :
          at'[u] = "receive" =>
            at[u] = "receive" /\ into'[u] = into[u] /\ handle'[u] = handle[u]
    BY <1>1, <1>2 DEF TypeOK
  <2>2. QED
    BY <1>1, <2>1, SameReset
<1>9. ASSUME NEW c \in 1 .. Len(refs)
      PROVE  refs[c] = Cardinality(Holders(c)') + Cardinality(Frames(c)')
  <2>1. /\ refs[c] = Cardinality(Holders(c)) + Cardinality(Frames(c))
        /\ Cardinality(Holders(c)) \in Nat /\ Cardinality(Frames(c)) \in Nat
        /\ Holders(c) = HoldersIn(handle, c) /\ Frames(c) = FramesIn(pipe, c)
    BY <1>1, CountsAre
  <2>2. Holders(c)' = HoldersIn(handle', c) /\ Frames(c)' = FramesIn(pipe', c)
    BY DEF Holders, HoldersIn, Frames, FramesIn, Cells
  <2>3. Cardinality(HoldersIn(handle', c))
          = Cardinality(HoldersIn(handle, c)) - Same(handle[t][m], c) + Same(h, c)
    <3> HIDE DEF h
    <3>1. QED
      BY <1>3, <1>5, HandleSet
  <2>4. Cardinality(FramesIn(pipe', c)) = Cardinality(FramesIn(pipe, c)) - Same(h, c)
    <3>1. /\ Shortened(pipe, pipe', t)
          /\ \A u \in Threads : Len(pipe[u]) <= Capacity
      BY <1>1 DEF Shortened, TypeOK
    <3>2. QED
      BY <1>1, <3>1, FrameTaken
  <2>5. Same(handle[t][m], c) = 0 /\ Same(h, c) \in {0, 1}
    BY <1>1, <1>2 DEF Same, Empty
  <2> HIDE DEF h
  <2>6. QED
    BY <2>1, <2>2, <2>3, <2>4, <2>5
<1>10. QED
  BY <1>1, <1>6, <1>7, <1>8, <1>9 DEF IInv, CountsExact

\* libzmq gives the first frame's reference back.
LEMMA DropFrameStep ==
  ASSUME IInv, NEW t \in Threads, DropFrame(t)
  PROVE  IInv'
<1> DEFINE h == Head(pipe[t])
<1>1. /\ TypeOK /\ Allocated /\ Reset /\ CountsExact
      /\ pipe \in [Threads -> Seq(Empty .. MaxContents)]
      /\ Len(refs) \in Nat /\ Len(refs) <= MaxContents
      /\ pipe[t] # <<>>
      /\ refs' = Close(h)
      /\ pipe' = [pipe EXCEPT ![t] = Tail(pipe[t])]
      /\ UNCHANGED <<handle, at, into>>
  BY TypesAre DEF IInv, DropFrame
<1>2. /\ pipe' \in [Threads -> Seq(Empty .. MaxContents)]
      /\ \A u \in Threads : Len(pipe'[u]) <= Capacity
      /\ \A u \in Threads : \A i \in 1 .. Len(pipe'[u]) : pipe'[u][i] <= Len(refs)
      /\ h \in Empty .. Len(refs) /\ 1 \in 1 .. Len(pipe[t]) /\ h = pipe[t][1]
  BY <1>1, PipeWithoutHead
<1>3. h > 0 => refs[h] > 0
  BY <1>1, <1>2, CountsAre DEF Empty
<1>4. /\ refs' \in Seq(Nat) /\ Len(refs') = Len(refs)
      /\ \A c \in 1 .. Len(refs) : refs'[c] = refs[c] - Same(h, c)
  <2> HIDE DEF h
  <2>1. TypeOK /\ h \in Empty .. Len(refs)
    BY <1>1, <1>2, TypesAre DEF IInv
  <2>2. /\ Close(h) \in Seq(Nat) /\ Len(Close(h)) = Len(refs)
        /\ \A c \in 1 .. Len(refs) : Close(h)[c] = refs[c] - Same(h, c)
    BY <1>3, <2>1, RefClosed
  <2>3. QED
    BY <1>1, <2>2
<1>5. TypeOK'
  BY <1>1, <1>2, <1>4 DEF TypeOK, Exists
<1>6. Allocated'
  BY <1>1, <1>2, <1>4 DEF Allocated
<1>7. Reset'
  BY <1>1, SameReset
<1>8. ASSUME NEW c \in 1 .. Len(refs)
      PROVE  refs'[c] = Cardinality(Holders(c)') + Cardinality(Frames(c)')
  <2>1. /\ refs[c] = Cardinality(Holders(c)) + Cardinality(Frames(c))
        /\ Cardinality(Holders(c)) \in Nat /\ Cardinality(Frames(c)) \in Nat
        /\ Frames(c) = FramesIn(pipe, c)
    BY <1>1, CountsAre
  <2>2. Holders(c)' = Holders(c) /\ Frames(c)' = FramesIn(pipe', c)
    BY <1>1 DEF Holders, Frames, FramesIn
  <2>3. Cardinality(FramesIn(pipe', c)) = Cardinality(FramesIn(pipe, c)) - Same(h, c)
    <3>1. /\ Shortened(pipe, pipe', t)
          /\ \A u \in Threads : Len(pipe[u]) <= Capacity
      BY <1>1 DEF Shortened, TypeOK
    <3>2. QED
      BY <1>1, <3>1, FrameTaken
  <2>4. Same(h, c) \in {0, 1} /\ refs'[c] = refs[c] - Same(h, c)
    BY <1>4 DEF Same
  <2> HIDE DEF h
  <2>5. QED
    BY <2>1, <2>2, <2>3, <2>4
<1>9. QED
  BY <1>1, <1>4, <1>5, <1>6, <1>7, <1>8 DEF IInv, CountsExact
----------------------------------------------------------------------------
(* The invariant.                                                          *)

\* What thread t may do, in its own code or in a call.
StepOf(t) ==
  \/ Application(t)
  \/ SendAccepted(t) \/ SendFails(t)
  \/ ReceiveReturns(t) \/ ReceiveFails(t)
  \/ DropFrame(t)

LEMMA ApplicationKeepsIInv ==
  ASSUME IInv, NEW t \in Threads, Application(t)
  PROVE  IInv'
<1>1. PICK m \in Messages :
        \/ Construct(t, m)
        \/ ConstructFrom(t, m)
        \/ \E n \in Messages \ {m} : MoveConstruct(t, m, n) \/ SwapMessages(t, m, n)
        \/ Destroy(t, m)
        \/ SendBegins(t, m)
        \/ ReceiveBegins(t, m)
  BY DEF Application
<1>2. CASE Construct(t, m)
  BY <1>2, ConstructStep
<1>3. CASE ConstructFrom(t, m)
  BY <1>3, ConstructFromStep
<1>4. ASSUME NEW n \in Messages \ {m},
             MoveConstruct(t, m, n) \/ SwapMessages(t, m, n)
      PROVE  IInv'
  BY <1>4, ExchangeStep
<1>5. CASE Destroy(t, m)
  BY <1>5, DestroyStep
<1>6. CASE SendBegins(t, m)
  BY <1>6, SendBeginsStep
<1>7. CASE ReceiveBegins(t, m)
  BY <1>7, ReceiveBeginsStep
<1>8. QED
  BY <1>1, <1>2, <1>3, <1>4, <1>5, <1>6, <1>7

LEMMA StepKeepsIInv == IInv /\ [Next]_vars => IInv'
<1> SUFFICES ASSUME IInv, [Next]_vars
             PROVE  IInv'
  OBVIOUS
<1>1. CASE UNCHANGED vars
  <2>1. TypeOK'
    BY <1>1 DEF vars, IInv, TypeOK, Exists
  <2>2. Allocated' /\ Reset'
    BY <1>1 DEF vars, IInv, Allocated, Reset
  <2>3. CountsExact'
    BY <1>1 DEF vars, IInv, CountsExact, Holders, Frames
  <2>4. QED
    BY <2>1, <2>2, <2>3 DEF IInv
<1>2. ASSUME NEW t \in Threads, StepOf(t)
      PROVE  IInv'
  BY <1>2, ApplicationKeepsIInv, SendAcceptedStep, SendFailsStep,
     ReceiveReturnsStep, ReceiveFailsStep, DropFrameStep DEF StepOf
<1>3. QED
  BY <1>1, <1>2 DEF Next, StepOf

LEMMA InitIInv == Init => IInv
<1> SUFFICES ASSUME Init
             PROVE  IInv
  OBVIOUS
<1>1. /\ handle = [t \in Threads |-> [m \in Cells |-> NoObject]]
      /\ \A t \in Threads : pipe[t] = <<>> /\ Len(pipe[t]) = 0
      /\ refs = <<>> /\ Len(refs) = 0
  BY EmptySeq DEF Init, Cells
<1>2. TypeOK
  <2>1. /\ refs \in Seq(Nat) /\ Len(refs) <= MaxContents
        /\ \A t \in Threads : Len(pipe[t]) <= Capacity
    BY <1>1, EmptySeq, HandlesAssumption
  <2>2. pipe \in [Threads -> Seq(Empty .. MaxContents)]
    BY EmptySeq DEF Init
  <2>3. handle \in [Threads -> [Cells -> Handles]]
    BY <1>1, HandlesAssumption DEF Handles, NoObject
  <2>4. \A t \in Threads : at[t] = "app" /\ ~Exists(t, "copy")
    BY <1>1 DEF Init, Exists, Cells
  <2>5. QED
    BY <2>1, <2>2, <2>3, <2>4 DEF TypeOK, Cells, Init
<1>3. Allocated
  BY <1>1 DEF Allocated, NoObject
<1>4. Reset
  BY DEF Init, Reset
<1>5. CountsExact
  BY <1>1 DEF CountsExact
<1>6. QED
  BY <1>2, <1>3, <1>4, <1>5 DEF IInv

LEMMA Invariance == Spec => []IInv
BY InitIInv, StepKeepsIInv, PTL DEF Spec
----------------------------------------------------------------------------
(* Theorems.                                                               *)

\* Every variable keeps its type: a message refers to a content that there is,
\* a pipe holds no more frames than it can, and the copy of a message lives as
\* long as the call of OutgoingMessage::send that made it, no longer.
THEOREM TypeCorrect == Spec => []TypeOK
<1>1. IInv => TypeOK
  BY DEF IInv
<1>2. QED
  BY <1>1, Invariance, PTL

\* The reference count of every content is the number of messages, copies and
\* frames that refer to it, whatever was moved, swapped, sent, received, dropped
\* or failed to be sent: no content is freed while something refers to it or
\* twice, and none is lost (Message's constructors, operator=, swap, destructor
\* and shallowCopy; OutgoingMessage::send; IncomingMessage::receive).
THEOREM CountsAreExact == Spec => []CountsExact
<1>1. IInv => CountsExact
  BY DEF IInv
<1>2. QED
  BY <1>1, Invariance, PTL

\* A thread's step leaves the other one alone.
LEMMA StepOfOne ==
  ASSUME TypeOK, NEW t \in Threads, NEW u \in Threads, u # t, StepOf(t)
  PROVE  handle'[u] = handle[u] /\ at'[u] = at[u]
<1>1. CASE Application(t)
  BY <1>1 DEF TypeOK, Application, Construct, ConstructFrom, MoveConstruct,
              SwapMessages, Destroy, SendBegins, ReceiveBegins
<1>2. CASE SendAccepted(t) \/ SendFails(t)
  BY <1>2 DEF TypeOK, SendAccepted, SendFails
<1>3. CASE ReceiveReturns(t) \/ ReceiveFails(t) \/ DropFrame(t)
  BY <1>3 DEF TypeOK, ReceiveReturns, ReceiveFails, DropFrame
<1>4. QED
  BY <1>1, <1>2, <1>3 DEF StepOf

LEMMA StepLeavesMessages ==
  ASSUME TypeOK, NEW t \in Threads, NEW m \in Messages, StepOf(t),
         at[t] = "send" \/ at'[t] = "send"
  PROVE  handle'[t][m] = handle[t][m]
<1>1. /\ handle \in [Threads -> [Cells -> Handles]]
      /\ m \in Cells /\ m # "copy" /\ "copy" \in Cells
  BY TypesAre
<1>2. CASE Application(t)
  <2>1. at[t] = "app" /\ at'[t] = "send"
    BY <1>2 DEF Application, Construct, ConstructFrom, MoveConstruct,
                SwapMessages, Destroy, SendBegins, ReceiveBegins, Idle
  <2>2. \E n \in Messages : SendBegins(t, n)
    BY <1>2, <2>1 DEF TypeOK, Application, Construct, ConstructFrom,
                      MoveConstruct, SwapMessages, Destroy, ReceiveBegins
  <2>3. QED
    BY <1>1, <2>2 DEF SendBegins
<1>3. CASE SendAccepted(t) \/ SendFails(t)
  BY <1>1, <1>3 DEF SendAccepted, SendFails
<1>4. CASE ReceiveReturns(t)
  BY <1>4 DEF TypeOK, ReceiveReturns
<1>5. CASE ReceiveFails(t) \/ DropFrame(t)
  BY <1>5 DEF ReceiveFails, DropFrame
<1>6. QED
  BY <1>2, <1>3, <1>4, <1>5 DEF StepOf

\* OutgoingMessage::send is const in effect too: from its call to its end, by
\* success, failure or exception, no message of the thread changes.
THEOREM SendingLeavesMessages == Spec => SendLeavesMessages
<1>1. ASSUME IInv, [Next]_vars, NEW t \in Threads, NEW m \in Messages,
             at[t] = "send" \/ at'[t] = "send"
      PROVE  handle'[t][m] = handle[t][m]
  <2>1. CASE UNCHANGED vars
    BY <2>1 DEF vars
  <2>2. ASSUME NEW u \in Threads, StepOf(u)
        PROVE  handle'[t][m] = handle[t][m]
    BY <1>1, <2>2, StepOfOne, StepLeavesMessages DEF IInv
  <2>3. QED
    BY <1>1, <2>1, <2>2 DEF Next, StepOf
<1>2. IInv /\ [Next]_vars =>
        \A t \in Threads : \A m \in Messages :
          at[t] = "send" \/ at'[t] = "send" => handle'[t][m] = handle[t][m]
  BY <1>1
<1>3. QED
  BY <1>2, Invariance, PTL DEF Spec, SendLeavesMessages

LEMMA StepIsFresh ==
  ASSUME IInv, Reset', NEW t \in Threads, StepOf(t),
         at[t] = "receive" \/ at'[t] = "receive"
  PROVE  ReceivesFresh(t)
PROOF
<1>1. /\ handle \in [Threads -> [Cells -> Handles]]
      /\ into \in [Threads -> SUBSET Incoming] /\ Messages \subseteq Cells
  BY TypesAre DEF IInv, TypeOK, Cells
<1>2. \A m \in into'[t] : at'[t] = "receive" => handle'[t][m] = Empty
  BY DEF Reset
<1>3. CASE Application(t)
  <2>1. at[t] = "app" /\ at'[t] = "receive"
    BY <1>3 DEF Application, Construct, ConstructFrom, MoveConstruct,
                SwapMessages, Destroy, SendBegins, ReceiveBegins, Idle
  <2>2. PICK n \in Messages : ReceiveBegins(t, n)
    BY <1>3, <2>1 DEF IInv, TypeOK, Application, Construct, ConstructFrom,
                      MoveConstruct, SwapMessages, Destroy, SendBegins
  <2>3. /\ handle' = [handle EXCEPT ![t][n] = Empty]
        /\ into' = [into EXCEPT ![t] = {n}]
    BY <2>2 DEF ReceiveBegins
  <2>4. \A m \in Messages \ into'[t] : handle'[t][m] = handle[t][m]
    BY <1>1, <2>3
  <2>5. QED
    BY <1>2, <2>1, <2>4 DEF ReceivesFresh
<1>4. CASE ReceiveReturns(t)
  <2>1. PICK m \in Incoming : into[t] = {m} /\ handle[t][m] = Empty
    BY <1>4 DEF IInv, Reset, ReceiveReturns
  <2>2. /\ handle' = [handle EXCEPT ![t][m] = Head(pipe[t])]
        /\ into' = into /\ pipe' = [pipe EXCEPT ![t] = Tail(@)]
        /\ pipe[t] # <<>> /\ at' = [at EXCEPT ![t] = "app"]
    BY <1>4, <2>1 DEF ReceiveReturns
  <2>3. m \in Cells
    BY <1>1 DEF Messages
  <2>4. /\ handle'[t][m] = Head(pipe[t])
        /\ \A k \in Messages \ {m} : handle'[t][k] = handle[t][k]
    BY <1>1, <2>2, <2>3
  <2>5. pipe'[t] # pipe[t] /\ at'[t] = "app"
    <3> DEFINE s == pipe[t]
    <3>1. /\ s \in Seq(Empty .. MaxContents) /\ s # <<>> /\ pipe'[t] = Tail(s)
          /\ at'[t] = "app"
      BY <2>2 DEF IInv, TypeOK
    <3> HIDE DEF s
    <3>2. Len(s) \in Nat /\ Len(Tail(s)) = Len(s) - 1
      BY <3>1, HeadTailProperties, LenProperties
    <3>3. Len(Tail(s)) # Len(s)
      BY <3>2
    <3>4. QED
      BY <3>1, <3>3 DEF s
  <2>6. QED
    BY <2>1, <2>2, <2>4, <2>5 DEF ReceivesFresh
<1>5. CASE ReceiveFails(t)
  <2>1. PICK m \in Incoming : into[t] = {m} /\ handle[t][m] = Empty
    BY <1>5 DEF IInv, Reset, ReceiveFails
  <2>2. QED
    BY <1>5, <2>1 DEF ReceiveFails, ReceivesFresh, IInv, TypeOK
<1>6. CASE DropFrame(t)
  BY <1>2, <1>6 DEF DropFrame, ReceivesFresh
<1>7. CASE SendAccepted(t) \/ SendFails(t)
  BY <1>7 DEF SendAccepted, SendFails, IInv, TypeOK
<1>8. QED
  BY <1>3, <1>4, <1>5, <1>6, <1>7 DEF StepOf

\* From the call of IncomingMessage::receive to its end, the message that it was
\* given is empty and then has the frame that this call took from the pipe, or
\* nothing if it failed; every other message of the thread stays as it was.
THEOREM ReceivingIsFresh == Spec => ReceiveIsFresh
PROOF
<1>1. ASSUME IInv, IInv', [Next]_vars, NEW t \in Threads,
             at[t] = "receive" \/ at'[t] = "receive"
      PROVE  ReceivesFresh(t)
  <2>1. Reset' /\ TypeOK
    BY <1>1 DEF IInv
  <2>2. ASSUME handle'[t] = handle[t], at'[t] = at[t]
        PROVE  ReceivesFresh(t)
    <3>1. at'[t] = "receive"
      BY <1>1, <2>2
    <3>2. \A m \in into'[t] : handle'[t][m] = Empty
      BY <2>1, <3>1 DEF Reset
    <3>3. QED
      BY <2>2, <3>1, <3>2 DEF ReceivesFresh
  <2>3. CASE UNCHANGED vars
    BY <2>2, <2>3 DEF vars
  <2>4. ASSUME NEW u \in Threads, StepOf(u)
        PROVE  ReceivesFresh(t)
    <3>1. CASE u = t
      BY <1>1, <2>1, <2>4, <3>1, StepIsFresh
    <3>2. CASE u # t
      BY <2>1, <2>2, <2>4, <3>2, StepOfOne
    <3>3. QED
      BY <3>1, <3>2
  <2>5. QED
    BY <1>1, <2>3, <2>4 DEF Next, StepOf
<1>2. IInv /\ IInv' /\ [Next]_vars =>
        \A t \in Threads :
          at[t] = "receive" \/ at'[t] = "receive" => ReceivesFresh(t)
  BY <1>1
<1>3. QED
  BY <1>2, Invariance, PTL DEF Spec, ReceiveIsFresh
=============================================================================
