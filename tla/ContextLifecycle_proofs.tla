----------------------- MODULE ContextLifecycle_proofs -----------------------
(***************************************************************************)
(* Proofs about ContextLifecycle, for every set of threads, any number of  *)
(* contexts and sockets, and scopes of any depth.                          *)
(*                                                                         *)
(* OwnedOnce counts the owners of a handle and is not inductive.  What is  *)
(* inductive is that the objects with a handle and the handles that are to *)
(* be owned correspond one to one (Owned), together with what ~Context     *)
(* needs of its own thread while it waits (TermShape).                     *)
(***************************************************************************)
EXTENDS ContextLifecycle, FiniteSetTheorems, SequenceTheorems, TLAPS

States == {"open", "closed", "reaped"}
SocketRecords == [state : States, context : ContextHandles,
                  lingers : BOOLEAN, unsent : BOOLEAN]

\* TypeOK without the bound on the sockets of a context.
ScopesTyped ==
  /\ stack \in [Threads -> Seq(Objects)]
  /\ \A t \in Threads : Len(stack[t]) <= MaxDepth

ThreadsTyped ==
  /\ at \in [Threads -> {"app", "call", "term"}]
  /\ callOn \in [Threads -> 0 .. Len(socket)]
  /\ unwinding \in [Threads -> BOOLEAN]
  /\ failed \in {"none", "Socket", "~Context"}

HandlesTyped ==
  /\ context \in Seq({"open", "terminating", "freed"})
  /\ socket \in Seq(SocketRecords)
  /\ leaked \subseteq ContextHandles

Typed == ScopesTyped /\ ThreadsTyped /\ HandlesTyped

SlotsBounded ==
  \A c \in ContextHandles : Cardinality(SocketsOf(c)) <= MaxSocketCount

\* The handles that are still to be given back, as the objects that own them.
OpenSockets  == {h \in SocketHandles : socket[h].state = "open"}
LiveContexts == {c \in ContextHandles : context[c] # "freed" /\ c \notin leaked}
Owning ==
  [kind : {"Socket"}, handle : OpenSockets]
    \cup [kind : {"Context"}, handle : LiveContexts]

\* An object that holds a handle owns it.
HandlesOwned ==
  \A t \in Threads : \A i \in 1 .. Len(stack[t]) :
    stack[t][i].handle # Null => stack[t][i] \in Owning

\* No handle is held in two places.
OnePlace ==
  \A t, u \in Threads : \A i \in 1 .. Len(stack[t]), j \in 1 .. Len(stack[u]) :
    stack[t][i] = stack[u][j] /\ stack[t][i].handle # Null => t = u /\ i = j

\* Every handle that is still to be given back is held somewhere.
AllHeld ==
  \A o \in Owning : \E t \in Threads : \E i \in 1 .. Len(stack[t]) : stack[t][i] = o

Owned == HandlesOwned /\ OnePlace /\ AllHeld

\* While a thread is in ~Context, its topmost object is that Context.
TermShape ==
  \A t \in Threads :
    at[t] = "term" => /\ stack[t] # <<>>
                      /\ Top(t).kind = "Context" /\ Top(t).handle # Null

IInv ==
  /\ Typed /\ SlotsBounded /\ Owned /\ TermShape /\ ContextOutlivesSockets
----------------------------------------------------------------------------
(* The scopes.                                                             *)

\* A thread's scopes after an object was constructed in them.
LEMMA PushedObject ==
  ASSUME Typed, NEW t \in Threads, NEW o \in Objects, Push(t, o), HasRoom(t)
  PROVE  /\ ScopesTyped'
         /\ Len(stack'[t]) = Len(stack[t]) + 1
         /\ stack'[t][Len(stack[t]) + 1] = o
         /\ \A i \in 1 .. Len(stack[t]) : stack'[t][i] = stack[t][i]
         /\ \A u \in Threads \ {t} : stack'[u] = stack[u]
<1>1. stack[t] \in Seq(Objects)
  BY DEF Typed, ScopesTyped
<1>2. stack' = [stack EXCEPT ![t] = Append(stack[t], o)]
  BY DEF Push
<1>3. /\ Append(stack[t], o) \in Seq(Objects)
      /\ Len(Append(stack[t], o)) = Len(stack[t]) + 1
      /\ \A i \in 1 .. Len(stack[t]) : Append(stack[t], o)[i] = stack[t][i]
      /\ Append(stack[t], o)[Len(stack[t]) + 1] = o
  BY <1>1, AppendProperties
<1>4. /\ stack'[t] = Append(stack[t], o)
      /\ \A u \in Threads \ {t} : stack'[u] = stack[u]
      /\ stack' \in [Threads -> Seq(Objects)]
  BY <1>2, <1>3 DEF Typed, ScopesTyped
<1>5. Len(stack[t]) \in Nat /\ MaxDepth \in Nat
  BY <1>1, LenProperties, LifecycleAssumption
<1>6. ASSUME NEW u \in Threads
      PROVE  Len(stack'[u]) <= MaxDepth
  <2>1. CASE u = t
    BY <1>3, <1>4, <1>5, <2>1 DEF HasRoom
  <2>2. CASE u # t
    BY <1>4, <2>2 DEF Typed, ScopesTyped
  <2>3. QED
    BY <2>1, <2>2
<1>7. QED
  BY <1>3, <1>4, <1>6 DEF ScopesTyped

\* A thread's scopes after its latest object was destroyed.
LEMMA PoppedObject ==
  ASSUME Typed, NEW t \in Threads, stack[t] # <<>>,
         stack' = [stack EXCEPT ![t] = Popped(t)]
  PROVE  /\ ScopesTyped'
         /\ Len(stack[t]) \in Nat \ {0}
         /\ Top(t) \in Objects
         /\ Len(stack'[t]) = Len(stack[t]) - 1
         /\ \A i \in 1 .. Len(stack[t]) - 1 : stack'[t][i] = stack[t][i]
         /\ \A u \in Threads \ {t} : stack'[u] = stack[u]
<1>1. stack[t] \in Seq(Objects) /\ Len(stack[t]) \in Nat \ {0}
  BY EmptySeq DEF Typed, ScopesTyped
<1>2. \A i \in 1 .. Len(stack[t]) : stack[t][i] \in Objects
  BY <1>1, ElementOfSeq
<1>3. /\ Popped(t) \in Seq(Objects)
      /\ Len(Popped(t)) = Len(stack[t]) - 1
      /\ \A i \in 1 .. Len(stack[t]) - 1 : Popped(t)[i] = stack[t][i]
  <2> DEFINE n == Len(stack[t]) - 1
  <2>1. n \in Nat /\ \A i \in 1 .. n : stack[t][i] \in Objects
    BY <1>1, <1>2
  <2>2. /\ SubSeq(stack[t], 1, n) \in Seq(Objects)
        /\ Len(SubSeq(stack[t], 1, n)) = IF 1 <= n THEN n - 1 + 1 ELSE 0
        /\ \A i \in 1 .. n - 1 + 1 : SubSeq(stack[t], 1, n)[i] = stack[t][1 + i - 1]
    BY <2>1, SubSeqProperties
  <2>3. QED
    BY <2>1, <2>2 DEF Popped
<1>4. /\ stack'[t] = Popped(t)
      /\ \A u \in Threads \ {t} : stack'[u] = stack[u]
      /\ stack' \in [Threads -> Seq(Objects)]
  BY <1>3 DEF Typed, ScopesTyped
<1>5. MaxDepth \in Nat
  BY LifecycleAssumption
<1>6. Top(t) \in Objects
  BY <1>1, <1>2 DEF Top
<1>7. \A u \in Threads : Len(stack'[u]) <= MaxDepth
  BY <1>1, <1>3, <1>4, <1>5 DEF Typed, ScopesTyped
<1>8. QED
  BY <1>1, <1>3, <1>4, <1>6, <1>7 DEF ScopesTyped
----------------------------------------------------------------------------
(* Ownership.                                                              *)

\* A new handle goes to a new object.
LEMMA PushKeepsOwned ==
  ASSUME Typed, Owned, NEW t \in Threads, NEW o \in Objects,
         Push(t, o), HasRoom(t), o \notin Owning, Owning' = Owning \cup {o}
  PROVE  Owned'
<1>1. /\ Len(stack'[t]) = Len(stack[t]) + 1
      /\ stack'[t][Len(stack[t]) + 1] = o
      /\ \A i \in 1 .. Len(stack[t]) : stack'[t][i] = stack[t][i]
      /\ \A u \in Threads \ {t} : stack'[u] = stack[u]
  BY PushedObject
<1>2. \A u \in Threads : Len(stack[u]) \in Nat
  BY LenProperties DEF Typed, ScopesTyped
<1>3. \A u \in Threads : \A i \in 1 .. Len(stack'[u]) :
        \/ i \in 1 .. Len(stack[u]) /\ stack'[u][i] = stack[u][i]
        \/ u = t /\ i = Len(stack[t]) + 1 /\ stack'[u][i] = o
  BY <1>1, <1>2
<1>4. \A u \in Threads : \A i \in 1 .. Len(stack[u]) :
        i \in 1 .. Len(stack'[u]) /\ stack'[u][i] = stack[u][i]
  BY <1>1, <1>2
<1>5. ASSUME NEW u \in Threads, NEW i \in 1 .. Len(stack'[u]),
             stack'[u][i].handle # Null
      PROVE  stack'[u][i] \in Owning'
  BY <1>3, <1>5 DEF Owned, HandlesOwned
<1>6. ASSUME NEW u \in Threads, NEW v \in Threads,
             NEW i \in 1 .. Len(stack'[u]), NEW j \in 1 .. Len(stack'[v]),
             stack'[u][i] = stack'[v][j], stack'[u][i].handle # Null
      PROVE  u = v /\ i = j
  <2>1. \A w \in Threads : \A k \in 1 .. Len(stack[w]) :
          stack[w][k].handle # Null => stack[w][k] # o
    BY DEF Owned, HandlesOwned
  <2>2. CASE stack'[u][i] = o
    BY <1>3, <1>6, <2>1, <2>2
  <2>3. CASE stack'[u][i] # o
    <3>1. /\ i \in 1 .. Len(stack[u]) /\ stack'[u][i] = stack[u][i]
          /\ j \in 1 .. Len(stack[v]) /\ stack'[v][j] = stack[v][j]
      BY <1>3, <1>6, <2>3
    <3>2. stack[u][i] = stack[v][j] /\ stack[u][i].handle # Null
      BY <1>6, <3>1
    <3>3. QED
      BY <3>1, <3>2 DEF Owned, OnePlace
  <2>4. QED
    BY <2>2, <2>3
<1>7. ASSUME NEW p \in Owning'
      PROVE  \E u \in Threads : \E i \in 1 .. Len(stack'[u]) : stack'[u][i] = p
  <2>1. CASE p = o
    <3>1. Len(stack[t]) + 1 \in 1 .. Len(stack'[t])
      BY <1>1, <1>2
    <3>2. QED
      BY <1>1, <2>1, <3>1
  <2>2. CASE p \in Owning
    <3>1. PICK u \in Threads : \E i \in 1 .. Len(stack[u]) : stack[u][i] = p
      BY <2>2 DEF Owned, AllHeld
    <3>2. QED
      BY <3>1, <1>4
  <2>3. QED
    BY <2>1, <2>2
<1>8. QED
  BY <1>5, <1>6, <1>7 DEF Owned, HandlesOwned, OnePlace, AllHeld

\* The destructor of the latest object gives its handle back, if it has one.
LEMMA PopKeepsOwned ==
  ASSUME Typed, Owned, NEW t \in Threads, stack[t] # <<>>,
         stack' = [stack EXCEPT ![t] = Popped(t)],
         Owning' = Owning \ {Top(t)}
  PROVE  Owned'
<1>1. /\ Len(stack[t]) \in Nat \ {0}
      /\ Len(stack'[t]) = Len(stack[t]) - 1
      /\ \A i \in 1 .. Len(stack[t]) - 1 : stack'[t][i] = stack[t][i]
      /\ \A u \in Threads \ {t} : stack'[u] = stack[u]
  BY PoppedObject
<1>2. \A u \in Threads : Len(stack[u]) \in Nat
  BY LenProperties DEF Typed, ScopesTyped
<1>3. \A u \in Threads : \A i \in 1 .. Len(stack'[u]) :
        /\ i \in 1 .. Len(stack[u]) /\ stack'[u][i] = stack[u][i]
        /\ ~(u = t /\ i = Len(stack[t]))
  BY <1>1, <1>2
<1>4. ASSUME NEW u \in Threads, NEW i \in 1 .. Len(stack'[u]),
             stack'[u][i].handle # Null
      PROVE  stack'[u][i] \in Owning'
  <2>1. stack[u][i] \in Owning /\ stack'[u][i] = stack[u][i]
    BY <1>3, <1>4 DEF Owned, HandlesOwned
  <2>2. Len(stack[t]) \in 1 .. Len(stack[t])
    BY <1>1
  <2>3. stack[u][i] # Top(t)
    BY <1>3, <1>4, <2>2 DEF Owned, OnePlace, Top
  <2>4. QED
    BY <2>1, <2>3
<1>5. ASSUME NEW u \in Threads, NEW v \in Threads,
             NEW i \in 1 .. Len(stack'[u]), NEW j \in 1 .. Len(stack'[v]),
             stack'[u][i] = stack'[v][j], stack'[u][i].handle # Null
      PROVE  u = v /\ i = j
  BY <1>3, <1>5 DEF Owned, OnePlace
<1>6. ASSUME NEW p \in Owning'
      PROVE  \E u \in Threads : \E i \in 1 .. Len(stack'[u]) : stack'[u][i] = p
  <2>1. p \in Owning /\ p # Top(t)
    OBVIOUS
  <2>2. PICK u \in Threads : \E i \in 1 .. Len(stack[u]) : stack[u][i] = p
    BY <2>1 DEF Owned, AllHeld
  <2>3. PICK i \in 1 .. Len(stack[u]) : stack[u][i] = p
    BY <2>2
  <2>4. i \in 1 .. Len(stack'[u]) /\ stack'[u][i] = p
    BY <1>1, <1>2, <2>1, <2>3 DEF Top
  <2>5. QED
    BY <2>4
<1>7. QED
  BY <1>4, <1>5, <1>6 DEF Owned, HandlesOwned, OnePlace, AllHeld

\* Nothing happens to the objects or to the handles they own.
LEMMA SameKeepsOwned ==
  ASSUME Owned, UNCHANGED stack, Owning' = Owning
  PROVE  Owned'
BY DEF Owned, HandlesOwned, OnePlace, AllHeld

\* What is known of an object that holds a handle.
LEMMA HolderOwns ==
  ASSUME Typed, Owned, NEW t \in Threads, NEW i \in 1 .. Len(stack[t])
  PROVE  /\ stack[t][i] \in Objects
         /\ stack[t][i].handle # Null =>
              \/ /\ stack[t][i].kind = "Socket"
                 /\ stack[t][i].handle \in SocketHandles
                 /\ socket[stack[t][i].handle].state = "open"
              \/ /\ stack[t][i].kind = "Context"
                 /\ stack[t][i].handle \in ContextHandles
                 /\ context[stack[t][i].handle] # "freed"
                 /\ stack[t][i].handle \notin leaked
<1>1. stack[t][i] \in Objects
  BY ElementOfSeq DEF Typed, ScopesTyped
<1>2. ASSUME stack[t][i].handle # Null
      PROVE  stack[t][i] \in Owning
  BY <1>2 DEF Owned, HandlesOwned
<1>3. QED
  BY <1>1, <1>2 DEF Owning, OpenSockets, LiveContexts

\* Moving an object: the new object is what the old one was, and the old one
\* holds no handle any more.
LEMMA MoveConstructKeepsOwned ==
  ASSUME Typed, Owned, NEW t \in Threads, NEW i \in 1 .. Len(stack[t]),
         NEW u \in Threads, MoveConstruct(t, i, u)
  PROVE  ScopesTyped' /\ Owned'
<1> DEFINE moved == [stack[t][i] EXCEPT !.handle = Null]
           left == [stack EXCEPT ![t][i] = moved]
           top == Len(stack[u]) + 1
<1>1. /\ stack' = [left EXCEPT ![u] = Append(left[u], stack[t][i])]
      /\ HasRoom(u)
      /\ Owning' = Owning
  BY DEF MoveConstruct, Owning, OpenSockets, LiveContexts, SocketHandles,
         ContextHandles
<1>2. /\ stack[t][i] \in Objects /\ moved \in Objects /\ moved.handle = Null
      /\ \A v \in Threads : stack[v] \in Seq(Objects) /\ Len(stack[v]) \in Nat
  BY HolderOwns, LenProperties DEF Typed, ScopesTyped, Objects, Null
<1>3. /\ [stack[t] EXCEPT ![i] = moved] \in Seq(Objects)
      /\ Len([stack[t] EXCEPT ![i] = moved]) = Len(stack[t])
      /\ \A j \in 1 .. Len(stack[t]) :
           [stack[t] EXCEPT ![i] = moved][j] = IF j = i THEN moved ELSE stack[t][j]
  BY <1>2, ExceptSeq
<1>4. /\ left \in [Threads -> Seq(Objects)]
      /\ \A v \in Threads : Len(left[v]) = Len(stack[v])
      /\ \A v \in Threads : \A j \in 1 .. Len(stack[v]) :
           left[v][j] = IF v = t /\ j = i THEN moved ELSE stack[v][j]
  <2>1. /\ left[t] = [stack[t] EXCEPT ![i] = moved]
        /\ \A v \in Threads \ {t} : left[v] = stack[v]
        /\ left \in [Threads -> Seq(Objects)]
    BY <1>3 DEF Typed, ScopesTyped
  <2> HIDE DEF left
  <2>2. QED
    BY <1>3, <2>1
<1> HIDE DEF left, moved
<1>5. /\ Append(left[u], stack[t][i]) \in Seq(Objects)
      /\ Len(Append(left[u], stack[t][i])) = top
      /\ \A j \in 1 .. Len(stack[u]) :
           Append(left[u], stack[t][i])[j] = left[u][j]
      /\ Append(left[u], stack[t][i])[top] = stack[t][i]
  BY <1>2, <1>4, AppendProperties
<1>6. /\ stack' \in [Threads -> Seq(Objects)]
      /\ stack'[u] = Append(left[u], stack[t][i])
      /\ \A v \in Threads \ {u} : stack'[v] = left[v]
  BY <1>1, <1>4, <1>5
<1>7. /\ stack'[u][top] = stack[t][i]
      /\ \A v \in Threads :
           Len(stack'[v]) = IF v = u THEN top ELSE Len(stack[v])
      /\ \A v \in Threads : \A j \in 1 .. Len(stack[v]) :
           stack'[v][j] = IF v = t /\ j = i THEN moved ELSE stack[v][j]
  <2>1. stack'[u][top] = stack[t][i]
    BY <1>5, <1>6
  <2>2. ASSUME NEW v \in Threads
        PROVE  /\ Len(stack'[v]) = IF v = u THEN top ELSE Len(stack[v])
               /\ \A j \in 1 .. Len(stack[v]) : stack'[v][j] = left[v][j]
    <3>1. CASE v = u
      BY <1>5, <1>6, <3>1
    <3>2. CASE v # u
      BY <1>4, <1>6, <3>2
    <3>3. QED
      BY <3>1, <3>2
  <2>3. QED
    BY <1>4, <2>1, <2>2
<1>8. ScopesTyped'
  <2>1. MaxDepth \in Nat
    BY LifecycleAssumption
  <2>2. \A v \in Threads : Len(stack'[v]) <= MaxDepth
    BY <1>1, <1>2, <1>7, <2>1 DEF Typed, ScopesTyped, HasRoom
  <2>3. QED
    BY <1>6, <2>2 DEF ScopesTyped
\* An object that holds a handle is where it was, or is the new one.
<1>9. ASSUME NEW v \in Threads, NEW j \in 1 .. Len(stack'[v]),
             stack'[v][j].handle # Null
      PROVE  \/ /\ v = u /\ j = top /\ stack'[v][j] = stack[t][i]
             \/ /\ j \in 1 .. Len(stack[v]) /\ stack'[v][j] = stack[v][j]
                /\ ~(v = t /\ j = i)
  <2>1. CASE v = u /\ j = top
    BY <1>7, <2>1
  <2>2. CASE ~(v = u /\ j = top)
    <3>1. j \in 1 .. Len(stack[v])
      BY <1>2, <1>7, <2>2
    <3>2. QED
      BY <1>2, <1>7, <1>9, <3>1
  <2>3. QED
    BY <2>1, <2>2
<1>10. ASSUME NEW v \in Threads, NEW j \in 1 .. Len(stack'[v]),
              stack'[v][j].handle # Null
       PROVE  stack'[v][j] \in Owning'
  BY <1>1, <1>9, <1>10 DEF Owned, HandlesOwned
<1>11. ASSUME NEW v \in Threads, NEW w \in Threads,
              NEW j \in 1 .. Len(stack'[v]), NEW k \in 1 .. Len(stack'[w]),
              stack'[v][j] = stack'[w][k], stack'[v][j].handle # Null
       PROVE  v = w /\ j = k
  <2>1. CASE v = u /\ j = top
    <3>1. CASE w = u /\ k = top
      BY <2>1, <3>1
    <3>2. CASE /\ k \in 1 .. Len(stack[w]) /\ stack'[w][k] = stack[w][k]
               /\ ~(w = t /\ k = i)
      <4>1. stack[w][k] = stack[t][i] /\ stack[w][k].handle # Null
        BY <1>7, <1>11, <2>1, <3>2
      <4>2. QED
        BY <3>2, <4>1 DEF Owned, OnePlace
    <3>3. QED
      BY <1>9, <1>11, <3>1, <3>2
  <2>2. CASE /\ j \in 1 .. Len(stack[v]) /\ stack'[v][j] = stack[v][j]
             /\ ~(v = t /\ j = i)
    <3>1. CASE w = u /\ k = top
      <4>1. stack[v][j] = stack[t][i] /\ stack[v][j].handle # Null
        BY <1>7, <1>11, <2>2, <3>1
      <4>2. QED
        BY <2>2, <4>1 DEF Owned, OnePlace
    <3>2. CASE k \in 1 .. Len(stack[w]) /\ stack'[w][k] = stack[w][k]
      <4>1. stack[v][j] = stack[w][k] /\ stack[v][j].handle # Null
        BY <1>11, <2>2, <3>2
      <4>2. QED
        BY <2>2, <3>2, <4>1 DEF Owned, OnePlace
    <3>3. QED
      BY <1>9, <1>11, <3>1, <3>2
  <2>3. QED
    BY <1>9, <1>11, <2>1, <2>2
<1>12. ASSUME NEW o \in Owning'
       PROVE  \E v \in Threads : \E j \in 1 .. Len(stack'[v]) : stack'[v][j] = o
  <2>1. PICK v \in Threads : \E j \in 1 .. Len(stack[v]) : stack[v][j] = o
    BY <1>1 DEF Owned, AllHeld
  <2>2. PICK j \in 1 .. Len(stack[v]) : stack[v][j] = o
    BY <2>1
  <2>3. CASE v = t /\ j = i
    <3>1. top \in 1 .. Len(stack'[u])
      BY <1>2, <1>7
    <3>2. QED
      BY <1>7, <2>2, <2>3, <3>1
  <2>4. CASE ~(v = t /\ j = i)
    <3>1. j \in 1 .. Len(stack'[v]) /\ stack'[v][j] = o
      BY <1>2, <1>7, <2>2, <2>4
    <3>2. QED
      BY <3>1
  <2>5. QED
    BY <2>3, <2>4
<1>13. QED
  BY <1>8, <1>10, <1>11, <1>12 DEF Owned, HandlesOwned, OnePlace, AllHeld

\* A move assignment exchanges two objects of the same kind.
LEMMA MoveAssignKeepsOwned ==
  ASSUME Typed, Owned, NEW t \in Threads, NEW i \in 1 .. Len(stack[t]),
         NEW j \in 1 .. Len(stack[t]), MoveAssign(t, i, j)
  PROVE  ScopesTyped' /\ Owned'
<1> DEFINE a == stack[t][i]
           b == stack[t][j]
           half == [stack[t] EXCEPT ![i] = b]
           whole == [half EXCEPT ![j] = a]
<1>1. /\ i # j /\ a.kind = b.kind
      /\ stack' = [stack EXCEPT ![t][i].handle = b.handle,
                                ![t][j].handle = a.handle]
  BY DEF MoveAssign
<1>2. Owning' = Owning
  BY DEF MoveAssign, Owning, OpenSockets, LiveContexts, SocketHandles,
         ContextHandles
<1>3. /\ a \in Objects /\ b \in Objects
      /\ \A v \in Threads : stack[v] \in Seq(Objects) /\ Len(stack[v]) \in Nat
  BY HolderOwns, LenProperties DEF Typed, ScopesTyped
<1>4. [a EXCEPT !.handle = b.handle] = b /\ [b EXCEPT !.handle = a.handle] = a
  <2> HIDE DEF a, b
  <2>1. QED
    BY <1>1, <1>3 DEF Objects
<1>5. /\ half \in Seq(Objects) /\ Len(half) = Len(stack[t])
      /\ \A k \in 1 .. Len(stack[t]) : half[k] = IF k = i THEN b ELSE stack[t][k]
  BY <1>3, ExceptSeq
<1>6. /\ whole \in Seq(Objects) /\ Len(whole) = Len(stack[t])
      /\ \A k \in 1 .. Len(stack[t]) : whole[k] = IF k = j THEN a ELSE half[k]
  <2> HIDE DEF half
  <2>1. QED
    BY <1>3, <1>5, ExceptSeq
<1>7. stack' = [stack EXCEPT ![t] = whole]
  <2>1. stack' = [[stack EXCEPT ![t] = [stack[t] EXCEPT
                                          ![i] = [a EXCEPT !.handle = b.handle]]]
                    EXCEPT ![t][j].handle = a.handle]
    BY <1>1
  <2>2. stack' = [[stack EXCEPT ![t] = half] EXCEPT ![t][j].handle = a.handle]
    BY <1>4, <2>1
  <2>3. half[j] = b
    BY <1>1, <1>5
  <2>4. [half EXCEPT ![j].handle = a.handle] = whole
    BY <1>4, <2>3
  <2>5. QED
    BY <2>2, <2>4 DEF Typed, ScopesTyped
<1>8. /\ stack' \in [Threads -> Seq(Objects)]
      /\ \A v \in Threads : Len(stack'[v]) = Len(stack[v])
      /\ \A v \in Threads : \A k \in 1 .. Len(stack[v]) :
           stack'[v][k] = IF v = t /\ k = i THEN stack[t][j]
                          ELSE IF v = t /\ k = j THEN stack[t][i]
                          ELSE stack[v][k]
  <2> HIDE DEF whole, half
  <2>1. /\ stack'[t] = whole
        /\ \A v \in Threads \ {t} : stack'[v] = stack[v]
        /\ stack' \in [Threads -> Seq(Objects)]
    BY <1>6, <1>7 DEF Typed, ScopesTyped
  <2>2. \A k \in 1 .. Len(stack[t]) :
          whole[k] = IF k = i THEN b ELSE IF k = j THEN a ELSE stack[t][k]
    BY <1>1, <1>5, <1>6
  <2>3. QED
    BY <1>6, <2>1, <2>2
<1> HIDE DEF a, b, half, whole
<1>9. ScopesTyped'
  BY <1>8 DEF Typed, ScopesTyped
<1>10. ASSUME NEW v \in Threads, NEW k \in 1 .. Len(stack'[v]),
             stack'[v][k].handle # Null
      PROVE  stack'[v][k] \in Owning'
  <2>1. PICK k0 \in 1 .. Len(stack[v]) : stack'[v][k] = stack[v][k0]
    BY <1>8
  <2>2. stack[v][k0].handle # Null
    BY <1>10, <2>1
  <2>3. stack[v][k0] \in Owning
    BY <2>2 DEF Owned, HandlesOwned
  <2>4. QED
    BY <1>2, <2>1, <2>3
<1>11. ASSUME NEW v \in Threads, NEW w \in Threads,
              NEW k \in 1 .. Len(stack'[v]), NEW l \in 1 .. Len(stack'[w]),
              stack'[v][k] = stack'[w][l], stack'[v][k].handle # Null
       PROVE  v = w /\ k = l
  <2>1. PICK k0 \in 1 .. Len(stack[v]) :
          /\ stack'[v][k] = stack[v][k0]
          /\ \/ v = t /\ k = i /\ k0 = j
             \/ v = t /\ k = j /\ k0 = i
             \/ ~(v = t /\ k = i) /\ ~(v = t /\ k = j) /\ k0 = k
    BY <1>8
  <2>2. PICK l0 \in 1 .. Len(stack[w]) :
          /\ stack'[w][l] = stack[w][l0]
          /\ \/ w = t /\ l = i /\ l0 = j
             \/ w = t /\ l = j /\ l0 = i
             \/ ~(w = t /\ l = i) /\ ~(w = t /\ l = j) /\ l0 = l
    BY <1>8
  <2>3. stack[v][k0] = stack[w][l0] /\ stack[v][k0].handle # Null
    BY <1>11, <2>1, <2>2
  <2>4. v = w /\ k0 = l0
    BY <2>3 DEF Owned, OnePlace
  <2>5. QED
    BY <1>1, <2>1, <2>2, <2>4
<1>12. ASSUME NEW o \in Owning'
       PROVE  \E v \in Threads : \E k \in 1 .. Len(stack'[v]) : stack'[v][k] = o
  <2>1. PICK v \in Threads : \E k \in 1 .. Len(stack[v]) : stack[v][k] = o
    BY <1>2 DEF Owned, AllHeld
  <2>2. PICK k \in 1 .. Len(stack[v]) : stack[v][k] = o
    BY <2>1
  <2>3. PICK l \in 1 .. Len(stack'[v]) : stack'[v][l] = o
    BY <1>8, <2>2
  <2>4. QED
    BY <2>3
<1>13. QED
  BY <1>9, <1>10, <1>11, <1>12 DEF Owned, HandlesOwned, OnePlace, AllHeld
----------------------------------------------------------------------------
(* The handles.                                                            *)

LEMMA SocketsTyped ==
  ASSUME Typed
  PROVE  \A h \in SocketHandles :
           /\ socket[h] \in SocketRecords
           /\ socket[h].context \in ContextHandles
<1>1. \A h \in SocketHandles : socket[h] \in SocketRecords
  BY ElementOfSeq DEF Typed, HandlesTyped, SocketHandles
<1>2. QED
  BY <1>1 DEF SocketRecords

LEMMA FiniteSockets ==
  ASSUME Typed, NEW c
  PROVE  IsFiniteSet(SocketsOf(c)) /\ Cardinality(SocketsOf(c)) \in Nat
<1>1. Len(socket) \in Nat
  BY LenProperties DEF Typed, HandlesTyped
<1>2. IsFiniteSet(1 .. Len(socket))
  BY <1>1, FS_Interval
<1>3. SocketsOf(c) \in SUBSET (1 .. Len(socket))
  BY DEF SocketsOf, SocketHandles
<1>4. IsFiniteSet(SocketsOf(c))
  BY <1>2, <1>3, FS_Subset
<1>5. QED
  BY <1>4, FS_CardinalityType

\* A new context: it has no socket yet.
LEMMA ContextAppended ==
  ASSUME Typed, SlotsBounded, ContextOutlivesSockets,
         context' = Append(context, "open"), UNCHANGED socket
  PROVE  /\ context' \in Seq({"open", "terminating", "freed"})
         /\ socket' \in Seq(SocketRecords')
         /\ Len(context) \in Nat /\ Len(context') = Len(context) + 1
         /\ \A c \in ContextHandles : context'[c] = context[c]
         /\ context'[Len(context')] = "open"
         /\ SlotsBounded' /\ ContextOutlivesSockets'
<1>1. /\ context' \in Seq({"open", "terminating", "freed"})
      /\ Len(context) \in Nat /\ Len(context') = Len(context) + 1
      /\ \A c \in ContextHandles : context'[c] = context[c]
      /\ context'[Len(context')] = "open"
  BY AppendProperties, LenProperties DEF Typed, HandlesTyped, ContextHandles
<1>2. \A h \in SocketHandles : socket[h] \in SocketRecords
  BY SocketsTyped
<1>3. ContextHandles' = ContextHandles \cup {Len(context')}
  BY <1>1 DEF ContextHandles
<1>4. socket' \in Seq(SocketRecords')
  <2>1. SocketRecords \subseteq SocketRecords'
    BY <1>3 DEF SocketRecords
  <2>2. Len(socket) \in Nat /\ socket \in [1 .. Len(socket) -> SocketRecords]
    BY LenProperties DEF Typed, HandlesTyped
  <2>3. socket \in [1 .. Len(socket) -> SocketRecords']
    BY <2>1, <2>2
  <2>4. QED
    BY <2>2, <2>3, SeqDef
<1>5. SlotsBounded'
  <2>1. \A c \in ContextHandles : SocketsOf(c)' = SocketsOf(c)
    BY DEF SocketsOf, SocketHandles
  <2>2. ASSUME NEW c \in ContextHandles', c = Len(context) + 1
        PROVE  SocketsOf(c)' = {}
    BY <1>1, <1>2, <2>2
    DEF SocketsOf, SocketHandles, SocketRecords, ContextHandles
  <2>3. Cardinality({}) <= MaxSocketCount
    BY FS_EmptySet, LifecycleAssumption
  <2>4. ASSUME NEW c \in ContextHandles'
        PROVE  Cardinality(SocketsOf(c)') <= MaxSocketCount
    <3>1. CASE c \in ContextHandles
      BY <2>1, <3>1 DEF SlotsBounded
    <3>2. CASE c = Len(context) + 1
      BY <2>2, <2>3, <3>2
    <3>3. QED
      BY <1>1, <1>3, <3>1, <3>2
  <2>5. QED
    BY <2>4 DEF SlotsBounded
<1>6. ContextOutlivesSockets'
  BY <1>1, <1>2
  DEF ContextOutlivesSockets, SocketHandles, SocketRecords, ContextHandles
<1>7. QED
  BY <1>1, <1>4, <1>5, <1>6

\* A context's termination begins or is over.
LEMMA ContextSet ==
  ASSUME Typed, SlotsBounded, NEW c \in ContextHandles,
         NEW s \in {"open", "terminating", "freed"},
         context' = [context EXCEPT ![c] = s], UNCHANGED socket
  PROVE  /\ context' \in Seq({"open", "terminating", "freed"})
         /\ Len(context') = Len(context)
         /\ \A d \in ContextHandles :
              context'[d] = IF d = c THEN s ELSE context[d]
         /\ socket' \in Seq(SocketRecords')
         /\ SlotsBounded'
<1>1. /\ context' \in Seq({"open", "terminating", "freed"})
      /\ Len(context') = Len(context)
      /\ \A d \in ContextHandles :
           context'[d] = IF d = c THEN s ELSE context[d]
  BY ExceptSeq DEF Typed, HandlesTyped, ContextHandles
<1>2. ContextHandles' = ContextHandles
  BY <1>1 DEF ContextHandles
<1>3. socket' \in Seq(SocketRecords')
  BY <1>2 DEF Typed, HandlesTyped, SocketRecords
<1>4. SlotsBounded'
  BY <1>2 DEF SlotsBounded, SocketsOf, SocketHandles
<1>5. QED
  BY <1>1, <1>3, <1>4

\* A new socket takes a slot of a context that has one.
LEMMA SocketAppended ==
  ASSUME Typed, SlotsBounded, ContextOutlivesSockets,
         NEW r \in SocketRecords, r.state = "open",
         context[r.context] # "freed",
         Cardinality(SocketsOf(r.context)) < MaxSocketCount,
         socket' = Append(socket, r), UNCHANGED context
  PROVE  /\ socket' \in Seq(SocketRecords')
         /\ Len(socket) \in Nat /\ Len(socket') = Len(socket) + 1
         /\ \A h \in SocketHandles : socket'[h] = socket[h]
         /\ socket'[Len(socket')] = r
         /\ SlotsBounded' /\ ContextOutlivesSockets'
<1>1. /\ socket' \in Seq(SocketRecords)
      /\ Len(socket) \in Nat /\ Len(socket') = Len(socket) + 1
      /\ \A h \in SocketHandles : socket'[h] = socket[h]
      /\ socket'[Len(socket')] = r
  BY AppendProperties, LenProperties DEF Typed, HandlesTyped, SocketHandles
<1>2. SocketHandles' = SocketHandles \cup {Len(socket')}
  BY <1>1 DEF SocketHandles
<1>3. ContextHandles' = ContextHandles /\ SocketRecords' = SocketRecords
  BY DEF ContextHandles, SocketRecords
<1>4. SlotsBounded'
  <2> SUFFICES ASSUME NEW c \in ContextHandles
               PROVE  Cardinality(SocketsOf(c)') <= MaxSocketCount
    BY <1>3 DEF SlotsBounded
  <2>1. CASE c # r.context
    <3>1. SocketsOf(c)' = SocketsOf(c)
      BY <1>1, <1>2, <2>1 DEF SocketsOf
    <3>2. QED
      BY <3>1 DEF SlotsBounded
  <2>2. CASE c = r.context
    <3>1. SocketsOf(c)' = SocketsOf(c) \cup {Len(socket')}
      BY <1>1, <1>2, <2>2 DEF SocketsOf
    <3>2. Len(socket') \notin SocketsOf(c)
      BY <1>1 DEF SocketsOf, SocketHandles
    <3>3. IsFiniteSet(SocketsOf(c))
      BY FiniteSockets
    <3>4. /\ Cardinality(SocketsOf(c)') = Cardinality(SocketsOf(c)) + 1
          /\ Cardinality(SocketsOf(c)) \in Nat
      BY <3>1, <3>2, <3>3, FS_AddElement, FS_CardinalityType
    <3>5. QED
      BY <2>2, <3>4, LifecycleAssumption
  <2>3. QED
    BY <2>1, <2>2
<1>5. ContextOutlivesSockets'
  BY <1>1, <1>2 DEF ContextOutlivesSockets
<1>6. QED
  BY <1>1, <1>3, <1>4, <1>5

\* A socket changes, in the same context and without coming back to life.
LEMMA SocketSet ==
  ASSUME Typed, SlotsBounded, ContextOutlivesSockets,
         NEW h \in SocketHandles, NEW r \in SocketRecords,
         r.context = socket[h].context,
         socket[h].state = "reaped" => r.state = "reaped",
         socket' = [socket EXCEPT ![h] = r], UNCHANGED context
  PROVE  /\ socket' \in Seq(SocketRecords')
         /\ Len(socket') = Len(socket)
         /\ \A k \in SocketHandles : socket'[k] = IF k = h THEN r ELSE socket[k]
         /\ SlotsBounded' /\ ContextOutlivesSockets'
<1>1. /\ socket' \in Seq(SocketRecords) /\ Len(socket') = Len(socket)
      /\ \A k \in SocketHandles : socket'[k] = IF k = h THEN r ELSE socket[k]
      /\ Len(socket) \in Nat
  BY ExceptSeq, LenProperties DEF Typed, HandlesTyped, SocketHandles
<1>2. /\ ContextHandles' = ContextHandles /\ SocketRecords' = SocketRecords
      /\ SocketHandles' = SocketHandles
  BY <1>1 DEF ContextHandles, SocketRecords, SocketHandles
<1>3. SlotsBounded'
  <2> SUFFICES ASSUME NEW c \in ContextHandles
               PROVE  Cardinality(SocketsOf(c)') <= MaxSocketCount
    BY <1>2 DEF SlotsBounded
  <2>1. SocketsOf(c)' \subseteq SocketsOf(c)
    BY <1>1, <1>2 DEF SocketsOf
  <2>2. IsFiniteSet(SocketsOf(c))
    BY FiniteSockets
  <2>3. /\ Cardinality(SocketsOf(c)') <= Cardinality(SocketsOf(c))
        /\ Cardinality(SocketsOf(c)') \in Nat /\ Cardinality(SocketsOf(c)) \in Nat
    BY <2>1, <2>2, FS_Subset, FS_CardinalityType
  <2>4. QED
    BY <2>3, LifecycleAssumption DEF SlotsBounded
<1>4. ContextOutlivesSockets'
  BY <1>1, <1>2 DEF ContextOutlivesSockets
<1>5. QED
  BY <1>1, <1>2, <1>3, <1>4
----------------------------------------------------------------------------
(* Steps.                                                                  *)

\* The threads that are in ~Context after a step were there before, with the
\* same scopes.
LEMMA SameTermShape ==
  ASSUME TermShape,
         \A u \in Threads :
           at'[u] = "term" => at[u] = "term" /\ stack'[u] = stack[u]
  PROVE  TermShape'
BY DEF TermShape, Top

LEMMA ConstructContextStep ==
  ASSUME IInv, NEW t \in Threads, ConstructContext(t)
  PROVE  IInv'
<1> DEFINE o == [kind |-> "Context", handle |-> Len(context) + 1]
<1>1. /\ Typed /\ SlotsBounded /\ Owned /\ TermShape /\ ContextOutlivesSockets
      /\ HasRoom(t) /\ at[t] = "app"
      /\ UNCHANGED <<at, callOn, unwinding, failed, socket, leaked>>
  BY DEF IInv, ConstructContext, InAppCode
<1>2. /\ context' \in Seq({"open", "terminating", "freed"})
      /\ socket' \in Seq(SocketRecords')
      /\ Len(context) \in Nat /\ Len(context') = Len(context) + 1
      /\ \A c \in ContextHandles : context'[c] = context[c]
      /\ context'[Len(context')] = "open"
      /\ SlotsBounded' /\ ContextOutlivesSockets'
  BY <1>1, ContextAppended DEF ConstructContext
<1>3. o \in Objects /\ Push(t, o)
  BY <1>2 DEF ConstructContext, Objects, Kinds
<1>4. ContextHandles' = ContextHandles \cup {Len(context) + 1}
  BY <1>2 DEF ContextHandles
<1>5. Owning' = Owning \cup {o} /\ o \notin Owning
  <2>1. OpenSockets' = OpenSockets
    BY <1>1 DEF OpenSockets, SocketHandles
  <2>2. Len(context) + 1 \notin ContextHandles
    BY <1>2 DEF ContextHandles
  <2>3. LiveContexts' = LiveContexts \cup {Len(context) + 1}
    BY <1>1, <1>2, <1>4, <2>2 DEF LiveContexts, Typed, HandlesTyped
  <2>4. QED
    BY <2>1, <2>2, <2>3 DEF Owning, LiveContexts
<1>6. Owned' /\ ScopesTyped'
  <2> HIDE DEF o
  <2>1. QED
    BY <1>1, <1>3, <1>5, PushKeepsOwned, PushedObject
<1>7. ThreadsTyped' /\ HandlesTyped'
  BY <1>1, <1>2, <1>4 DEF Typed, ThreadsTyped, HandlesTyped
<1>8. TermShape'
  <2> HIDE DEF o
  <2>1. \A u \in Threads \ {t} : stack'[u] = stack[u]
    BY <1>1, <1>3, PushedObject
  <2>2. QED
    BY <1>1, <2>1, SameTermShape
<1>9. QED
  BY <1>2, <1>6, <1>7, <1>8 DEF IInv, Typed

LEMMA ConstructContextThrowsStep ==
  ASSUME IInv, NEW t \in Threads, ConstructContextThrows(t)
  PROVE  IInv'
<1>1. /\ Typed /\ SlotsBounded /\ Owned /\ TermShape /\ ContextOutlivesSockets
      /\ leaked' = leaked \cup {Len(context')}
      /\ unwinding' = [unwinding EXCEPT ![t] = TRUE]
      /\ UNCHANGED <<stack, at, callOn, failed, socket>>
  BY DEF IInv, ConstructContextThrows
<1>2. /\ context' \in Seq({"open", "terminating", "freed"})
      /\ socket' \in Seq(SocketRecords')
      /\ Len(context) \in Nat /\ Len(context') = Len(context) + 1
      /\ \A c \in ContextHandles : context'[c] = context[c]
      /\ SlotsBounded' /\ ContextOutlivesSockets'
  BY <1>1, ContextAppended DEF ConstructContextThrows
<1>3. ContextHandles' = ContextHandles \cup {Len(context) + 1}
  BY <1>2 DEF ContextHandles
<1>4. Owning' = Owning
  <2>1. OpenSockets' = OpenSockets
    BY <1>1 DEF OpenSockets, SocketHandles
  <2>2. Len(context) + 1 \notin ContextHandles
    BY <1>2 DEF ContextHandles
  <2>3. LiveContexts' = LiveContexts
    BY <1>1, <1>2, <1>3, <2>2 DEF LiveContexts
  <2>4. QED
    BY <2>1, <2>3 DEF Owning
<1>5. Owned'
  BY <1>1, <1>4, SameKeepsOwned
<1>6. ScopesTyped' /\ ThreadsTyped' /\ HandlesTyped'
  BY <1>1, <1>2, <1>3 DEF Typed, ScopesTyped, ThreadsTyped, HandlesTyped
<1>7. TermShape'
  BY <1>1, SameTermShape
<1>8. QED
  BY <1>2, <1>5, <1>6, <1>7 DEF IInv, Typed

LEMMA CreateSocketStep ==
  ASSUME IInv, NEW t \in Threads, NEW p \in Places("Context"), CreateSocket(t, p)
  PROVE  IInv'
<1> DEFINE o == [kind |-> "Socket", handle |-> Len(socket) + 1]
           r == [state |-> "open", context |-> HandleAt(p),
                 lingers |-> TRUE, unsent |-> FALSE]
<1>1. /\ Typed /\ SlotsBounded /\ Owned /\ TermShape /\ ContextOutlivesSockets
      /\ HasRoom(t) /\ at[t] = "app"
      /\ HandleAt(p) # Null
      /\ Cardinality(SocketsOf(HandleAt(p))) < MaxSocketCount
      /\ socket' = Append(socket, r)
      /\ UNCHANGED <<at, callOn, unwinding, failed, context, leaked>>
  BY DEF IInv, CreateSocket, InAppCode
\* The context is open or terminating: its object owns it.
<1>2. HandleAt(p) \in ContextHandles /\ context[HandleAt(p)] # "freed"
  <2>1. /\ p[1] \in Threads /\ p[2] \in 1 .. Len(stack[p[1]])
        /\ stack[p[1]][p[2]].kind = "Context"
    BY DEF Places
  <2>2. QED
    BY <1>1, <2>1, HolderOwns DEF HandleAt
<1>3. r \in SocketRecords
  BY <1>2 DEF SocketRecords, States
<1>4. /\ socket' \in Seq(SocketRecords')
      /\ Len(socket) \in Nat /\ Len(socket') = Len(socket) + 1
      /\ \A h \in SocketHandles : socket'[h] = socket[h]
      /\ socket'[Len(socket')] = r
      /\ SlotsBounded' /\ ContextOutlivesSockets'
  <2>1. r.state = "open" /\ r.context = HandleAt(p)
    OBVIOUS
  <2> HIDE DEF r
  <2>2. QED
    BY <1>1, <1>2, <1>3, <2>1, SocketAppended
<1>5. o \in Objects /\ Push(t, o)
  BY <1>4 DEF CreateSocket, Objects, Kinds
<1>6. SocketHandles' = SocketHandles \cup {Len(socket) + 1}
  BY <1>4 DEF SocketHandles
<1>7. Owning' = Owning \cup {o} /\ o \notin Owning
  <2>1. LiveContexts' = LiveContexts
    BY <1>1 DEF LiveContexts, ContextHandles
  <2>2. Len(socket) + 1 \notin SocketHandles
    BY <1>4 DEF SocketHandles
  <2>3. OpenSockets' = OpenSockets \cup {Len(socket) + 1}
    BY <1>4, <1>6, <2>2 DEF OpenSockets
  <2>4. QED
    BY <2>1, <2>2, <2>3 DEF Owning, OpenSockets
<1> HIDE DEF o
<1>8. Owned' /\ ScopesTyped'
  BY <1>1, <1>5, <1>7, PushKeepsOwned, PushedObject
<1>9. ThreadsTyped' /\ HandlesTyped'
  BY <1>1, <1>4 DEF Typed, ThreadsTyped, HandlesTyped, ContextHandles
<1>10. TermShape'
  <2>1. \A u \in Threads \ {t} : stack'[u] = stack[u]
    BY <1>1, <1>5, PushedObject
  <2>2. QED
    BY <1>1, <2>1, SameTermShape
<1>11. QED
  BY <1>4, <1>8, <1>9, <1>10 DEF IInv, Typed

\* Steps of a thread that change no object and no handle.
LEMMA ThreadOnlyStep ==
  ASSUME IInv, UNCHANGED <<stack, context, socket, leaked>>, ThreadsTyped',
         \A u \in Threads : at'[u] = "term" => at[u] = "term"
  PROVE  IInv'
<1>1. Owning' = Owning
  BY DEF Owning, OpenSockets, LiveContexts, SocketHandles, ContextHandles
<1>2. Owned'
  BY <1>1, SameKeepsOwned DEF IInv
<1>3. ScopesTyped' /\ HandlesTyped'
  BY DEF IInv, Typed, ScopesTyped, HandlesTyped, SocketRecords, ContextHandles
<1>4. TermShape'
  BY SameTermShape DEF IInv
<1>5. SlotsBounded' /\ ContextOutlivesSockets'
  BY DEF IInv, SlotsBounded, ContextOutlivesSockets, SocketsOf, SocketHandles,
         ContextHandles
<1>6. QED
  BY <1>2, <1>3, <1>4, <1>5 DEF IInv, Typed

\* Steps that change a socket otherwise than by closing it.
LEMMA SocketOnlyStep ==
  ASSUME IInv, NEW h \in SocketHandles, NEW r \in SocketRecords,
         r.context = socket[h].context,
         \/ r.state = socket[h].state
         \/ socket[h].state = "closed" /\ r.state = "reaped",
         socket' = [socket EXCEPT ![h] = r],
         UNCHANGED <<threadVars, context, leaked>>
  PROVE  IInv'
<1>1. /\ Typed /\ SlotsBounded /\ Owned /\ TermShape /\ ContextOutlivesSockets
      /\ UNCHANGED <<stack, at, callOn, unwinding, failed, context, leaked>>
  BY DEF IInv, threadVars
<1>2. /\ socket' \in Seq(SocketRecords')
      /\ Len(socket') = Len(socket)
      /\ \A k \in SocketHandles : socket'[k] = IF k = h THEN r ELSE socket[k]
      /\ SlotsBounded' /\ ContextOutlivesSockets'
  BY <1>1, SocketSet
<1>3. Owning' = Owning
  <2>1. LiveContexts' = LiveContexts
    BY <1>1 DEF LiveContexts, ContextHandles
  <2>2. OpenSockets' = OpenSockets
    BY <1>2 DEF OpenSockets, SocketHandles
  <2>3. QED
    BY <2>1, <2>2 DEF Owning
<1>4. Owned'
  BY <1>1, <1>3, SameKeepsOwned
<1>5. ScopesTyped' /\ ThreadsTyped' /\ HandlesTyped'
  BY <1>1, <1>2
  DEF Typed, ScopesTyped, ThreadsTyped, HandlesTyped, ContextHandles
<1>6. TermShape'
  BY <1>1, SameTermShape
<1>7. QED
  BY <1>2, <1>4, <1>5, <1>6 DEF IInv, Typed

LEMMA DestroySocketStep ==
  ASSUME IInv, NEW t \in Threads, DestroySocket(t)
  PROVE  IInv'
<1>1. /\ Typed /\ SlotsBounded /\ Owned /\ TermShape /\ ContextOutlivesSockets
      /\ at[t] = "app" /\ stack[t] # <<>> /\ Top(t).kind = "Socket"
      /\ stack' = [stack EXCEPT ![t] = Popped(t)]
      /\ UNCHANGED <<at, callOn, unwinding, failed, context, leaked>>
  BY DEF IInv, DestroySocket, LeavesScope
<1>2. /\ ScopesTyped' /\ Top(t) \in Objects
      /\ Len(stack[t]) \in Nat \ {0}
      /\ \A u \in Threads \ {t} : stack'[u] = stack[u]
  BY <1>1, PoppedObject
<1>3. TermShape'
  BY <1>1, <1>2, SameTermShape
<1>4. CASE Top(t).handle = Null
  <2>1. UNCHANGED socket
    BY <1>4 DEF DestroySocket
  <2>2. Owning' = Owning /\ Top(t) \notin Owning
    BY <1>1, <1>4, <2>1
    DEF Owning, OpenSockets, LiveContexts, SocketHandles, ContextHandles, Null
  <2>3. Owned'
    BY <1>1, <2>2, PopKeepsOwned
  <2>4. ThreadsTyped' /\ HandlesTyped' /\ SlotsBounded' /\ ContextOutlivesSockets'
    BY <1>1, <2>1
    DEF Typed, ThreadsTyped, HandlesTyped, SlotsBounded, ContextOutlivesSockets,
        SocketsOf, SocketHandles, ContextHandles, SocketRecords
  <2>5. QED
    BY <1>2, <1>3, <2>3, <2>4 DEF IInv, Typed
<1>5. CASE Top(t).handle # Null
  <2> DEFINE h == Top(t).handle
             r == [socket[h] EXCEPT !.state = "closed"]
  <2>1. h \in SocketHandles /\ socket[h].state = "open"
    BY <1>1, <1>2, <1>5, HolderOwns DEF Top
  <2>2. socket[h] \in SocketRecords
    BY <1>1, <2>1, SocketsTyped
  <2>3. /\ r \in SocketRecords /\ r.context = socket[h].context
        /\ r.state = "closed"
    BY <2>2 DEF SocketRecords, States
  <2>4. socket' = [socket EXCEPT ![h] = r]
    BY <1>5 DEF DestroySocket
  <2>5. /\ socket' \in Seq(SocketRecords')
        /\ Len(socket') = Len(socket)
        /\ \A k \in SocketHandles : socket'[k] = IF k = h THEN r ELSE socket[k]
        /\ SlotsBounded' /\ ContextOutlivesSockets'
    <3> HIDE DEF r, h
    <3>1. QED
      BY <1>1, <2>1, <2>3, <2>4, SocketSet
  <2>6. Owning' = Owning \ {Top(t)}
    <3>1. LiveContexts' = LiveContexts
      BY <1>1 DEF LiveContexts, ContextHandles
    <3>2. OpenSockets' = OpenSockets \ {h}
      <4> HIDE DEF r
      <4>1. QED
        BY <2>1, <2>3, <2>5 DEF OpenSockets, SocketHandles
    <3>3. QED
      BY <1>1, <1>2, <3>1, <3>2 DEF Owning, Objects
  <2>7. Owned'
    BY <1>1, <2>6, PopKeepsOwned
  <2>8. ThreadsTyped' /\ HandlesTyped'
    BY <1>1, <2>5 DEF Typed, ThreadsTyped, HandlesTyped, ContextHandles
  <2>9. QED
    BY <1>2, <1>3, <2>5, <2>7, <2>8 DEF IInv, Typed
<1>6. QED
  BY <1>4, <1>5

LEMMA DestroyContextStep ==
  ASSUME IInv, NEW t \in Threads, DestroyContext(t)
  PROVE  IInv'
<1>1. /\ Typed /\ SlotsBounded /\ Owned /\ TermShape /\ ContextOutlivesSockets
      /\ at[t] = "app" /\ stack[t] # <<>> /\ Top(t).kind = "Context"
      /\ UNCHANGED <<callOn, unwinding, failed, socket, leaked>>
  BY DEF IInv, DestroyContext, LeavesScope
<1>2. CASE Top(t).handle = Null
  <2>1. /\ stack' = [stack EXCEPT ![t] = Popped(t)]
        /\ UNCHANGED <<at, context>>
    BY <1>2 DEF DestroyContext
  <2>2. /\ ScopesTyped'
        /\ \A u \in Threads \ {t} : stack'[u] = stack[u]
    BY <1>1, <2>1, PoppedObject
  <2>3. Owning' = Owning /\ Top(t) \notin Owning
    BY <1>1, <1>2, <2>1
    DEF Owning, OpenSockets, LiveContexts, SocketHandles, ContextHandles, Null
  <2>4. Owned'
    BY <1>1, <2>1, <2>3, PopKeepsOwned
  <2>5. ThreadsTyped' /\ HandlesTyped' /\ SlotsBounded' /\ ContextOutlivesSockets'
    BY <1>1, <2>1
    DEF Typed, ThreadsTyped, HandlesTyped, SlotsBounded, ContextOutlivesSockets,
        SocketsOf, SocketHandles, ContextHandles, SocketRecords
  <2>6. TermShape'
    BY <1>1, <2>1, <2>2, SameTermShape
  <2>7. QED
    BY <2>2, <2>4, <2>5, <2>6 DEF IInv, Typed
<1>3. CASE Top(t).handle # Null
  <2> DEFINE c == Top(t).handle
  <2>1. /\ at' = [at EXCEPT ![t] = "term"]
        /\ context' = [context EXCEPT ![c] = "terminating"]
        /\ UNCHANGED stack
    BY <1>3 DEF DestroyContext
  <2>2. c \in ContextHandles /\ context[c] # "freed"
    <3>1. Len(stack[t]) \in 1 .. Len(stack[t])
      BY <1>1, EmptySeq DEF Typed, ScopesTyped
    <3>2. QED
      BY <1>1, <1>3, <3>1, HolderOwns DEF Top
  <2>3. /\ context' \in Seq({"open", "terminating", "freed"})
        /\ Len(context') = Len(context)
        /\ \A d \in ContextHandles :
             context'[d] = IF d = c THEN "terminating" ELSE context[d]
        /\ socket' \in Seq(SocketRecords')
        /\ SlotsBounded'
    BY <1>1, <2>1, <2>2, ContextSet
  <2>4. ContextHandles' = ContextHandles /\ SocketHandles' = SocketHandles
    BY <1>1, <2>3 DEF ContextHandles, SocketHandles
  <2>5. Owning' = Owning
    <3>1. LiveContexts' = LiveContexts
      BY <1>1, <2>2, <2>3, <2>4 DEF LiveContexts
    <3>2. OpenSockets' = OpenSockets
      BY <1>1, <2>4 DEF OpenSockets
    <3>3. QED
      BY <3>1, <3>2 DEF Owning
  <2>6. Owned'
    BY <1>1, <2>1, <2>5, SameKeepsOwned
  <2>7. ContextOutlivesSockets'
    <3>1. \A h \in SocketHandles : socket[h].context \in ContextHandles
      BY <1>1, SocketsTyped
    <3>2. QED
      BY <1>1, <2>3, <2>4, <3>1 DEF ContextOutlivesSockets
  <2>8. ScopesTyped' /\ ThreadsTyped' /\ HandlesTyped'
    BY <1>1, <2>1, <2>3, <2>4 DEF Typed, ScopesTyped, ThreadsTyped, HandlesTyped
  <2>9. TermShape'
    BY <1>1, <1>3, <2>1 DEF TermShape, Top, Typed, ThreadsTyped
  <2>10. QED
    BY <2>3, <2>6, <2>7, <2>8, <2>9 DEF IInv, Typed
<1>4. QED
  BY <1>2, <1>3

\* ~Context comes to its end, and the object is gone: the context is freed, or
\* nobody owns it any more.
LEMMA TermEnds ==
  ASSUME IInv, NEW t \in Threads, at[t] = "term",
         stack' = [stack EXCEPT ![t] = Popped(t)],
         at' = [at EXCEPT ![t] = "app"],
         UNCHANGED <<callOn, unwinding, socket>>,
         failed' \in {"none", "Socket", "~Context"},
         HandlesTyped', SlotsBounded', ContextOutlivesSockets',
         LiveContexts' = LiveContexts \ {Top(t).handle}
  PROVE  IInv'
<1>1. /\ Typed /\ SlotsBounded /\ Owned /\ TermShape
      /\ stack[t] # <<>> /\ Top(t).kind = "Context"
  BY DEF IInv, TermShape
<1>2. /\ ScopesTyped' /\ Top(t) \in Objects
      /\ \A u \in Threads \ {t} : stack'[u] = stack[u]
  BY <1>1, PoppedObject
<1>3. Owning' = Owning \ {Top(t)}
  <2>1. OpenSockets' = OpenSockets
    BY DEF OpenSockets, SocketHandles
  <2>2. QED
    BY <1>1, <1>2, <2>1 DEF Owning, Objects
<1>4. Owned'
  BY <1>1, <1>3, PopKeepsOwned
<1>5. ThreadsTyped'
  BY <1>1 DEF Typed, ThreadsTyped
<1>6. TermShape'
  BY <1>1, <1>2, SameTermShape DEF Typed, ThreadsTyped
<1>7. QED
  BY <1>2, <1>4, <1>5, <1>6 DEF IInv, Typed

\* The context of a thread that is in ~Context.
LEMMA TermOf ==
  ASSUME IInv, NEW t \in Threads, at[t] = "term"
  PROVE  Top(t).handle \in LiveContexts
<1>1. Len(stack[t]) \in 1 .. Len(stack[t])
  BY EmptySeq DEF IInv, TermShape, Typed, ScopesTyped
<1>2. Top(t).kind = "Context" /\ Top(t).handle # Null
  BY DEF IInv, TermShape
<1>3. QED
  BY <1>1, <1>2, HolderOwns DEF IInv, Top, LiveContexts

LEMMA TermReturnsStep ==
  ASSUME IInv, NEW t \in Threads, TermReturns(t)
  PROVE  IInv'
<1> DEFINE c == Top(t).handle
<1>1. /\ Typed /\ SlotsBounded /\ ContextOutlivesSockets
      /\ at[t] = "term" /\ SocketsOf(c) = {}
      /\ context' = [context EXCEPT ![c] = "freed"]
      /\ stack' = [stack EXCEPT ![t] = Popped(t)]
      /\ at' = [at EXCEPT ![t] = "app"]
      /\ UNCHANGED <<callOn, unwinding, failed, socket, leaked>>
  BY DEF IInv, TermReturns
<1>2. c \in LiveContexts /\ c \in ContextHandles
  BY <1>1, TermOf DEF LiveContexts
<1>3. /\ context' \in Seq({"open", "terminating", "freed"})
      /\ Len(context') = Len(context)
      /\ \A d \in ContextHandles :
           context'[d] = IF d = c THEN "freed" ELSE context[d]
      /\ socket' \in Seq(SocketRecords')
      /\ SlotsBounded'
  BY <1>1, <1>2, ContextSet
<1>4. ContextHandles' = ContextHandles
  BY <1>3 DEF ContextHandles
<1>5. HandlesTyped'
  BY <1>1, <1>3, <1>4 DEF Typed, HandlesTyped
\* No socket of the context is left, so that none dangles.
<1>6. ContextOutlivesSockets'
  <2>1. \A h \in SocketHandles : socket[h].context \in ContextHandles
    BY <1>1, SocketsTyped
  <2>2. \A h \in SocketHandles :
          socket[h].state # "reaped" => socket[h].context # c
    BY <1>1 DEF SocketsOf
  <2>3. QED
    BY <1>1, <1>3, <2>1, <2>2 DEF ContextOutlivesSockets, SocketHandles
<1>7. LiveContexts' = LiveContexts \ {c}
  BY <1>1, <1>3, <1>4 DEF LiveContexts
<1>8. QED
  BY <1>1, <1>3, <1>5, <1>6, <1>7, TermEnds DEF Typed, ThreadsTyped

LEMMA TermInterruptedStep ==
  ASSUME IInv, NEW t \in Threads, TermInterrupted(t)
  PROVE  IInv'
<1> DEFINE c == Top(t).handle
<1>1. /\ Typed /\ SlotsBounded /\ ContextOutlivesSockets
      /\ at[t] = "term"
      /\ leaked' = leaked \cup {c}
      /\ stack' = [stack EXCEPT ![t] = Popped(t)]
      /\ at' = [at EXCEPT ![t] = "app"]
      /\ failed' \in {"none", "~Context"}
      /\ UNCHANGED <<callOn, unwinding, context, socket>>
  BY DEF IInv, TermInterrupted
<1>2. c \in LiveContexts /\ c \in ContextHandles
  BY <1>1, TermOf DEF LiveContexts
<1>3. ContextHandles' = ContextHandles /\ SocketRecords' = SocketRecords
  BY <1>1 DEF ContextHandles, SocketRecords
<1>4. HandlesTyped' /\ SlotsBounded' /\ ContextOutlivesSockets'
  BY <1>1, <1>2, <1>3
  DEF Typed, HandlesTyped, SlotsBounded, ContextOutlivesSockets, SocketsOf,
      SocketHandles
<1>5. LiveContexts' = LiveContexts \ {c}
  BY <1>1, <1>3 DEF LiveContexts
<1>6. QED
  BY <1>1, <1>4, <1>5, TermEnds

\* Sockets in use: the handle is that of an open socket.
LEMMA UseSocketStep ==
  ASSUME IInv, NEW t \in Threads, NEW i \in 1 .. Len(stack[t]),
         \/ \E infinite \in BOOLEAN : SetLingerPeriod(t, i, infinite)
         \/ Send(t, i)
         \/ CallBlocks(t, i)
  PROVE  IInv'
<1> DEFINE h == stack[t][i].handle
<1>1. Typed /\ Owned
  BY DEF IInv
<1>2. stack[t][i].kind = "Socket" /\ h # Null
  BY DEF SetLingerPeriod, Send, CallBlocks, UsesSocket
<1>3. h \in SocketHandles /\ socket[h] \in SocketRecords
  BY <1>1, <1>2, HolderOwns, SocketsTyped
<1>4. ASSUME NEW infinite \in BOOLEAN, SetLingerPeriod(t, i, infinite)
      PROVE  IInv'
  <2> DEFINE r == [socket[h] EXCEPT !.lingers = infinite]
  <2>1. /\ r \in SocketRecords /\ r.context = socket[h].context
        /\ r.state = socket[h].state
    BY <1>3 DEF SocketRecords
  <2>2. /\ socket' = [socket EXCEPT ![h] = r]
        /\ UNCHANGED <<threadVars, context, leaked>>
    BY <1>4 DEF SetLingerPeriod
  <2> HIDE DEF h, r
  <2>3. QED
    BY <1>3, <2>1, <2>2, SocketOnlyStep
<1>5. CASE Send(t, i)
  <2> DEFINE r == [socket[h] EXCEPT !.unsent = TRUE]
  <2>1. /\ r \in SocketRecords /\ r.context = socket[h].context
        /\ r.state = socket[h].state
    BY <1>3 DEF SocketRecords
  <2>2. /\ socket' = [socket EXCEPT ![h] = r]
        /\ UNCHANGED <<threadVars, context, leaked>>
    BY <1>5 DEF Send
  <2> HIDE DEF h, r
  <2>3. QED
    BY <1>3, <2>1, <2>2, SocketOnlyStep
<1>6. CASE CallBlocks(t, i)
  <2>1. /\ at' = [at EXCEPT ![t] = "call"]
        /\ callOn' = [callOn EXCEPT ![t] = h]
        /\ UNCHANGED <<stack, unwinding, failed, context, socket, leaked>>
    BY <1>6 DEF CallBlocks
  <2>2. h \in 0 .. Len(socket) /\ Len(socket) \in Nat
    BY <1>1, <1>3, LenProperties DEF SocketHandles, Typed, HandlesTyped
  <2>3. ThreadsTyped'
    BY <1>1, <2>1, <2>2 DEF Typed, ThreadsTyped
  <2>4. \A u \in Threads : at'[u] = "term" => at[u] = "term"
    BY <1>1, <2>1 DEF Typed, ThreadsTyped
  <2>5. QED
    BY <2>1, <2>3, <2>4, ThreadOnlyStep
<1>7. QED
  BY <1>4, <1>5, <1>6

\* A blocking call ends, a constructor fails for want of a slot, an exception
\* is caught: only the thread is concerned.
LEMMA ThreadStep ==
  ASSUME IInv, NEW t \in Threads,
         \/ \E p \in Places("Context") : CreateSocketThrows(t, p)
         \/ CallTerminated(t)
         \/ CallReturns(t)
         \/ Caught(t)
  PROVE  IInv'
<1>1. Typed
  BY DEF IInv
<1>2. 0 \in 0 .. Len(socket)
  BY <1>1, LenProperties DEF Typed, HandlesTyped
<1>3. ASSUME NEW p \in Places("Context"), CreateSocketThrows(t, p)
      PROVE  IInv'
  <2>1. ThreadsTyped' /\ UNCHANGED <<stack, at, context, socket, leaked>>
    BY <1>1, <1>3 DEF CreateSocketThrows, Typed, ThreadsTyped
  <2>2. QED
    BY <2>1, ThreadOnlyStep
<1>4. CASE CallTerminated(t) \/ CallReturns(t)
  <2>1. /\ at' = [at EXCEPT ![t] = "app"]
        /\ callOn' = [callOn EXCEPT ![t] = 0]
        /\ unwinding' \in {unwinding, [unwinding EXCEPT ![t] = TRUE]}
        /\ UNCHANGED <<stack, failed, context, socket, leaked>>
    BY <1>4 DEF CallTerminated, CallReturns, CallEnds, Null
  <2>2. ThreadsTyped'
    BY <1>1, <1>2, <2>1 DEF Typed, ThreadsTyped
  <2>3. \A u \in Threads : at'[u] = "term" => at[u] = "term"
    BY <1>1, <2>1 DEF Typed, ThreadsTyped
  <2>4. QED
    BY <2>1, <2>2, <2>3, ThreadOnlyStep
<1>5. CASE Caught(t)
  <2>1. ThreadsTyped' /\ UNCHANGED <<stack, at, context, socket, leaked>>
    BY <1>1, <1>5 DEF Caught, Typed, ThreadsTyped
  <2>2. QED
    BY <2>1, ThreadOnlyStep
<1>6. QED
  BY <1>3, <1>4, <1>5

\* libzmq's threads.
LEMMA LibraryStep ==
  ASSUME IInv, NEW h \in SocketHandles, Reap(h) \/ PeerTakes(h)
  PROVE  IInv'
<1>1. socket[h] \in SocketRecords
  BY SocketsTyped DEF IInv
<1>2. CASE Reap(h)
  <2> DEFINE r == [socket[h] EXCEPT !.state = "reaped", !.unsent = FALSE]
  <2>1. /\ r \in SocketRecords /\ r.context = socket[h].context
        /\ r.state = "reaped" /\ socket[h].state = "closed"
    BY <1>1, <1>2 DEF Reap, SocketRecords, States
  <2>2. /\ socket' = [socket EXCEPT ![h] = r]
        /\ UNCHANGED <<threadVars, context, leaked>>
    BY <1>1, <1>2 DEF Reap, SocketRecords
  <2> HIDE DEF r
  <2>3. QED
    BY <2>1, <2>2, SocketOnlyStep
<1>3. CASE PeerTakes(h)
  <2> DEFINE r == [socket[h] EXCEPT !.unsent = FALSE]
  <2>1. /\ r \in SocketRecords /\ r.context = socket[h].context
        /\ r.state = socket[h].state
    BY <1>1 DEF SocketRecords
  <2>2. /\ socket' = [socket EXCEPT ![h] = r]
        /\ UNCHANGED <<threadVars, context, leaked>>
    BY <1>3 DEF PeerTakes
  <2> HIDE DEF r
  <2>3. QED
    BY <2>1, <2>2, SocketOnlyStep
<1>4. QED
  BY <1>2, <1>3

LEMMA StepKeepsIInv ==
  ASSUME IInv, [Next]_vars
  PROVE  IInv'
<1>1. ASSUME NEW t \in Threads, Application(t)
      PROVE  IInv'
  <2>1. ASSUME NEW i \in 1 .. Len(stack[t]), NEW u \in Threads,
               MoveConstruct(t, i, u)
        PROVE  IInv'
    <3>1. /\ UNCHANGED <<at, callOn, unwinding, failed, context, socket, leaked>>
          /\ \A v \in Threads : at[v] = "term" => v # t /\ v # u
      BY <2>1 DEF MoveConstruct, InAppCode
    <3>2. ScopesTyped' /\ Owned'
      BY <2>1, MoveConstructKeepsOwned DEF IInv
    <3>3. /\ ThreadsTyped' /\ HandlesTyped' /\ SlotsBounded'
          /\ ContextOutlivesSockets'
      BY <3>1
      DEF IInv, Typed, ThreadsTyped, HandlesTyped, SlotsBounded,
          ContextOutlivesSockets, SocketsOf, SocketHandles, ContextHandles,
          SocketRecords
    <3>4. \A v \in Threads \ {t, u} : stack'[v] = stack[v]
      BY <2>1 DEF MoveConstruct, IInv, Typed, ScopesTyped
    <3>5. TermShape'
      BY <3>1, <3>4, SameTermShape DEF IInv
    <3>6. QED
      BY <3>2, <3>3, <3>5 DEF IInv, Typed
  <2>2. ASSUME NEW i \in 1 .. Len(stack[t]), NEW j \in 1 .. Len(stack[t]),
               MoveAssign(t, i, j)
        PROVE  IInv'
    <3>1. /\ UNCHANGED <<at, callOn, unwinding, failed, context, socket, leaked>>
          /\ at[t] = "app"
      BY <2>2 DEF MoveAssign, InAppCode
    <3>2. ScopesTyped' /\ Owned'
      BY <2>2, MoveAssignKeepsOwned DEF IInv
    <3>3. /\ ThreadsTyped' /\ HandlesTyped' /\ SlotsBounded'
          /\ ContextOutlivesSockets'
      BY <3>1
      DEF IInv, Typed, ThreadsTyped, HandlesTyped, SlotsBounded,
          ContextOutlivesSockets, SocketsOf, SocketHandles, ContextHandles,
          SocketRecords
    <3>4. \A v \in Threads \ {t} : stack'[v] = stack[v]
      BY <2>2 DEF MoveAssign, IInv, Typed, ScopesTyped
    <3>5. TermShape'
      BY <3>1, <3>4, SameTermShape DEF IInv
    <3>6. QED
      BY <3>2, <3>3, <3>5 DEF IInv, Typed
  <2>3. QED
    BY <1>1, <2>1, <2>2, ConstructContextStep, ConstructContextThrowsStep,
       CreateSocketStep, ThreadStep, UseSocketStep, DestroySocketStep,
       DestroyContextStep
    DEF Application
<1>2. ASSUME NEW t \in Threads, Progress(t)
      PROVE  IInv'
  BY <1>2, DestroySocketStep, DestroyContextStep, ThreadStep, TermReturnsStep
  DEF Progress, Unwind
<1>3. CASE UNCHANGED vars
  BY <1>3, ThreadOnlyStep
  DEF vars, threadVars, IInv, Typed, ThreadsTyped
<1>4. QED
  BY <1>1, <1>2, <1>3, ThreadStep, TermInterruptedStep, LibraryStep DEF Next

LEMMA InitIInv == Init => IInv
<1> SUFFICES ASSUME Init PROVE IInv
  OBVIOUS
<1>1. Len(context) = 0 /\ Len(socket) = 0 /\ \A t \in Threads : Len(stack[t]) = 0
  BY DEF Init
<1>2. ContextHandles = {} /\ SocketHandles = {}
  BY <1>1 DEF ContextHandles, SocketHandles
<1>3. ScopesTyped
  BY <1>1, LifecycleAssumption DEF Init, ScopesTyped
<1>4. ThreadsTyped /\ HandlesTyped
  BY <1>1 DEF Init, ThreadsTyped, HandlesTyped, Null
<1>5. Owning = {}
  BY <1>2 DEF Owning, OpenSockets, LiveContexts
<1>6. Owned
  BY <1>1, <1>5 DEF Owned, HandlesOwned, OnePlace, AllHeld
<1>7. SlotsBounded /\ TermShape /\ ContextOutlivesSockets
  BY <1>2 DEF Init, SlotsBounded, TermShape, ContextOutlivesSockets
<1>8. QED
  BY <1>3, <1>4, <1>6, <1>7 DEF IInv, Typed

LEMMA Invariance == Spec => []IInv
BY InitIInv, StepKeepsIInv, PTL DEF Spec
----------------------------------------------------------------------------
(* Theorems.                                                               *)

\* Exactly one object owns a handle that is to be given back, and none any
\* other.
LEMMA OwnersCounted ==
  ASSUME IInv, NEW kind \in Kinds, NEW h \in Nat \ {0}
  PROVE  Cardinality(Owners(kind, h))
           = IF [kind |-> kind, handle |-> h] \in Owning THEN 1 ELSE 0
<1> DEFINE o == [kind |-> kind, handle |-> h]
<1>1. \A p \in Owners(kind, h) :
        /\ p \in Threads \X (1 .. MaxDepth)
        /\ p[1] \in Threads /\ p[2] \in 1 .. Len(stack[p[1]])
        /\ stack[p[1]][p[2]] = o
  <2> SUFFICES ASSUME NEW p \in Owners(kind, h)
               PROVE  /\ p \in Threads \X (1 .. MaxDepth)
                      /\ p[1] \in Threads /\ p[2] \in 1 .. Len(stack[p[1]])
                      /\ stack[p[1]][p[2]] = o
    OBVIOUS
  <2>1. /\ p \in Threads \X (1 .. MaxDepth)
        /\ p[1] \in Threads /\ p[2] \in 1 .. MaxDepth
        /\ p[2] <= Len(stack[p[1]])
        /\ stack[p[1]][p[2]].kind = kind /\ stack[p[1]][p[2]].handle = h
    BY DEF Owners, Places, HandleAt
  <2>2. Len(stack[p[1]]) \in Nat /\ MaxDepth \in Nat
    BY <2>1, LenProperties, LifecycleAssumption DEF IInv, Typed, ScopesTyped
  <2>3. p[2] \in 1 .. Len(stack[p[1]])
    BY <2>1, <2>2
  <2>4. stack[p[1]][p[2]] \in Objects
    BY <2>1, <2>3, HolderOwns DEF IInv
  <2>5. QED
    BY <2>1, <2>3, <2>4 DEF Objects
<1>2. CASE o \in Owning
  <2>1. PICK t \in Threads : \E i \in 1 .. Len(stack[t]) : stack[t][i] = o
    BY <1>2 DEF IInv, Owned, AllHeld
  <2>2. PICK i \in 1 .. Len(stack[t]) : stack[t][i] = o
    BY <2>1
  <2>3. <<t, i>> \in Owners(kind, h)
    <3>1. Len(stack[t]) \in Nat /\ Len(stack[t]) <= MaxDepth /\ MaxDepth \in Nat
      BY LenProperties, LifecycleAssumption DEF IInv, Typed, ScopesTyped
    <3>2. <<t, i>> \in Threads \X (1 .. MaxDepth)
      BY <3>1
    <3>3. QED
      BY <2>2, <3>2 DEF Owners, Places, HandleAt
  <2>4. \A p \in Owners(kind, h) : p = <<t, i>>
    <3> SUFFICES ASSUME NEW p \in Owners(kind, h)
                 PROVE  p = <<t, i>>
      OBVIOUS
    <3>1. /\ p \in Threads \X (1 .. MaxDepth)
          /\ p[1] \in Threads /\ p[2] \in 1 .. Len(stack[p[1]])
          /\ stack[p[1]][p[2]] = stack[t][i] /\ stack[p[1]][p[2]].handle # Null
      BY <1>1, <2>2 DEF Null
    <3>2. p[1] = t /\ p[2] = i
      BY <3>1 DEF IInv, Owned, OnePlace
    <3>3. QED
      BY <3>1, <3>2
  <2>5. Owners(kind, h) = {<<t, i>>}
    BY <2>3, <2>4
  <2>6. QED
    BY <1>2, <2>5, FS_Singleton
<1>3. CASE o \notin Owning
  <2>1. \A p \in Owners(kind, h) : FALSE
    BY <1>1, <1>3 DEF IInv, Owned, HandlesOwned, Null
  <2>2. Owners(kind, h) = {}
    BY <2>1
  <2>3. QED
    BY <1>3, <2>2, FS_EmptySet
<1>4. QED
  BY <1>2, <1>3

\* Types, the bounds, and ZMQ_MAX_SOCKETS: a context that refuses a socket
\* (Context.hpp:226) never has more sockets than it has slots.
THEOREM TypeCorrect == Spec => []TypeOK
<1>1. IInv => TypeOK
  BY DEF IInv, Typed, ScopesTyped, ThreadsTyped, HandlesTyped, SlotsBounded,
         TypeOK, SocketRecords, States
<1>2. QED
  BY <1>1, Invariance, PTL

\* Whatever the application moves, swaps, returns from functions, hands to
\* other threads or leaves by an exception, each handle has one owner until it
\* is given back and none afterwards (Socket.hpp:61, Context.hpp:91).
THEOREM HandlesOwnedOnce == Spec => []OwnedOnce
<1>1. IInv => OwnedOnce
  <2> SUFFICES ASSUME IInv PROVE OwnedOnce
    OBVIOUS
  <2>1. ASSUME NEW h \in SocketHandles
        PROVE  Cardinality(Owners("Socket", h))
                 = IF socket[h].state = "open" THEN 1 ELSE 0
    <3>1. h \in Nat \ {0}
      BY LenProperties DEF SocketHandles, IInv, Typed, HandlesTyped
    <3>2. [kind |-> "Socket", handle |-> h] \in Owning <=> socket[h].state = "open"
      BY DEF Owning, OpenSockets
    <3>3. QED
      BY <3>1, <3>2, OwnersCounted DEF Kinds
  <2>2. ASSUME NEW c \in ContextHandles
        PROVE  Cardinality(Owners("Context", c))
                 = IF context[c] # "freed" /\ c \notin leaked THEN 1 ELSE 0
    <3>1. c \in Nat \ {0}
      BY LenProperties DEF ContextHandles, IInv, Typed, HandlesTyped
    <3>2. [kind |-> "Context", handle |-> c] \in Owning
            <=> context[c] # "freed" /\ c \notin leaked
      BY DEF Owning, LiveContexts
    <3>3. QED
      BY <3>1, <3>2, OwnersCounted DEF Kinds
  <2>3. QED
    BY <2>1, <2>2 DEF OwnedOnce
<1>2. QED
  BY <1>1, Invariance, PTL

\* ~Context gives the context back only when every Socket created from it is
\* gone, wherever it was moved to (Context.hpp:100).
THEOREM NoSocketDangles == Spec => []ContextOutlivesSockets
<1>1. IInv => ContextOutlivesSockets
  BY DEF IInv
<1>2. QED
  BY <1>1, Invariance, PTL

\* A socket stays with the context that it was created from.
LEMMA SocketKeepsContext ==
  ASSUME IInv, [Next]_vars, NEW h \in SocketHandles
  PROVE  socket'[h].context = socket[h].context
<1>1. /\ socket \in Seq(SocketRecords) /\ socket \in [SocketHandles -> SocketRecords]
  BY LenProperties DEF IInv, Typed, HandlesTyped, SocketHandles
<1>2. ASSUME NEW t \in Threads, NEW p \in Places("Context"), CreateSocket(t, p)
      PROVE  socket'[h].context = socket[h].context
  <2> DEFINE r == [state |-> "open", context |-> HandleAt(p),
                   lingers |-> TRUE, unsent |-> FALSE]
  <2>1. socket' = Append(socket, r)
    BY <1>2 DEF CreateSocket
  <2>2. /\ socket \in Seq(SocketRecords \cup {r}) /\ r \in SocketRecords \cup {r}
    <3> HIDE DEF r
    <3>1. Len(socket) \in Nat
      BY <1>1, LenProperties
    <3>2. QED
      BY <1>1, <3>1, SeqDef DEF SocketHandles
  <2> HIDE DEF r
  <2>3. socket'[h] = socket[h]
    BY <2>1, <2>2, AppendProperties DEF SocketHandles
  <2>4. QED
    BY <2>3
<1>3. ASSUME NEW t \in Threads, NEW i \in 1 .. Len(stack[t]),
             NEW infinite \in BOOLEAN, SetLingerPeriod(t, i, infinite)
      PROVE  socket'[h].context = socket[h].context
  BY <1>1, <1>3 DEF SetLingerPeriod, SocketRecords
<1>4. ASSUME NEW t \in Threads, NEW i \in 1 .. Len(stack[t]), Send(t, i)
      PROVE  socket'[h].context = socket[h].context
  BY <1>1, <1>4 DEF Send, SocketRecords
<1>5. ASSUME NEW t \in Threads, DestroySocket(t)
      PROVE  socket'[h].context = socket[h].context
  BY <1>1, <1>5 DEF DestroySocket, SocketRecords
<1>6. ASSUME NEW k \in SocketHandles, Reap(k) \/ PeerTakes(k)
      PROVE  socket'[h].context = socket[h].context
  BY <1>1, <1>6 DEF Reap, PeerTakes, SocketRecords
<1>7. ASSUME UNCHANGED socket
      PROVE  socket'[h].context = socket[h].context
  BY <1>7
<1>8. ASSUME NEW t \in Threads, Application(t)
      PROVE  socket'[h].context = socket[h].context
  <2>1. ASSUME \/ ConstructContext(t) \/ ConstructContextThrows(t)
               \/ \E p \in Places("Context") : CreateSocketThrows(t, p)
        PROVE  UNCHANGED socket
    BY <2>1 DEF ConstructContext, ConstructContextThrows, CreateSocketThrows
  <2>2. ASSUME NEW i \in 1 .. Len(stack[t]),
               \/ \E u \in Threads : MoveConstruct(t, i, u)
               \/ \E j \in 1 .. Len(stack[t]) : MoveAssign(t, i, j)
               \/ CallBlocks(t, i)
        PROVE  UNCHANGED socket
    BY <2>2 DEF MoveConstruct, MoveAssign, CallBlocks
  <2>3. ASSUME DestroyContext(t)
        PROVE  UNCHANGED socket
    BY <2>3 DEF DestroyContext
  <2>4. QED
    BY <1>2, <1>3, <1>4, <1>5, <1>7, <1>8, <2>1, <2>2, <2>3 DEF Application
<1>9. ASSUME NEW t \in Threads,
             Progress(t) \/ CallReturns(t) \/ TermInterrupted(t)
      PROVE  socket'[h].context = socket[h].context
  <2>1. ASSUME \/ DestroyContext(t) \/ Caught(t) \/ CallEnds(t)
               \/ TermReturns(t) \/ TermInterrupted(t)
        PROVE  UNCHANGED socket
    BY <2>1 DEF DestroyContext, Caught, CallEnds, TermReturns, TermInterrupted
  <2>2. QED
    BY <1>5, <1>7, <1>9, <2>1 DEF Progress, Unwind, CallTerminated, CallReturns
<1>10. QED
  BY <1>6, <1>7, <1>8, <1>9 DEF Next, vars

\* A step while a thread waits in ~Context for a Socket in a scope of its own:
\* it still waits, or was interrupted.
LEMMA SelfDeadlockStep ==
  ASSUME IInv, [Next]_vars, NEW t \in Threads, WaitsForItself(t)
  PROVE  WaitsForItself(t)' \/ TermInterrupted(t)
<1> DEFINE c == Top(t).handle
<1>1. Typed /\ Owned /\ at[t] = "term"
  BY DEF IInv, WaitsForItself
<1>2. PICK n \in 1 .. Len(stack[t]) :
        /\ stack[t][n].kind = "Socket" /\ stack[t][n].handle # Null
        /\ socket[stack[t][n].handle].context = c
  BY DEF WaitsForItself, Holds
<1> DEFINE h == stack[t][n].handle
<1>3. /\ h \in SocketHandles /\ socket[h].state = "open"
      /\ socket[h] \in SocketRecords
  BY <1>1, <1>2, HolderOwns, SocketsTyped
<1> HIDE DEF h
<1>4. ASSUME UNCHANGED <<at[t], stack[t]>>, socket'[h].context = c
      PROVE  WaitsForItself(t)'
  BY <1>1, <1>2, <1>4 DEF WaitsForItself, Holds, Top, h
\* zmq_ctx_term does not return, as the Socket of the outer scope is open.
<1>5. ~TermReturns(t)
  BY <1>2, <1>3 DEF TermReturns, SocketsOf, h
<1>6. ASSUME NEW u \in Threads, Application(u) \/ Unwind(u)
      PROVE  UNCHANGED <<at[t], stack[t]>> /\ socket'[h].context = c
  <2>1. socket[h].context = c
    BY <1>2 DEF h
  <2>2. u # t /\ at[u] # "term"
    BY <1>1, <1>6
    DEF Application, Unwind, ConstructContext, ConstructContextThrows,
        CreateSocket, CreateSocketThrows, MoveConstruct, MoveAssign,
        SetLingerPeriod, Send, CallBlocks, UsesSocket, InAppCode,
        DestroySocket, DestroyContext, LeavesScope, Caught
  <2>3. UNCHANGED at[t]
    BY <1>1, <1>6, <2>2
    DEF Application, Unwind, ConstructContext, ConstructContextThrows,
        CreateSocket, CreateSocketThrows, MoveConstruct, MoveAssign,
        SetLingerPeriod, Send, CallBlocks, DestroySocket, DestroyContext,
        Caught, threadVars, Typed, ThreadsTyped
  <2>4. UNCHANGED stack[t]
    <3>1. ASSUME NEW i \in 1 .. Len(stack[u]), NEW v \in Threads,
                 MoveConstruct(u, i, v)
          PROVE  UNCHANGED stack[t]
      <4>1. v # t
        BY <1>1, <2>2, <3>1 DEF MoveConstruct, InAppCode
      <4>2. QED
        BY <1>1, <2>2, <3>1, <4>1 DEF MoveConstruct, Typed, ScopesTyped
    <3>2. ASSUME NEW i \in 1 .. Len(stack[u]), NEW j \in 1 .. Len(stack[u]),
                 MoveAssign(u, i, j)
          PROVE  UNCHANGED stack[t]
      BY <1>1, <2>2, <3>2 DEF MoveAssign, Typed, ScopesTyped
    <3>3. ASSUME \/ ConstructContext(u) \/ ConstructContextThrows(u)
                 \/ \E p \in Places("Context") :
                      CreateSocket(u, p) \/ CreateSocketThrows(u, p)
          PROVE  UNCHANGED stack[t]
      BY <1>1, <2>2, <3>3
      DEF ConstructContext, ConstructContextThrows, CreateSocket,
          CreateSocketThrows, Push, Typed, ScopesTyped
    <3>4. ASSUME NEW i \in 1 .. Len(stack[u]),
                 \/ \E infinite \in BOOLEAN : SetLingerPeriod(u, i, infinite)
                 \/ Send(u, i) \/ CallBlocks(u, i)
          PROVE  UNCHANGED stack[t]
      BY <3>4 DEF SetLingerPeriod, Send, CallBlocks, threadVars
    <3>5. ASSUME DestroySocket(u) \/ DestroyContext(u) \/ Caught(u)
          PROVE  UNCHANGED stack[t]
      BY <1>1, <2>2, <3>5
      DEF DestroySocket, DestroyContext, Caught, Typed, ScopesTyped
    <3>6. QED
      BY <1>6, <3>1, <3>2, <3>3, <3>4, <3>5 DEF Application, Unwind
  <2>5. QED
    BY <1>3, <2>1, <2>3, <2>4, SocketKeepsContext
<1>7. QED
  <2>1. CASE \E u \in Threads : Application(u) \/ Unwind(u)
    BY <1>4, <1>6, <2>1
  <2>2. CASE \E u \in Threads : CallTerminated(u) \/ CallReturns(u)
    <3>1. UNCHANGED <<stack, at[t], socket>>
      BY <1>1, <2>2
      DEF CallTerminated, CallReturns, CallEnds, Typed, ThreadsTyped
    <3>2. QED
      BY <1>2, <1>4, <3>1 DEF h
  <2>3. CASE \E u \in Threads \ {t} : TermReturns(u) \/ TermInterrupted(u)
    <3>1. UNCHANGED <<stack[t], at[t], socket>>
      BY <1>1, <2>3
      DEF TermReturns, TermInterrupted, Typed, ScopesTyped, ThreadsTyped
    <3>2. QED
      BY <1>2, <1>4, <3>1 DEF h
  <2>4. CASE \E k \in SocketHandles : Reap(k) \/ PeerTakes(k)
    <3>1. UNCHANGED <<stack, at>>
      BY <2>4 DEF Reap, PeerTakes, threadVars
    <3>2. socket'[h].context = c
      BY <1>2, <1>3, SocketKeepsContext DEF h
    <3>3. QED
      BY <1>4, <3>1, <3>2
  <2>5. CASE UNCHANGED vars
    BY <1>2, <1>4, <2>5 DEF vars, threadVars, h
  <2>6. QED
    BY <1>5, <2>1, <2>2, <2>3, <2>4, <2>5 DEF Next, Progress

\* A ~Context that waits for a Socket in an outer scope of its own thread does
\* not come to its end, unless a signal interrupts it (Context.hpp:100).
THEOREM SelfDeadlockStays == Spec => SelfDeadlockIsForGood
<1>1. IInv /\ [Next]_vars =>
        \A t \in Threads :
          WaitsForItself(t) => WaitsForItself(t)' \/ TermInterrupted(t)
  BY SelfDeadlockStep
<1>2. QED
  BY <1>1, Invariance, PTL DEF Spec, SelfDeadlockIsForGood
=============================================================================
