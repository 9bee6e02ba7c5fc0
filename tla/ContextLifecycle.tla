-------------------------- MODULE ContextLifecycle --------------------------
(***************************************************************************)
(* Context and Socket objects, the libzmq handles they own, and the        *)
(* threads in whose scopes they live: construction, the move constructors, *)
(* the move assignments (which swap), the destructors, and the termination *)
(* of a context, which blocks in ~Context until every socket of the        *)
(* context has been closed and every other thread has been woken up.       *)
(*                                                                         *)
(* A C++ object is an entry of the stack of the thread whose scope it is   *)
(* in; objects are destroyed in the reverse order of their construction,   *)
(* by leaving a scope or by an exception.  A moved-from object holds no    *)
(* handle.  Handles are numbered in the order of their creation.           *)
(***************************************************************************)
EXTENDS Integers, Sequences, FiniteSets

CONSTANTS
  Threads,
  MaxSocketCount, \* ZMQ_MAX_SOCKETS of every context
  NDebug,         \* TRUE: CPPEROMQ_ASSERT checks nothing
  MaxContexts,    \* bound on the contexts created in a behaviour
  MaxSockets,     \* bound on the sockets created in a behaviour
  MaxDepth,       \* bound on the objects in a thread's scopes,
  MaxDepthOfMany  \* and on them where there is more than one context

ASSUME LifecycleAssumption ==
  /\ MaxSocketCount \in Nat \ {0}
  /\ NDebug \in BOOLEAN
  /\ MaxContexts \in Nat /\ MaxSockets \in Nat /\ MaxDepth \in Nat
  /\ MaxDepthOfMany \in Nat

VARIABLES
  stack,      \* the objects in each thread's scopes, the latest one last
  at,         \* where each thread is: its own code, a socket call, ~Context
  callOn,     \* the socket of the call that each thread is in
  unwinding,  \* an exception is leaving all of the thread's scopes
  failed,     \* the assertion that has failed and stopped the program
  \* libzmq
  context,    \* the state of each context created so far
  socket,     \* each socket created so far: state, context, linger, unsent
  \* history
  leaked      \* contexts that lost their owner without being terminated

threadVars == <<stack, at, callOn, unwinding, failed>>
vars == <<threadVars, context, socket, leaked>>

Null == 0
ContextHandles == 1 .. Len(context)
SocketHandles  == 1 .. Len(socket)
----------------------------------------------------------------------------
(* Objects and handles.                                                    *)

Kinds == {"Context", "Socket"}
Objects == [kind : Kinds, handle : Nat]

Top(t) == stack[t][Len(stack[t])]
Popped(t) == SubSeq(stack[t], 1, Len(stack[t]) - 1)

\* Where the objects are: position i of thread t.
Places(kind) ==
  {p \in Threads \X (1 .. MaxDepth) :
     p[2] <= Len(stack[p[1]]) /\ stack[p[1]][p[2]].kind = kind}
HandleAt(p) == stack[p[1]][p[2]].handle
Owners(kind, h) == {p \in Places(kind) : HandleAt(p) = h}

\* A socket takes one of its context's slots until the reaper is done with it.
SocketsOf(c) ==
  {h \in SocketHandles : socket[h].context = c /\ socket[h].state # "reaped"}

Aborted == failed # "none"
InAppCode(t) == ~Aborted /\ at[t] = "app" /\ ~unwinding[t]
HasRoom(t) ==
  /\ Len(stack[t]) < MaxDepth
  /\ Len(context) > 1 => Len(stack[t]) < MaxDepthOfMany
MoreContexts ==
  /\ Len(context) < MaxContexts
  /\ Len(context) > 0 => \A u \in Threads : Len(stack[u]) <= MaxDepthOfMany

Push(t, object) == stack' = [stack EXCEPT ![t] = Append(@, object)]
----------------------------------------------------------------------------
Init ==
  /\ stack = [t \in Threads |-> <<>>]
  /\ at = [t \in Threads |-> "app"]
  /\ callOn = [t \in Threads |-> Null]
  /\ unwinding = [t \in Threads |-> FALSE]
  /\ failed = "none"
  /\ context = <<>> /\ socket = <<>>
  /\ leaked = {}

(* Construction.                                                           *)

\* Context::Context: zmq_ctx_new, then the two settings.
ConstructContext(t) ==
  /\ InAppCode(t) /\ MoreContexts
  /\ HasRoom(t) /\ (Len(context) > 0 => Len(stack[t]) < MaxDepthOfMany)
  /\ context' = Append(context, "open")
  /\ Push(t, [kind |-> "Context", handle |-> Len(context')])
  /\ UNCHANGED <<at, callOn, unwinding, failed, socket, leaked>>

\* A setting is refused (EINVAL): the constructor throws, so that ~Context is
\* not run for the object and nothing owns the new context.
ConstructContextThrows(t) ==
  /\ InAppCode(t) /\ MoreContexts
  /\ context' = Append(context, "open")
  /\ leaked' = leaked \cup {Len(context')}
  /\ unwinding' = [unwinding EXCEPT ![t] = TRUE]
  /\ UNCHANGED <<stack, at, callOn, failed, socket>>

\* A thread may use a Context of its own or of another thread, but not one
\* whose destructor has begun.
Usable(p) == ~(at[p[1]] = "term" /\ p[2] = Len(stack[p[1]]))

\* Mutant: the slots of closed sockets that are not yet reaped are reused.
CreateSocketEarly(t, p) ==
  /\ InAppCode(t) /\ HasRoom(t)
  /\ Usable(p) /\ HandleAt(p) # Null
  /\ Len(socket) < MaxSockets
  /\ Cardinality({h \in SocketsOf(HandleAt(p)) : socket[h].state = "open"})
       < MaxSocketCount
  /\ socket' = Append(socket, [state |-> "open", context |-> HandleAt(p),
                               lingers |-> TRUE, unsent |-> FALSE])
  /\ Push(t, [kind |-> "Socket", handle |-> Len(socket')])
  /\ UNCHANGED <<at, callOn, unwinding, failed, context, leaked>>

\* context.createPushSocket() and its like: the Socket is constructed with the
\* context's handle and moved to the caller.
CreateSocket(t, p) ==
  /\ InAppCode(t) /\ HasRoom(t)
  /\ Usable(p) /\ HandleAt(p) # Null
  /\ Len(socket) < MaxSockets
  /\ Cardinality(SocketsOf(HandleAt(p))) < MaxSocketCount
  /\ socket' = Append(socket, [state |-> "open", context |-> HandleAt(p),
                               lingers |-> TRUE, unsent |-> FALSE])
  /\ Push(t, [kind |-> "Socket", handle |-> Len(socket')])
  /\ UNCHANGED <<at, callOn, unwinding, failed, context, leaked>>

\* zmq_socket fails: EMFILE when the context has no slot left, EFAULT for a
\* moved-from Context unless the assertion stops the program first.
CreateSocketThrows(t, p) ==
  /\ InAppCode(t) /\ Usable(p)
  /\ \/ HandleAt(p) = Null
     \/ Cardinality(SocketsOf(HandleAt(p))) >= MaxSocketCount
  /\ IF HandleAt(p) = Null /\ ~NDebug
     THEN failed' = "Socket" /\ UNCHANGED unwinding
     ELSE unwinding' = [unwinding EXCEPT ![t] = TRUE] /\ UNCHANGED failed
  /\ UNCHANGED <<stack, at, callOn, context, socket, leaked>>

(* Moves.                                                                  *)

\* An object is move-constructed from one of thread t's, in a scope of t or as
\* the first object of a thread that is being started.
MoveConstruct(t, i, u) ==
  /\ InAppCode(t) /\ HasRoom(u)
  /\ u = t \/ (InAppCode(u) /\ stack[u] = <<>>)
  /\ stack' = [[stack EXCEPT ![t][i].handle = Null]
                 EXCEPT ![u] = Append(@, stack[t][i])]
  /\ UNCHANGED <<at, callOn, unwinding, failed, context, socket, leaked>>

\* Mutant: the target's former handle is dropped.
MoveAssignDrops(t, i, j) ==
  /\ InAppCode(t)
  /\ i # j
  /\ stack[t][i].kind = stack[t][j].kind
  /\ stack' = [stack EXCEPT ![t][i].handle = stack[t][j].handle,
                            ![t][j].handle = Null]
  /\ UNCHANGED <<at, callOn, unwinding, failed, context, socket, leaked>>

\* operator= swaps: the source keeps the target's former handle.
MoveAssign(t, i, j) ==
  /\ InAppCode(t)
  /\ i # j
  /\ stack[t][i].kind = stack[t][j].kind
  /\ stack' = [stack EXCEPT ![t][i].handle = stack[t][j].handle,
                            ![t][j].handle = stack[t][i].handle]
  /\ UNCHANGED <<at, callOn, unwinding, failed, context, socket, leaked>>

(* Use of a socket.                                                        *)

UsesSocket(t, i) ==
  /\ InAppCode(t)
  /\ stack[t][i].kind = "Socket" /\ stack[t][i].handle # Null

\* setLingerPeriod: infinite (the default) or finite.
SetLingerPeriod(t, i, infinite) ==
  /\ UsesSocket(t, i)
  /\ context[socket[stack[t][i].handle].context] = "open"
  /\ socket' = [socket EXCEPT ![stack[t][i].handle].lingers = infinite]
  /\ UNCHANGED <<threadVars, context, leaked>>

\* A message is sent; it stays with the socket until the peer has it.
Send(t, i) ==
  /\ UsesSocket(t, i)
  /\ context[socket[stack[t][i].handle].context] = "open"
  /\ socket' = [socket EXCEPT ![stack[t][i].handle].unsent = TRUE]
  /\ UNCHANGED <<threadVars, context, leaked>>

\* receive(), which blocks.
CallBlocks(t, i) ==
  /\ UsesSocket(t, i)
  /\ at' = [at EXCEPT ![t] = "call"]
  /\ callOn' = [callOn EXCEPT ![t] = stack[t][i].handle]
  /\ UNCHANGED <<stack, unwinding, failed, context, socket, leaked>>

CallEnds(t) ==
  /\ ~Aborted /\ at[t] = "call"
  /\ at' = [at EXCEPT ![t] = "app"]
  /\ callOn' = [callOn EXCEPT ![t] = Null]
  /\ UNCHANGED <<stack, failed, context, socket, leaked>>

CallReturns(t) == CallEnds(t) /\ UNCHANGED unwinding

\* Mutant: the calls of a thread that owns no Context are not woken up.
CallTerminatedOwnersOnly(t) ==
  /\ CallEnds(t)
  /\ \E p \in Places("Context") : p[1] = t
  /\ context[socket[callOn[t]].context] = "terminating"
  /\ unwinding' \in {unwinding, [unwinding EXCEPT ![t] = TRUE]}

\* The termination of a context wakes up the calls on its sockets.  They throw
\* an Error (ETERM), which leaves all of the thread's scopes or is caught where
\* it was thrown.
CallTerminated(t) ==
  /\ CallEnds(t)
  /\ context[socket[callOn[t]].context] = "terminating"
  /\ unwinding' \in {unwinding, [unwinding EXCEPT ![t] = TRUE]}

(* Destruction.                                                            *)

LeavesScope(t) ==
  /\ ~Aborted /\ at[t] = "app"
  /\ stack[t] # <<>>

\* ~Socket: zmq_close gives the socket to the reaper.
DestroySocket(t) ==
  /\ LeavesScope(t) /\ Top(t).kind = "Socket"
  /\ stack' = [stack EXCEPT ![t] = Popped(t)]
  /\ IF Top(t).handle = Null
     THEN UNCHANGED socket
     ELSE socket' = [socket EXCEPT ![Top(t).handle].state = "closed"]
  /\ UNCHANGED <<at, callOn, unwinding, failed, context, leaked>>

\* ~Context calls zmq_ctx_term, unless the object was moved from.
DestroyContext(t) ==
  /\ LeavesScope(t) /\ Top(t).kind = "Context"
  /\ IF Top(t).handle = Null
     THEN /\ stack' = [stack EXCEPT ![t] = Popped(t)]
          /\ UNCHANGED <<at, context>>
     ELSE /\ at' = [at EXCEPT ![t] = "term"]
          /\ context' = [context EXCEPT ![Top(t).handle] = "terminating"]
          /\ UNCHANGED stack
  /\ UNCHANGED <<callOn, unwinding, failed, socket, leaked>>

\* Mutants: open sockets, or closed ones that linger, are not waited for.
TermReturnsDespiteOpen(t) ==
  /\ ~Aborted /\ at[t] = "term"
  /\ \A h \in SocketsOf(Top(t).handle) : socket[h].state = "open"
  /\ context' = [context EXCEPT ![Top(t).handle] = "freed"]
  /\ stack' = [stack EXCEPT ![t] = Popped(t)]
  /\ at' = [at EXCEPT ![t] = "app"]
  /\ UNCHANGED <<callOn, unwinding, failed, socket, leaked>>

TermReturnsDespiteClosed(t) ==
  /\ ~Aborted /\ at[t] = "term"
  /\ \A h \in SocketsOf(Top(t).handle) : socket[h].state = "closed"
  /\ context' = [context EXCEPT ![Top(t).handle] = "freed"]
  /\ stack' = [stack EXCEPT ![t] = Popped(t)]
  /\ at' = [at EXCEPT ![t] = "app"]
  /\ UNCHANGED <<callOn, unwinding, failed, socket, leaked>>

\* zmq_ctx_term returns 0 when the last socket has been reaped.
TermReturns(t) ==
  /\ ~Aborted /\ at[t] = "term"
  /\ SocketsOf(Top(t).handle) = {}
  /\ context' = [context EXCEPT ![Top(t).handle] = "freed"]
  /\ stack' = [stack EXCEPT ![t] = Popped(t)]
  /\ at' = [at EXCEPT ![t] = "app"]
  /\ UNCHANGED <<callOn, unwinding, failed, socket, leaked>>

\* A signal interrupts zmq_ctx_term while it waits (EINTR).  It could be called
\* again; ~Context asserts that it has not failed, and forgets the handle.
TermInterrupted(t) ==
  /\ ~Aborted /\ at[t] = "term"
  /\ \E h \in SocketHandles : socket[h].context = Top(t).handle
  /\ failed' = IF NDebug THEN "none" ELSE "~Context"
  /\ leaked' = leaked \cup {Top(t).handle}
  /\ stack' = [stack EXCEPT ![t] = Popped(t)]
  /\ at' = [at EXCEPT ![t] = "app"]
  /\ UNCHANGED <<callOn, unwinding, context, socket>>

\* The exception has left the last scope of the thread, or was caught there.
Caught(t) ==
  /\ ~Aborted /\ unwinding[t]
  /\ at[t] = "app" /\ stack[t] = <<>>
  /\ unwinding' = [unwinding EXCEPT ![t] = FALSE]
  /\ UNCHANGED <<stack, at, callOn, failed, context, socket, leaked>>

(* libzmq's own threads.                                                   *)

\* The reaper is done with a closed socket when nothing unsent is left, or its
\* linger period is over.
Reap(h) ==
  /\ ~Aborted
  /\ socket[h].state = "closed"
  /\ ~(socket[h].unsent /\ socket[h].lingers)
  /\ socket' = [socket EXCEPT ![h].state = "reaped", ![h].unsent = FALSE]
  /\ UNCHANGED <<threadVars, context, leaked>>

PeerTakes(h) ==
  /\ ~Aborted
  /\ socket[h].unsent
  /\ socket' = [socket EXCEPT ![h].unsent = FALSE]
  /\ UNCHANGED <<threadVars, context, leaked>>

Application(t) ==
  \/ ConstructContext(t)
  \/ ConstructContextThrows(t)
  \/ \E p \in Places("Context") : CreateSocket(t, p) \/ CreateSocketThrows(t, p)
  \/ \E i \in 1 .. Len(stack[t]) :
       \/ \E u \in Threads : MoveConstruct(t, i, u)
       \/ \E j \in 1 .. Len(stack[t]) : MoveAssign(t, i, j)
       \/ \E infinite \in BOOLEAN : SetLingerPeriod(t, i, infinite)
       \/ Send(t, i)
       \/ CallBlocks(t, i)
  \/ ~unwinding[t] /\ (DestroySocket(t) \/ DestroyContext(t))

\* What goes on without the application's doing.
Unwind(t) ==
  /\ unwinding[t]
  /\ DestroySocket(t) \/ DestroyContext(t) \/ Caught(t)
Progress(t) == Unwind(t) \/ CallTerminated(t) \/ TermReturns(t)

Next ==
  \/ \E t \in Threads :
       Application(t) \/ Progress(t) \/ CallReturns(t) \/ TermInterrupted(t)
  \/ \E h \in SocketHandles : Reap(h) \/ PeerTakes(h)

\* A thread that unwinds, or that libzmq can let go, goes on, and the reaper
\* does its work.  Nothing obliges the application to leave a scope, a message
\* to arrive, a peer to take one, or a signal to come.
Fairness ==
  /\ \A t \in Threads : WF_vars(Progress(t))
  /\ \A h \in 1 .. MaxSockets : WF_vars(h \in SocketHandles /\ Reap(h))

Spec == Init /\ [][Next]_vars /\ Fairness
----------------------------------------------------------------------------
(* Properties.                                                             *)

\* Types, the bounds, and ZMQ_MAX_SOCKETS.
TypeOK ==
  /\ stack \in [Threads -> Seq(Objects)]
  /\ \A t \in Threads : Len(stack[t]) <= MaxDepth
  /\ at \in [Threads -> {"app", "call", "term"}]
  /\ callOn \in [Threads -> 0 .. Len(socket)]
  /\ unwinding \in [Threads -> BOOLEAN]
  /\ failed \in {"none", "Socket", "~Context"}
  /\ context \in Seq({"open", "terminating", "freed"})
  /\ socket \in Seq([state : {"open", "closed", "reaped"},
                     context : ContextHandles,
                     lingers : BOOLEAN, unsent : BOOLEAN])
  /\ leaked \subseteq ContextHandles
  /\ \A c \in ContextHandles : Cardinality(SocketsOf(c)) <= MaxSocketCount

\* Through every move, swap, exception and interruption a handle has exactly
\* one owner until it is given back, and none after: no socket is leaked or
\* closed twice, and no context is terminated twice or, unless its constructor
\* or its termination failed, leaked.
OwnedOnce ==
  /\ \A h \in SocketHandles :
       Cardinality(Owners("Socket", h))
         = IF socket[h].state = "open" THEN 1 ELSE 0
  /\ \A c \in ContextHandles :
       Cardinality(Owners("Context", c))
         = IF context[c] # "freed" /\ c \notin leaked THEN 1 ELSE 0

\* A context is not freed before the last of its sockets is gone, in whichever
\* thread or scope the Socket lives: no Socket object dangles.
ContextOutlivesSockets ==
  \A h \in SocketHandles :
    socket[h].state # "reaped" => context[socket[h].context] # "freed"

Holds(u, c) ==
  \E i \in 1 .. Len(stack[u]) :
    /\ stack[u][i].kind = "Socket" /\ stack[u][i].handle # Null
    /\ socket[stack[u][i].handle].context = c

\* ~Context waits for a Socket that is in an outer scope of its own thread.
WaitsForItself(t) == at[t] = "term" /\ Holds(t, Top(t).handle)

\* Such a thread waits for ever; only a signal gets it out.
SelfDeadlockIsForGood ==
  [][\A t \in Threads :
       WaitsForItself(t) => WaitsForItself(t)' \/ TermInterrupted(t)]_vars

\* What ~Context may wait for without end: a Socket of the context in a thread
\* that does not come to its end (busy in the application's own code, in a call
\* on a socket of another context, or in a ~Context itself), and messages that
\* a closed socket with an infinite linger period has not sent.
Held(c) ==
  \/ \E u \in Threads :
       /\ Holds(u, c)
       /\ \/ InAppCode(u)
          \/ at[u] = "term"
          \/ at[u] = "call" /\ socket[callOn[u]].context # c
  \/ \E h \in SocketsOf(c) : socket[h].lingers /\ socket[h].unsent

\* Nothing else: otherwise ~Context returns, other threads being woken up by
\* the termination itself.
TerminationEnds ==
  \A t \in Threads :
    at[t] = "term" ~> at[t] # "term" \/ Aborted \/ Held(Top(t).handle)

\* Context.hpp:102, CPPEROMQ_ASSERT(0 == result) after zmq_ctx_term.
TermAssertionHolds == failed # "~Context"
=============================================================================
