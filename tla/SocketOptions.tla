--------------------------- MODULE SocketOptions ----------------------------
(***************************************************************************)
(* The options of sockets: the getters and setters of Socket and of the    *)
(* mixins that make up the socket's type, which call zmq_getsockopt and    *)
(* zmq_setsockopt with a value of some C++ type, while libzmq insists on   *)
(* the size of its own type.                                               *)
(*                                                                         *)
(* A setting reaches what it is about in three steps, each of which takes  *)
(* a copy: a Context's settings go to the sockets created after them, a    *)
(* socket's to the connections made after them.  Subscriptions alone hold  *)
(* for the connections that there are.  What libzmq refuses makes the call *)
(* throw and changes nothing.  Socket objects are moved and swapped all    *)
(* the while; options and subscriptions stay with libzmq's socket.         *)
(***************************************************************************)
EXTENDS Integers, Sequences, FiniteSets, SocketTypes

CONSTANTS
  Objects,        \* the application's Socket objects
  SocketType,     \* their C++ types
  Settings,       \* the settings of the Context that it changes
  Topics,         \* the prefixes it subscribes to
  Options,        \* the options it uses
  Inputs,         \* Inputs[o]: the values it passes to the setter of option o
  MaxSockets,     \* bound on the sockets created in a behaviour
  MaxConnections, \* bound on the connections made
  MaxSettings     \* bound on the settings that are accepted

(* The C++ types of the accessors; a "flag" is a bool that the setter      *)
(* passes on as the int (value) ? 1 : 0.                                   *)

SocketGetters ==
  [BACKLOG |-> "int", HANDSHAKE_IVL |-> "int", IMMEDIATE |-> "bool",
   AFFINITY |-> "uint64", IPV6 |-> "bool", RECONNECT_IVL_MAX |-> "int",
   RATE |-> "int", RECOVERY_IVL |-> "int", RECONNECT_IVL |-> "int"]
SocketSetters ==
  [BACKLOG |-> "int", HANDSHAKE_IVL |-> "int", IMMEDIATE |-> "flag",
   AFFINITY |-> "uint64", IPV6 |-> "flag", RECONNECT_IVL_MAX |-> "int",
   RATE |-> "int", RECOVERY_IVL |-> "int", RECONNECT_IVL |-> "int"]

SendingGetters ==
  [LINGER |-> "int", MULTICAST_HOPS |-> "int", SNDBUF |-> "int",
   SNDHWM |-> "int", SNDTIMEO |-> "int"]
SendingSetters ==
  [LINGER |-> "int", MULTICAST_HOPS |-> "int", SNDBUF |-> "int",
   SNDHWM |-> "int", SNDTIMEO |-> "int"]

ReceivingGetters ==
  [MAXMSGSIZE |-> "int", RCVBUF |-> "int", RCVHWM |-> "int",
   RCVTIMEO |-> "int"]
ReceivingSetters ==
  [MAXMSGSIZE |-> "int", RCVBUF |-> "int", RCVHWM |-> "int",
   RCVTIMEO |-> "int"]

\* These have no getters.
ConflatingSetters == [CONFLATE |-> "flag"]
RoutingSetters ==
  [ROUTER_HANDOVER |-> "flag", ROUTER_MANDATORY |-> "flag",
   ROUTER_RAW |-> "flag"]
RequestingSetters == [REQ_CORRELATE |-> "flag", REQ_RELAXED |-> "flag"]
ProbingSetters == [PROBE_ROUTER |-> "flag"]
\* getIdentity cannot be called: it passes a const char* where a void* and a
\* size_t where a size_t* are wanted.
IdentifyingSetters == [IDENTITY |-> "bytes"]

GettersOf ==
  [Socket |-> SocketGetters, Sending |-> SendingGetters,
   Receiving |-> ReceivingGetters]
SettersOf ==
  [Socket |-> SocketSetters, Sending |-> SendingSetters,
   Receiving |-> ReceivingSetters, Conflating |-> ConflatingSetters,
   Routing |-> RoutingSetters, Requesting |-> RequestingSetters,
   RouterProbing |-> ProbingSetters, Identifying |-> IdentifyingSetters]

\* The options of the mixins' accessors, and the C++ type that one of them has.
Accessible(accessors) == UNION {DOMAIN accessors[m] : m \in DOMAIN accessors}
AccessorType(accessors, o) ==
  accessors[CHOOSE m \in DOMAIN accessors : o \in DOMAIN accessors[m]][o]

\* The type of object x has the accessor: otherwise the call does not compile.
Offers(accessors, x, o) ==
  \E m \in DOMAIN accessors \cap (Mixins[SocketType[x]] \cup {"Socket"}) :
    o \in DOMAIN accessors[m]

(* libzmq's side.                                                          *)

ZmqType(o) ==
  CASE o = "AFFINITY" -> "uint64" [] o = "MAXMSGSIZE" -> "int64"
    [] o = "IDENTITY" -> "bytes" [] OTHER -> "int"
Sizeof ==
  [bool |-> 1, flag |-> 4, int |-> 4, int64 |-> 8, uint64 |-> 8, bytes |-> 0]
Fits(type, o) == Sizeof[type] = Sizeof[ZmqType(o)]

\* The options that the setters take as a bool.
Switches ==
  {o \in Accessible(SettersOf) : AccessorType(SettersOf, o) = "flag"}

\* The least value that libzmq accepts; of an identity, the least length.
Least(o) ==
  CASE o \in {"LINGER", "SNDTIMEO", "RCVTIMEO", "RECONNECT_IVL", "MAXMSGSIZE"}
         -> -1
    [] o \in {"RATE", "RECOVERY_IVL", "MULTICAST_HOPS", "IDENTITY"} -> 1
    [] OTHER -> 0
Greatest(o) == IF o = "IDENTITY" THEN 255 ELSE 2147483647

Default(o) ==
  CASE o \in {"LINGER", "SNDTIMEO", "RCVTIMEO", "MAXMSGSIZE"} -> -1
    [] o \in {"SNDHWM", "RCVHWM"} -> 1000
    [] o \in {"BACKLOG", "RATE", "RECONNECT_IVL"} -> 100
    [] o = "HANDSHAKE_IVL" -> 30000 [] o = "RECOVERY_IVL" -> 10000
    [] o = "MULTICAST_HOPS" -> 1 [] OTHER -> 0

ASSUME OptionsAssumption ==
  /\ SocketType \in [Objects -> Types]
  /\ Settings \subseteq {"ipv6", "blocky"}
  /\ Options \subseteq Accessible(SettersOf)
  /\ \A o \in Options :
       Inputs[o] \subseteq IF o \in Switches THEN BOOLEAN ELSE Int
  /\ MaxSockets \in Nat /\ MaxConnections \in Nat /\ MaxSettings \in Nat

VARIABLES
  context,     \* the Context's settings: sockets have them when created
  object,      \* the handle that each Socket object holds, 0 for none
  options,     \* libzmq's options of each socket created so far
  connections, \* the connections made so far: their socket, its options when
               \* they were made, and the length of `log' then
  filters,     \* how often each socket is subscribed to each prefix
  answer,      \* what a getter has just returned, if one has
  refused,     \* the call that has just thrown, if one has
  log          \* history: the settings and subscriptions accepted so far

vars ==
  <<context, object, options, connections, filters, answer, refused, log>>
----------------------------------------------------------------------------
Init ==
  /\ context = [ipv6 |-> FALSE, blocky |-> TRUE]
  /\ object = [x \in Objects |-> 0]
  /\ options = <<>> /\ connections = <<>> /\ filters = <<>>
  /\ answer = {} /\ refused = {}
  /\ log = <<>>

\* Context::setIPv6Enabled and setBlocky, as long as sockets may follow.
SetContextSetting(setting, value) ==
  /\ Len(options) < MaxSockets
  /\ context' = [context EXCEPT ![setting] = value]
  /\ answer' = {} /\ refused' = {}
  /\ UNCHANGED <<object, options, connections, filters, log>>

\* (value) ? 1 : 0 for a bool.
Encode(o, value) == IF o \in Switches THEN (IF value THEN 1 ELSE 0) ELSE value

\* What a new socket has for option o under the settings of its Context.
Initially(o, settings) ==
  CASE o = "IPV6" -> Encode(o, settings.ipv6)
    [] o = "LINGER" -> IF settings.blocky THEN -1 ELSE 0
    [] OTHER -> Default(o)

\* The Context's createXSocket; the result initialises object x.
CreateSocket(x) ==
  /\ object[x] = 0
  /\ Len(options) < MaxSockets
  /\ options' = Append(options, [o \in Options |-> Initially(o, context)])
  /\ object' = [object EXCEPT ![x] = Len(options')]
  /\ filters' = Append(filters, [f \in Topics |-> 0])
  /\ log' = Append(log, [socket |-> Len(options'), option |-> "socket",
                         value |-> context])
  /\ answer' = {} /\ refused' = {}
  /\ UNCHANGED <<context, connections>>

\* Mutant: x only gets to know y's socket.
MoveAssignCopies(x, y) ==
  /\ SocketType[x] = SocketType[y]
  /\ object' = [object EXCEPT ![x] = object[y]]
  /\ answer' = {} /\ refused' = {}
  /\ UNCHANGED <<context, options, connections, filters, log>>

\* x = std::move(y), which swaps; both are of one type.
MoveAssign(x, y) ==
  /\ SocketType[x] = SocketType[y]
  /\ object' = [object EXCEPT ![x] = object[y], ![y] = object[x]]
  /\ answer' = {} /\ refused' = {}
  /\ UNCHANGED <<context, options, connections, filters, log>>

Accepted(x, o, value) ==
  /\ object[x] # 0 /\ Fits(AccessorType(SettersOf, o), o)
  /\ Encode(o, value) \in Least(o) .. Greatest(o)

\* Mutant: a bool is passed the wrong way round.
SetOptionInverted(x, o, value) ==
  /\ Offers(SettersOf, x, o) /\ Accepted(x, o, value)
  /\ Len(log) < MaxSettings + Len(options)
  /\ options' = [options EXCEPT ![object[x]][o] =
                   IF o \in Switches THEN (IF value THEN 0 ELSE 1) ELSE value]
  /\ log' = Append(log, [socket |-> object[x], option |-> o, value |-> value])
  /\ answer' = {} /\ refused' = {}
  /\ UNCHANGED <<context, object, connections, filters>>

\* The call throws what libzmq refuses, and changes nothing.
Throws(call) ==
  /\ refused' = {call} /\ answer' = {}
  /\ UNCHANGED <<context, object, options, connections, filters, log>>

SetOption(x, o, value) ==
  /\ Offers(SettersOf, x, o) /\ Accepted(x, o, value)
  /\ Len(log) < MaxSettings + Len(options)
  /\ options' = [options EXCEPT ![object[x]][o] = Encode(o, value)]
  /\ log' = Append(log, [socket |-> object[x], option |-> o, value |-> value])
  /\ answer' = {} /\ refused' = {}
  /\ UNCHANGED <<context, object, connections, filters>>

\* The size or the value is wrong, or there is no socket.
SetOptionThrows(x, o, value) ==
  /\ Offers(SettersOf, x, o) /\ ~Accepted(x, o, value)
  /\ Throws([kind |-> "set", socket |-> object[x], option |-> o,
             value |-> Encode(o, value)])

Readable(x, o) == object[x] # 0 /\ Fits(AccessorType(GettersOf, o), o)

\* Mutant: getSendHighWaterMark asks for ZMQ_RCVHWM.
GetOptionPasted(x, o) ==
  /\ Offers(GettersOf, x, o) /\ Readable(x, o)
  /\ answer' = {[socket |-> object[x], option |-> o,
                 value |-> options[object[x]]
                             [IF o = "SNDHWM" THEN "RCVHWM" ELSE o],
                 settings |-> Len(log)]}
  /\ refused' = {}
  /\ UNCHANGED <<context, object, options, connections, filters, log>>

\* A getter returns the value that libzmq wrote.
GetOption(x, o) ==
  /\ Offers(GettersOf, x, o) /\ Readable(x, o)
  /\ answer' = {[socket |-> object[x], option |-> o,
                 value |-> options[object[x]][o], settings |-> Len(log)]}
  /\ refused' = {}
  /\ UNCHANGED <<context, object, options, connections, filters, log>>

GetOptionThrows(x, o) ==
  /\ Offers(GettersOf, x, o) /\ ~Readable(x, o)
  /\ Throws([kind |-> "get", socket |-> object[x], option |-> o])

\* subscribe() or unsubscribe(): libzmq has ZMQ_SUBSCRIBE for SUB sockets only,
\* and an XSUB socket offers the calls as well.
Subscribable(x) == object[x] # 0 /\ SocketType[x] = "Sub"

SubscribeThrows(x) ==
  /\ "Subscribing" \in Mixins[SocketType[x]] /\ ~Subscribable(x)
  /\ Throws([kind |-> "subscribe", socket |-> object[x]])

\* Mutant: subscribing twice is subscribing once.
SubscribeOnce(x, f) ==
  /\ Subscribable(x) /\ Len(log) < MaxSettings + Len(options)
  /\ filters' = [filters EXCEPT ![object[x]][f] = 1]
  /\ log' = Append(log, [socket |-> object[x], option |-> "SUBSCRIBE",
                         value |-> f])
  /\ answer' = {} /\ refused' = {}
  /\ UNCHANGED <<context, object, options, connections>>

Subscribe(x, f) ==
  /\ Subscribable(x) /\ Len(log) < MaxSettings + Len(options)
  /\ filters' = [filters EXCEPT ![object[x]][f] = @ + 1]
  /\ log' = Append(log, [socket |-> object[x], option |-> "SUBSCRIBE",
                         value |-> f])
  /\ answer' = {} /\ refused' = {}
  /\ UNCHANGED <<context, object, options, connections>>

\* Unsubscribing from what is not subscribed to changes nothing.
Unsubscribe(x, f) ==
  /\ Subscribable(x) /\ Len(log) < MaxSettings + Len(options)
  /\ filters' = [filters EXCEPT ![object[x]][f] = IF @ = 0 THEN 0 ELSE @ - 1]
  /\ log' = Append(log, [socket |-> object[x], option |-> "UNSUBSCRIBE",
                         value |-> f])
  /\ answer' = {} /\ refused' = {}
  /\ UNCHANGED <<context, object, options, connections>>

\* connect() or bind(): a connection works with the options of its socket at
\* the time.
Connect(x) ==
  /\ object[x] # 0
  /\ Len(connections) < MaxConnections
  /\ connections' = Append(connections,
       [socket |-> object[x], options |-> options[object[x]],
        settings |-> Len(log)])
  /\ answer' = {} /\ refused' = {}
  /\ UNCHANGED <<context, object, options, filters, log>>

Next ==
  \/ \E setting \in Settings, value \in BOOLEAN :
       SetContextSetting(setting, value)
  \/ \E x \in Objects :
       \/ CreateSocket(x)
       \/ \E y \in Objects \ {x} : MoveAssign(x, y)
       \/ \E o \in Options :
            \/ GetOption(x, o) \/ GetOptionThrows(x, o)
            \/ \E value \in Inputs[o] :
                 SetOption(x, o, value) \/ SetOptionThrows(x, o, value)
       \/ \E f \in Topics : Subscribe(x, f) \/ Unsubscribe(x, f)
       \/ SubscribeThrows(x)
       \/ Connect(x)

Spec == Init /\ [][Next]_vars
----------------------------------------------------------------------------
(* Properties.                                                             *)

TypeOK ==
  /\ context \in [ipv6 : BOOLEAN, blocky : BOOLEAN]
  /\ filters \in Seq([Topics -> Nat]) /\ Len(filters) = Len(options)
  /\ object \in [Objects -> 0 .. Len(options)]
  /\ options \in Seq([Options -> Int]) /\ Len(options) <= MaxSockets
  /\ \A s \in 1 .. Len(options) : \A o \in Options :
       options[s][o] \in Least(o) .. Greatest(o) \/ options[s][o] = Default(o)
  /\ \A c \in 1 .. Len(connections) :
       connections[c].socket \in 1 .. Len(options)
  /\ Len(log) <= MaxSettings + MaxSockets
  /\ answer = {} \/ refused = {}
  /\ \A x, y \in Objects : x # y /\ object[x] # 0 => object[x] # object[y]

\* The reference: what socket s has for option o after the first n entries.
Asked(s, o, n) ==
  LET own == {k \in 1 .. n : log[k].socket = s /\ log[k].option = o}
      made == CHOOSE k \in 1 .. n :
                log[k].socket = s /\ log[k].option = "socket"
  IN  IF own = {} THEN Initially(o, log[made].value)
      ELSE Encode(o, log[CHOOSE k \in own : \A l \in own : l <= k].value)

\* A getter that returns gives what the latest setter that returned was given
\* for the same socket, or what the Context had when it was created, however
\* the Socket objects have been swapped and whatever was refused in between.
AnswersAsAsked ==
  \A a \in answer : a.value = Asked(a.socket, a.option, a.settings)

\* A connection works with the settings made before it, and no later ones.
ConnectionsAsAsked ==
  \A c \in 1 .. Len(connections) : \A o \in Options :
    connections[c].options[o]
      = Asked(connections[c].socket, o, connections[c].settings)

\* The reference: how much more often socket s was subscribed to prefix f than
\* it was unsubscribed from it, from entry k of the log on.
Entries(option, s, f, k) ==
  {i \in k .. Len(log) :
     log[i].socket = s /\ log[i].option = option /\ log[i].value = f}
Net(s, f, k) ==
  Cardinality(Entries("SUBSCRIBE", s, f, k))
    - Cardinality(Entries("UNSUBSCRIBE", s, f, k))

\* A socket is subscribed to a prefix as often as it was subscribed to it more
\* than it was unsubscribed since, counted from where that is the most,
\* however the Socket objects have been swapped (SubscribingSocket.hpp:66-97).
FiltersAsAsked ==
  \A s \in 1 .. Len(options) : \A f \in Topics :
    LET asked == {Net(s, f, k) : k \in 1 .. Len(log) + 1}
    IN  filters[s][f] \in asked /\ \A net \in asked : net <= filters[s][f]

\* What libzmq refuses is a value out of its range, or any call through an
\* object whose socket was moved away: the types of the accessors, and which
\* socket types have them, are right (src/README.md:8).  Not so.
AccessorsWork ==
  \A call \in refused :
    \/ call.socket = 0
    \/ /\ call.kind = "set"
       /\ call.value \notin Least(call.option) .. Greatest(call.option)
=============================================================================
