------------------------ MODULE SocketOptions_proofs -------------------------
(***************************************************************************)
(* Theorems about SocketOptions, for any Socket objects, options, inputs   *)
(* and numbers of sockets, connections and settings: what getters answer   *)
(* and what connections work with is what was asked of the same socket     *)
(* before, and what libzmq refused has no part in it.                      *)
(***************************************************************************)
EXTENDS SocketOptions, SequenceTheorems, FiniteSetTheorems, TLAPS

(* The inductive invariant.                                                *)

\* Entry k of log lg is about option o of socket s.
Own(lg, k, s, o) == lg[k].socket = s /\ lg[k].option = o

\* By the first n entries of log lg, socket s has v for option o: the relation
\* of which Asked is the function.
Tells(lg, s, o, n, v) ==
  \/ \E l \in 1 .. n :
       /\ Own(lg, l, s, o) /\ v = Encode(o, lg[l].value)
       /\ \A k \in 1 .. n : Own(lg, k, s, o) => k <= l
  \/ /\ \A k \in 1 .. n : ~Own(lg, k, s, o)
     /\ \E c \in 1 .. n :
          Own(lg, c, s, "socket") /\ v = Initially(o, lg[c].value)

\* The log is a sequence, about the sockets that there are.
Logged ==
  /\ log \in Seq({log[k] : k \in 1 .. Len(log)})
  /\ Len(log) <= MaxSettings + Len(options)
  /\ \A k \in 1 .. Len(log) : log[k].socket \in 1 .. Len(options)

\* A socket is created once.
CreatedOnce ==
  \A k, l \in 1 .. Len(log) :
    /\ log[k].option = "socket" /\ log[l].option = "socket"
    /\ log[k].socket = log[l].socket
    => k = l

\* Each option of each socket is as the log tells.
OptionsTold ==
  \A s \in 1 .. Len(options) : \A o \in Options :
    Tells(log, s, o, Len(log), options[s][o])

\* And so are the options that connections were made with, and answers.
ConnectionsTold ==
  /\ connections \in Seq([socket : Nat, options : [Options -> Int],
                          settings : Nat])
  /\ \A c \in 1 .. Len(connections) :
       /\ connections[c].settings <= Len(log)
       /\ \A o \in Options :
            Tells(log, connections[c].socket, o, connections[c].settings,
                  connections[c].options[o])

AnswersTold ==
  \A a \in answer :
    /\ a.settings \in Nat /\ a.settings <= Len(log)
    /\ Tells(log, a.socket, a.option, a.settings, a.value)

IInv ==
  /\ TypeOK
  /\ Logged
  /\ CreatedOnce
  /\ OptionsTold
  /\ ConnectionsTold
  /\ AnswersTold
----------------------------------------------------------------------------
(* The options.                                                            *)

\* No option has the name of another kind of entry in the log.
LEMMA OptionNames ==
  \A o \in Options : o \notin {"socket", "SUBSCRIBE", "UNSUBSCRIBE"}
PROOF
<1> DEFINE Names == {"socket", "SUBSCRIBE", "UNSUBSCRIBE"}
<1>1. ASSUME NEW m \in DOMAIN SettersOf
      PROVE  DOMAIN SettersOf[m] \cap Names = {}
  BY DEF SettersOf, SocketSetters, SendingSetters, ReceivingSetters,
         ConflatingSetters, RoutingSetters, RequestingSetters, ProbingSetters,
         IdentifyingSetters
<1>2. Accessible(SettersOf) \cap Names = {}
  BY <1>1 DEF Accessible
<1>3. QED
  BY <1>2, OptionsAssumption DEF OptionsAssumption

\* setIPv6 takes a bool.
LEMMA IPv6Switch == "IPV6" \in Switches
PROOF
<1>1. ASSUME NEW m \in DOMAIN SettersOf, "IPV6" \in DOMAIN SettersOf[m]
      PROVE  m = "Socket"
  BY <1>1 DEF SettersOf, SocketSetters, SendingSetters, ReceivingSetters,
              ConflatingSetters, RoutingSetters, RequestingSetters,
              ProbingSetters, IdentifyingSetters
<1>2. /\ "Socket" \in DOMAIN SettersOf
      /\ "IPV6" \in DOMAIN SettersOf["Socket"]
      /\ SettersOf["Socket"]["IPV6"] = "flag"
  BY DEF SettersOf, SocketSetters
<1>3. AccessorType(SettersOf, "IPV6") = "flag"
  BY <1>1, <1>2 DEF AccessorType
<1>4. "IPV6" \in Accessible(SettersOf)
  BY <1>2 DEF Accessible
<1>5. QED
  BY <1>3, <1>4 DEF Switches

\* What a new socket has for an option is of its type.
LEMMA InitiallyType ==
  ASSUME NEW settings \in [ipv6 : BOOLEAN, blocky : BOOLEAN],
         NEW o
  PROVE  /\ Initially(o, settings) \in Int
         /\ \/ Initially(o, settings) \in Least(o) .. Greatest(o)
            \/ Initially(o, settings) = Default(o)
PROOF
<1>1. Default(o) \in Int
  BY DEF Default
<1>2. CASE o = "IPV6"
  BY <1>2, IPv6Switch DEF Initially, Encode, Least, Greatest, Default
<1>3. CASE o = "LINGER"
  BY <1>3 DEF Initially, Least, Greatest, Default
<1>4. CASE o # "IPV6" /\ o # "LINGER"
  <2>1. Initially(o, settings) = Default(o)
    BY <1>4 DEF Initially
  <2>2. QED
    BY <1>1, <2>1
<1>5. QED
  BY <1>2, <1>3, <1>4

(* The log.                                                                *)

\* What an entry more leaves of the log.
LEMMA LogGrows ==
  ASSUME NEW lg, lg \in Seq({lg[k] : k \in 1 .. Len(lg)}), NEW e, NEW new,
         new = Append(lg, e)
  PROVE  /\ new \in Seq({new[k] : k \in 1 .. Len(new)})
         /\ Len(lg) \in Nat /\ Len(new) = Len(lg) + 1
         /\ \A k \in 1 .. Len(lg) : new[k] = lg[k]
         /\ new[Len(lg) + 1] = e
PROOF
<1> DEFINE Elements == {lg[k] : k \in 1 .. Len(lg)} \cup {e}
<1>1. lg \in Seq(Elements) /\ e \in Elements
  <2>1. lg \in [1 .. Len(lg) -> {lg[k] : k \in 1 .. Len(lg)}]
        /\ Len(lg) \in Nat
    BY LenProperties
  <2>2. lg \in [1 .. Len(lg) -> Elements]
    BY <2>1
  <2>3. QED
    BY <2>1, <2>2, SeqDef
<1> HIDE DEF Elements
<1>2. /\ new \in Seq(Elements)
      /\ Len(new) = Len(lg) + 1
      /\ \A k \in 1 .. Len(lg) : new[k] = lg[k]
      /\ new[Len(lg) + 1] = e
  BY <1>1, AppendProperties
<1>3. Len(lg) \in Nat /\ Len(new) \in Nat
  BY <1>1, <1>2, LenProperties
<1>4. new \in Seq({new[k] : k \in 1 .. Len(new)})
  <2> DEFINE R == {new[k] : k \in 1 .. Len(new)}
  <2>1. new \in [1 .. Len(new) -> Elements]
    BY <1>2, LenProperties
  <2>2. new \in [1 .. Len(new) -> R]
    BY <2>1
  <2> HIDE DEF R
  <2>3. \E n \in Nat : new \in [1 .. n -> R]
    BY <1>3, <2>2
  <2>4. new \in UNION {[1 .. n -> R] : n \in Nat}
    BY <2>3
  <2>5. new \in Seq(R)
    BY <2>4, SeqDef
  <2>6. QED
    BY <2>5 DEF R
<1>5. QED
  BY <1>2, <1>3, <1>4

\* What the first n entries tell does not change.
LEMMA TellsStable ==
  ASSUME NEW lg, NEW new, NEW s, NEW o, NEW n \in Nat, NEW v,
         \A k \in 1 .. n : new[k] = lg[k]
  PROVE  Tells(new, s, o, n, v) <=> Tells(lg, s, o, n, v)
PROOF
<1>1. \A k \in 1 .. n : /\ Own(new, k, s, o) <=> Own(lg, k, s, o)
                        /\ Own(new, k, s, "socket") <=> Own(lg, k, s, "socket")
  BY DEF Own
<1>2. QED
  BY <1>1 DEF Tells

\* An entry that is not about an option leaves it.
LEMMA TellsElsewhere ==
  ASSUME NEW lg, NEW new, NEW s, NEW o, NEW n \in Nat, NEW v,
         \A k \in 1 .. n : new[k] = lg[k],
         ~Own(new, n + 1, s, o),
         Tells(lg, s, o, n, v)
  PROVE  Tells(new, s, o, n + 1, v)
PROOF
<1>1. Tells(new, s, o, n, v)
  BY TellsStable
<1>2. \A k \in 1 .. n + 1 : Own(new, k, s, o) => k \in 1 .. n
  OBVIOUS
<1>3. 1 .. n \subseteq 1 .. n + 1
  OBVIOUS
<1> HIDE DEF Own
<1>4. QED
  BY <1>1, <1>2, <1>3 DEF Tells

\* An entry that sets an option tells its value.
LEMMA TellsLatest ==
  ASSUME NEW lg, NEW s, NEW o, NEW n \in Nat, Own(lg, n + 1, s, o)
  PROVE  Tells(lg, s, o, n + 1, Encode(o, lg[n + 1].value))
BY DEF Tells

\* An entry that creates a socket tells all its options.
LEMMA TellsCreated ==
  ASSUME NEW lg, NEW s, NEW o, NEW n \in Nat, Own(lg, n + 1, s, "socket"),
         \A k \in 1 .. n + 1 : ~Own(lg, k, s, o)
  PROVE  Tells(lg, s, o, n + 1, Initially(o, lg[n + 1].value))
BY DEF Tells

\* The relation is the function.
LEMMA TellsAsked ==
  ASSUME NEW s, NEW o, NEW n \in Nat, NEW v, n <= Len(log), Len(log) \in Nat,
         CreatedOnce, Tells(log, s, o, n, v)
  PROVE  v = Asked(s, o, n)
PROOF
<1> DEFINE own  == {k \in 1 .. n : log[k].socket = s /\ log[k].option = o}
           made == CHOOSE k \in 1 .. n :
                     log[k].socket = s /\ log[k].option = "socket"
           last == CHOOSE k \in own : \A l \in own : l <= k
<1>1. Asked(s, o, n) = IF own = {} THEN Initially(o, log[made].value)
                                   ELSE Encode(o, log[last].value)
  BY DEF Asked
<1>2. CASE own = {}
  <2>1. PICK c \in 1 .. n :
          Own(log, c, s, "socket") /\ v = Initially(o, log[c].value)
    BY <1>2 DEF Tells, Own
  <2>2. made \in 1 .. n /\ log[made].socket = s /\ log[made].option = "socket"
    BY <2>1 DEF Own
  <2> HIDE DEF made
  <2>3. made = c
    BY <2>1, <2>2 DEF Own, CreatedOnce
  <2>4. QED
    BY <1>1, <1>2, <2>1, <2>3
<1>3. CASE own # {}
  <2>1. PICK l \in 1 .. n :
          /\ Own(log, l, s, o) /\ v = Encode(o, log[l].value)
          /\ \A k \in 1 .. n : Own(log, k, s, o) => k <= l
    BY <1>3 DEF Tells, Own
  <2>2. l \in own /\ \A k \in own : k <= l
    BY <2>1 DEF Own
  <2>3. last \in own /\ \A k \in own : k <= last
    BY <2>2
  <2> HIDE DEF last
  <2>4. last = l
    BY <2>2, <2>3
  <2>5. QED
    BY <1>1, <1>3, <2>1, <2>4
<1>4. QED
  BY <1>2, <1>3

(* Facts that hold in every state of the inductive invariant.              *)

LEMMA StateFacts ==
  ASSUME IInv
  PROVE  /\ log \in Seq({log[k] : k \in 1 .. Len(log)})
         /\ Len(log) \in Nat /\ Len(log) <= MaxSettings + Len(options)
         /\ options \in Seq([Options -> Int]) /\ Len(options) \in Nat
         /\ Len(options) <= MaxSockets
         /\ MaxSockets \in Nat /\ MaxSettings \in Nat
         /\ filters \in Seq([Topics -> Nat]) /\ Len(filters) = Len(options)
         /\ connections \in Seq([socket : Nat, options : [Options -> Int],
                                 settings : Nat])
         /\ Len(connections) \in Nat
         /\ object \in [Objects -> 0 .. Len(options)]
         /\ context \in [ipv6 : BOOLEAN, blocky : BOOLEAN]
         /\ SocketType \in [Objects -> Types]
BY OptionsAssumption, LenProperties
   DEF IInv, TypeOK, Logged, ConnectionsTold, OptionsAssumption

LEMMA LimitsType ==
  \A o : Least(o) \in Int /\ Greatest(o) \in Int
BY DEF Least, Greatest

LEMMA ConnectionFacts ==
  ASSUME IInv, NEW c \in 1 .. Len(connections)
  PROVE  /\ connections[c].settings \in Nat
         /\ connections[c].settings <= Len(log)
PROOF
<1>1. connections[c] \in [socket : Nat, options : [Options -> Int],
                          settings : Nat]
  BY StateFacts, ElementOfSeq
<1>2. connections[c].settings \in Nat
  BY <1>1
<1>3. QED
  BY <1>2 DEF IInv, ConnectionsTold

\* Field d of element s of a sequence is changed to v, and nothing else is.
SetIn(f, s, d, v, new) == new = [f EXCEPT ![s][d] = v]
OnlySet(D, f, s, d, v, new) ==
  /\ Len(new) = Len(f)
  /\ new[s][d] = v
  /\ \A r \in 1 .. Len(f) : \A e \in D :
       r # s \/ e # d => new[r][e] = f[r][e]
IsOptions(f) == f \in Seq([Options -> Int])
IsFilters(f) == f \in Seq([Topics -> Nat])

LEMMA OptionField ==
  ASSUME NEW f, IsOptions(f), NEW s \in 1 .. Len(f), NEW d \in Options,
         NEW v \in Int, NEW new, SetIn(f, s, d, v, new)
  PROVE  IsOptions(new) /\ OnlySet(Options, f, s, d, v, new)
PROOF
<1> DEFINE g == [f[s] EXCEPT ![d] = v]
<1>1. f \in Seq([Options -> Int]) /\ f[s] \in [Options -> Int]
  BY ElementOfSeq DEF IsOptions
<1>2. /\ g \in [Options -> Int] /\ g[d] = v
      /\ \A e \in Options : e # d => g[e] = f[s][e]
  BY <1>1
<1>3. new = [f EXCEPT ![s] = g]
  BY DEF SetIn
<1> HIDE DEF g
<1>4. /\ new \in Seq([Options -> Int]) /\ Len(new) = Len(f)
      /\ \A r \in 1 .. Len(f) : new[r] = IF r = s THEN g ELSE f[r]
  BY <1>1, <1>2, <1>3, ExceptSeq
<1>5. QED
  BY <1>2, <1>4 DEF OnlySet, IsOptions

LEMMA FilterField ==
  ASSUME NEW f, IsFilters(f), NEW s \in 1 .. Len(f), NEW d \in Topics,
         NEW v \in Nat, NEW new, SetIn(f, s, d, v, new)
  PROVE  IsFilters(new) /\ OnlySet(Topics, f, s, d, v, new)
PROOF
<1> DEFINE g == [f[s] EXCEPT ![d] = v]
<1>1. f \in Seq([Topics -> Nat]) /\ f[s] \in [Topics -> Nat]
  BY ElementOfSeq DEF IsFilters
<1>2. /\ g \in [Topics -> Nat] /\ g[d] = v
      /\ \A e \in Topics : e # d => g[e] = f[s][e]
  BY <1>1
<1>3. new = [f EXCEPT ![s] = g]
  BY DEF SetIn
<1> HIDE DEF g
<1>4. /\ new \in Seq([Topics -> Nat]) /\ Len(new) = Len(f)
      /\ \A r \in 1 .. Len(f) : new[r] = IF r = s THEN g ELSE f[r]
  BY <1>1, <1>2, <1>3, ExceptSeq
<1>5. QED
  BY <1>2, <1>4 DEF OnlySet, IsFilters

(* What holds after each kind of step, given what the kind changes.        *)

\* The invariant of the log and of what is told by it.
Told ==
  Logged /\ CreatedOnce /\ OptionsTold /\ ConnectionsTold /\ AnswersTold

\* A step that accepts nothing and connects nothing.
LEMMA QuietTold ==
  ASSUME IInv, UNCHANGED <<options, connections, log>>, AnswersTold'
  PROVE  Told'
BY DEF IInv, Told, Logged, CreatedOnce, OptionsTold, ConnectionsTold

\* A setting or subscription is accepted, or a socket created.
LEMMA EntryTold ==
  ASSUME IInv, NEW e, log' = Append(log, e), answer' = {},
         UNCHANGED connections, Len(options') \in Nat,
         Len(options) <= Len(options'),
         Len(log) < MaxSettings + Len(options'),
         e.socket \in 1 .. Len(options'),
         e.option = "socket"
           => \A k \in 1 .. Len(log) : log[k].socket # e.socket
  PROVE  Logged' /\ CreatedOnce' /\ ConnectionsTold' /\ AnswersTold'
PROOF
<1>1. /\ Len(log) \in Nat /\ Len(options) \in Nat /\ MaxSettings \in Nat
      /\ connections \in Seq([socket : Nat, options : [Options -> Int],
                              settings : Nat])
      /\ log \in Seq({log[k] : k \in 1 .. Len(log)})
  BY StateFacts
<1>2. /\ log' \in Seq({log'[k] : k \in 1 .. Len(log')})
      /\ Len(log') = Len(log) + 1
      /\ \A k \in 1 .. Len(log) : log'[k] = log[k]
      /\ log'[Len(log) + 1] = e
  BY <1>1, LogGrows
<1>3. Len(log) \in Nat /\ Len(options) \in Nat /\ Len(log') = Len(log) + 1
  BY <1>1, <1>2
<1>4. \A k \in 1 .. Len(log') : k \in 1 .. Len(log) \/ k = Len(log) + 1
  BY <1>3
<1>5. Logged'
  <2>1. ASSUME NEW k \in 1 .. Len(log')
        PROVE  log'[k].socket \in 1 .. Len(options')
    <3>1. CASE k \in 1 .. Len(log)
      <4>1. log[k].socket \in 1 .. Len(options)
        BY <3>1 DEF IInv, Logged
      <4>2. log'[k].socket = log[k].socket
        BY <1>2, <3>1
      <4>3. QED
        BY <1>3, <4>1, <4>2
    <3>2. CASE k = Len(log) + 1
      BY <1>2, <3>2
    <3>3. QED
      BY <1>4, <3>1, <3>2
  <2>2. Len(log') <= MaxSettings + Len(options')
    BY <1>1, <1>2
  <2>3. QED
    BY <1>2, <2>1, <2>2 DEF Logged
<1>6. CreatedOnce'
  <2>1. SUFFICES ASSUME NEW k \in 1 .. Len(log'), NEW l \in 1 .. Len(log'),
                        log'[k].option = "socket", log'[l].option = "socket",
                        log'[k].socket = log'[l].socket
                 PROVE  k = l
    BY DEF CreatedOnce
  <2>2. /\ k \in 1 .. Len(log) \/ k = Len(log) + 1
        /\ l \in 1 .. Len(log) \/ l = Len(log) + 1
    BY <1>4
  <2>3. CASE k \in 1 .. Len(log) /\ l \in 1 .. Len(log)
    BY <1>2, <2>1, <2>3 DEF IInv, CreatedOnce
  <2>4. QED
    BY <1>2, <2>1, <2>2, <2>3
<1>7. ConnectionsTold'
  <2>1. ASSUME NEW c \in 1 .. Len(connections)
        PROVE  /\ connections[c].settings <= Len(log')
               /\ \A o \in Options :
                    Tells(log', connections[c].socket, o,
                          connections[c].settings, connections[c].options[o])
    <3>1. connections[c].settings \in Nat /\ connections[c].settings <= Len(log)
      BY ConnectionFacts
    <3>2. \A k \in 1 .. connections[c].settings : log'[k] = log[k]
      BY <1>1, <1>2, <3>1
    <3>3. ASSUME NEW o \in Options
          PROVE  Tells(log', connections[c].socket, o,
                       connections[c].settings, connections[c].options[o])
      <4>1. Tells(log, connections[c].socket, o, connections[c].settings,
                  connections[c].options[o])
        BY DEF IInv, ConnectionsTold
      <4>2. QED
        BY <3>1, <3>2, <4>1, TellsStable
    <3>4. QED
      BY <1>1, <1>2, <3>1, <3>3
  <2>2. QED
    BY <1>1, <2>1 DEF ConnectionsTold
<1>8. AnswersTold'
  BY DEF AnswersTold
<1>9. QED
  BY <1>5, <1>6, <1>7, <1>8

\* An entry that is about no option leaves the options told.
LEMMA OptionsToldElsewhere ==
  ASSUME IInv, NEW e, log' = Append(log, e), e.option \notin Options,
         NEW s \in 1 .. Len(options), NEW o \in Options
  PROVE  Tells(log', s, o, Len(log'), options[s][o])
PROOF
<1>1. Len(log) \in Nat /\ log \in Seq({log[k] : k \in 1 .. Len(log)})
  BY StateFacts
<1>2. /\ Len(log') = Len(log) + 1
      /\ \A k \in 1 .. Len(log) : log'[k] = log[k]
      /\ log'[Len(log) + 1] = e
  BY <1>1, LogGrows
<1>3. Tells(log, s, o, Len(log), options[s][o])
  BY DEF IInv, OptionsTold
<1>4. ~Own(log', Len(log) + 1, s, o)
  BY <1>2 DEF Own
<1>5. Tells(log', s, o, Len(log) + 1, options[s][o])
  BY <1>1, <1>2, <1>3, <1>4, TellsElsewhere
<1>6. QED
  BY <1>2, <1>5

(* Each step keeps the inductive invariant.                                *)

LEMMA SetContextSettingStep ==
  ASSUME IInv, NEW setting \in Settings, NEW value \in BOOLEAN,
         SetContextSetting(setting, value)
  PROVE  IInv'
PROOF
<1>1. /\ context' = [context EXCEPT ![setting] = value] /\ answer' = {}
      /\ UNCHANGED <<object, options, connections, filters, log>>
  BY DEF SetContextSetting
<1>2. TypeOK'
  <2>1. setting \in {"ipv6", "blocky"}
    BY OptionsAssumption DEF OptionsAssumption
  <2>2. context' \in [ipv6 : BOOLEAN, blocky : BOOLEAN]
    BY <1>1, <2>1, StateFacts
  <2>3. QED
    BY <1>1, <2>2 DEF IInv, TypeOK
<1>3. Told'
  BY <1>1, QuietTold DEF AnswersTold
<1>4. QED
  BY <1>2, <1>3 DEF IInv, Told

LEMMA CreateSocketStep ==
  ASSUME IInv, NEW x \in Objects, CreateSocket(x)
  PROVE  IInv'
PROOF
<1> DEFINE m == Len(options) + 1
           made == [o \in Options |-> Initially(o, context)]
           none == [f \in Topics |-> 0]
<1>1. /\ Len(options) \in Nat /\ Len(options) < MaxSockets
      /\ MaxSockets \in Nat /\ m \in Nat /\ object[x] = 0
      /\ UNCHANGED <<context, connections>> /\ answer' = {}
  BY StateFacts DEF CreateSocket
<1>2. made \in [Options -> Int] /\ none \in [Topics -> Nat]
  BY StateFacts, InitiallyType
<1>3. /\ options' = Append(options, made) /\ filters' = Append(filters, none)
  BY DEF CreateSocket
<1>4. \A o \in Options : made[o] = Initially(o, context)
  OBVIOUS
<1>5. \A f \in Topics : none[f] = 0
  OBVIOUS
<1> HIDE DEF made, none
<1>6. /\ options' \in Seq([Options -> Int]) /\ Len(options') = m
      /\ \A s \in 1 .. Len(options) : options'[s] = options[s]
      /\ options'[m] = made
  BY <1>2, <1>3, StateFacts, AppendProperties
<1>7. /\ filters' \in Seq([Topics -> Nat]) /\ Len(filters') = m
      /\ \A s \in 1 .. Len(options) : filters'[s] = filters[s]
      /\ filters'[m] = none
  BY <1>2, <1>3, StateFacts, AppendProperties
<1> DEFINE e == [socket |-> m, option |-> "socket", value |-> context]
<1>8. /\ object' = [object EXCEPT ![x] = m]
      /\ log' = Append(log, e)
  BY <1>6 DEF CreateSocket
<1>9. e.socket = m /\ e.option = "socket" /\ e.value = context
  OBVIOUS
<1> HIDE DEF e
<1>10. /\ Len(log) \in Nat /\ Len(log') = Len(log) + 1
       /\ \A k \in 1 .. Len(log) : log'[k] = log[k]
       /\ log'[Len(log) + 1] = e
       /\ Len(log) <= MaxSettings + Len(options) /\ MaxSettings \in Nat
  BY <1>8, StateFacts, LogGrows
<1>11. \A k \in 1 .. Len(log) : log[k].socket \in 1 .. Len(options)
  BY DEF IInv, Logged
<1>12. Logged' /\ CreatedOnce' /\ ConnectionsTold' /\ AnswersTold'
  <2>1. \A k \in 1 .. Len(log) : log[k].socket # m
    BY <1>1, <1>11
  <2>2. /\ Len(options') \in Nat /\ Len(options) <= Len(options')
        /\ Len(log) < MaxSettings + Len(options')
        /\ e.socket \in 1 .. Len(options')
    BY <1>1, <1>6, <1>9, <1>10
  <2>3. QED
    BY <1>1, <1>8, <1>9, <2>1, <2>2, EntryTold
<1> HIDE DEF m
<1>13. /\ m \in 1 .. Len(options')
       /\ \A s \in 1 .. Len(options') : s \in 1 .. Len(options) \/ s = m
       /\ \A s \in 1 .. Len(options) : s # m
  BY <1>1, <1>6 DEF m
<1>14. TypeOK'
  <2>1. object' \in [Objects -> 0 .. Len(options')]
    BY <1>1, <1>6, <1>8, StateFacts DEF m
  <2>2. ASSUME NEW s \in 1 .. Len(options'), NEW o \in Options
        PROVE  \/ options'[s][o] \in Least(o) .. Greatest(o)
               \/ options'[s][o] = Default(o)
    <3>1. CASE s \in 1 .. Len(options)
      BY <1>6, <3>1 DEF IInv, TypeOK
    <3>2. CASE s = m
      BY <1>4, <1>6, <3>2, StateFacts, InitiallyType
    <3>3. QED
      BY <1>13, <3>1, <3>2
  <2>3. \A c \in 1 .. Len(connections') :
          connections'[c].socket \in 1 .. Len(options')
    <3>1. \A c \in 1 .. Len(connections) :
            connections[c].socket \in 1 .. Len(options)
      BY DEF IInv, TypeOK
    <3>2. 1 .. Len(options) \subseteq 1 .. Len(options')
      BY <1>1, <1>6 DEF m
    <3>3. QED
      BY <1>1, <3>1, <3>2
  <2>4. ASSUME NEW y \in Objects, NEW z \in Objects, y # z, object'[y] # 0
        PROVE  object'[y] # object'[z]
    <3>1. /\ object \in [Objects -> 0 .. Len(options)]
          /\ m \notin 0 .. Len(options)
      BY <1>1, StateFacts DEF m
    <3>2. object[y] # 0 => object[y] # object[z]
      BY <2>4 DEF IInv, TypeOK
    <3>3. QED
      BY <1>8, <2>4, <3>1, <3>2
  <2>5. /\ context' \in [ipv6 : BOOLEAN, blocky : BOOLEAN]
        /\ Len(options') <= MaxSockets
        /\ Len(log') <= MaxSettings + MaxSockets
    BY <1>1, <1>6, <1>10, StateFacts DEF m
  <2>6. QED
    BY <1>1, <1>6, <1>7, <2>1, <2>2, <2>3, <2>4, <2>5 DEF TypeOK
<1>15. OptionsTold'
  <2>1. ASSUME NEW s \in 1 .. Len(options'), NEW o \in Options
        PROVE  Tells(log', s, o, Len(log'), options'[s][o])
    <3>1. CASE s \in 1 .. Len(options)
      <4>1. e.option \notin Options
        BY <1>9, OptionNames
      <4>2. Tells(log', s, o, Len(log'), options[s][o])
        BY <1>8, <3>1, <4>1, OptionsToldElsewhere
      <4>3. QED
        BY <1>6, <3>1, <4>2
    <3>2. CASE s = m
      <4> DEFINE n == Len(log)
      <4>1. n \in Nat /\ Len(log') = n + 1 /\ log'[n + 1] = e
        BY <1>10
      <4>2. Own(log', n + 1, s, "socket")
        BY <1>9, <3>2, <4>1 DEF Own
      <4>3. o # "socket"
        BY OptionNames
      <4>4. ASSUME NEW k \in 1 .. n + 1
            PROVE  ~Own(log', k, s, o)
        <5>1. CASE k \in 1 .. n
          BY <1>10, <1>11, <1>13, <3>2, <5>1 DEF Own
        <5>2. CASE k = n + 1
          BY <1>9, <4>1, <4>3, <5>2 DEF Own
        <5>3. QED
          BY <4>1, <5>1, <5>2
      <4> HIDE DEF n
      <4>5. Tells(log', s, o, n + 1, Initially(o, log'[n + 1].value))
        BY <4>1, <4>2, <4>4, TellsCreated
      <4>6. log'[n + 1].value = context
        BY <1>9, <4>1
      <4>7. options'[s][o] = Initially(o, context)
        BY <1>4, <1>6, <3>2
      <4>8. QED
        BY <4>1, <4>5, <4>6, <4>7
    <3>3. QED
      BY <1>13, <3>1, <3>2
  <2>2. QED
    BY <2>1 DEF OptionsTold
<1>16. QED
  BY <1>12, <1>14, <1>15 DEF IInv

LEMMA MoveAssignStep ==
  ASSUME IInv, NEW x \in Objects, NEW y \in Objects, MoveAssign(x, y)
  PROVE  IInv'
PROOF
<1>1. /\ SocketType[x] = SocketType[y] /\ answer' = {}
      /\ object' = [object EXCEPT ![x] = object[y], ![y] = object[x]]
      /\ UNCHANGED <<context, options, connections, filters, log>>
  BY DEF MoveAssign
<1>2. object \in [Objects -> 0 .. Len(options)]
  BY StateFacts
<1>3. /\ object' \in [Objects -> 0 .. Len(options)]
      /\ \A z \in Objects : object'[z] = IF z = y THEN object[x]
                                         ELSE IF z = x THEN object[y]
                                         ELSE object[z]
  BY <1>1, <1>2
<1>4. TypeOK'
  <2>1. \A z, w \in Objects :
          z # w /\ object'[z] # 0 => object'[z] # object'[w]
    BY <1>3 DEF IInv, TypeOK
  <2>2. QED
    BY <1>1, <1>3, <2>1 DEF IInv, TypeOK
<1>5. Told'
  BY <1>1, QuietTold DEF AnswersTold
<1>6. QED
  BY <1>4, <1>5 DEF IInv, Told

LEMMA SetOptionStep ==
  ASSUME IInv, NEW x \in Objects, NEW o \in Options, NEW value \in Inputs[o],
         SetOption(x, o, value)
  PROVE  IInv'
PROOF
<1> DEFINE s == object[x]
           v == Encode(o, value)
           e == [socket |-> s, option |-> o, value |-> value]
           n == Len(log)
<1>1. /\ s # 0 /\ v \in Least(o) .. Greatest(o)
      /\ n < MaxSettings + Len(options)
      /\ options' = [options EXCEPT ![s][o] = v]
      /\ log' = Append(log, e)
      /\ answer' = {}
      /\ UNCHANGED <<context, object, connections, filters>>
  BY DEF SetOption, Accepted
<1>2. e.socket = s /\ e.option = o /\ e.value = value
  OBVIOUS
<1>3. s \in 1 .. Len(options) /\ v \in Int
  BY <1>1, StateFacts, LimitsType
<1>4. v = Encode(o, value)
  OBVIOUS
<1> HIDE DEF s, v, e
<1>5. /\ options' \in Seq([Options -> Int]) /\ Len(options') = Len(options)
      /\ options'[s][o] = v
      /\ \A r \in 1 .. Len(options) : \A p \in Options :
           r # s \/ p # o => options'[r][p] = options[r][p]
  <2>1. IsOptions(options)
    BY StateFacts DEF IsOptions
  <2>2. SetIn(options, s, o, v, options')
    BY <1>1 DEF SetIn
  <2>3. IsOptions(options') /\ OnlySet(Options, options, s, o, v, options')
    BY <1>3, <2>1, <2>2, OptionField
  <2>4. QED
    BY <2>3 DEF IsOptions, OnlySet
<1>6. /\ n \in Nat /\ Len(log') = n + 1
      /\ \A k \in 1 .. n : log'[k] = log[k]
      /\ log'[n + 1] = e
  BY <1>1, StateFacts, LogGrows
<1>7. Logged' /\ CreatedOnce' /\ ConnectionsTold' /\ AnswersTold'
  <2>1. e.option # "socket"
    BY <1>2, OptionNames
  <2>2. /\ Len(options') \in Nat /\ Len(options) <= Len(options')
        /\ Len(log) < MaxSettings + Len(options')
        /\ e.socket \in 1 .. Len(options')
    BY <1>1, <1>2, <1>3, <1>5, StateFacts
  <2>3. QED
    BY <1>1, <2>1, <2>2, EntryTold
<1>8. TypeOK'
  <2>1. ASSUME NEW r \in 1 .. Len(options), NEW p \in Options
        PROVE  \/ options'[r][p] \in Least(p) .. Greatest(p)
               \/ options'[r][p] = Default(p)
    BY <1>1, <1>5 DEF IInv, TypeOK
  <2>2. Len(log') <= MaxSettings + MaxSockets
    BY <1>1, <1>6, StateFacts
  <2>3. QED
    BY <1>1, <1>5, <2>1, <2>2 DEF IInv, TypeOK
<1> HIDE DEF n
<1>9. OptionsTold'
  <2>1. ASSUME NEW r \in 1 .. Len(options), NEW p \in Options
        PROVE  Tells(log', r, p, n + 1, options'[r][p])
    <3>1. CASE r = s /\ p = o
      <4>1. Own(log', n + 1, r, p)
        BY <1>2, <1>6, <3>1 DEF Own
      <4>2. Tells(log', r, p, n + 1, Encode(p, log'[n + 1].value))
        BY <1>6, <4>1, TellsLatest
      <4>3. Encode(p, log'[n + 1].value) = options'[r][p]
        BY <1>2, <1>4, <1>5, <1>6, <3>1
      <4>4. QED
        BY <4>2, <4>3
    <3>2. CASE r # s \/ p # o
      <4>1. ~Own(log', n + 1, r, p)
        BY <1>2, <1>6, <3>2 DEF Own
      <4>2. Tells(log, r, p, n, options[r][p])
        BY DEF IInv, OptionsTold, n
      <4>3. Tells(log', r, p, n + 1, options[r][p])
        BY <1>6, <4>1, <4>2, TellsElsewhere
      <4>4. QED
        BY <1>5, <3>2, <4>3
    <3>3. QED
      BY <3>1, <3>2
  <2>2. QED
    BY <1>5, <1>6, <2>1 DEF OptionsTold
<1>10. QED
  BY <1>7, <1>8, <1>9 DEF IInv

LEMMA GetOptionStep ==
  ASSUME IInv, NEW x \in Objects, NEW o \in Options, GetOption(x, o)
  PROVE  IInv'
PROOF
<1> DEFINE s == object[x]
           a == [socket |-> s, option |-> o, value |-> options[s][o],
                 settings |-> Len(log)]
<1>1. /\ s # 0 /\ answer' = {a} /\ refused' = {}
      /\ UNCHANGED <<context, object, options, connections, filters, log>>
  BY DEF GetOption, Readable
<1>2. /\ a.socket = s /\ a.option = o /\ a.value = options[s][o]
      /\ a.settings = Len(log)
  OBVIOUS
<1>3. s \in 1 .. Len(options) /\ Len(log) \in Nat
  BY <1>1, StateFacts
<1> HIDE DEF s, a
<1>4. TypeOK'
  BY <1>1 DEF IInv, TypeOK
<1>5. AnswersTold'
  <2>1. SUFFICES ASSUME NEW b \in answer'
                 PROVE  /\ b.settings \in Nat /\ b.settings <= Len(log')
                        /\ Tells(log', b.socket, b.option, b.settings, b.value)
    BY DEF AnswersTold
  <2>2. b = a
    BY <1>1
  <2>3. Tells(log, s, o, Len(log), options[s][o])
    BY <1>3 DEF IInv, OptionsTold
  <2>4. QED
    BY <1>1, <1>2, <1>3, <2>2, <2>3
<1>6. Told'
  BY <1>1, <1>5, QuietTold
<1>7. QED
  BY <1>4, <1>6 DEF IInv, Told

\* A call that throws.
LEMMA ThrowsStep ==
  ASSUME IInv, NEW call, Throws(call)
  PROVE  IInv'
PROOF
<1>1. /\ answer' = {}
      /\ UNCHANGED <<context, object, options, connections, filters, log>>
  BY DEF Throws
<1>2. TypeOK'
  BY <1>1 DEF IInv, TypeOK
<1>3. Told'
  BY <1>1, QuietTold DEF AnswersTold
<1>4. QED
  BY <1>2, <1>3 DEF IInv, Told

\* Subscribe and Unsubscribe: a subscription of a SUB object's socket, and an
\* entry about it.
LEMMA SubscriptionStep ==
  ASSUME IInv, NEW x \in Objects, NEW f \in Topics, NEW count \in Nat,
         NEW option \in {"SUBSCRIBE", "UNSUBSCRIBE"},
         Subscribable(x), Len(log) < MaxSettings + Len(options),
         filters' = [filters EXCEPT ![object[x]][f] = count],
         log' = Append(log, [socket |-> object[x], option |-> option,
                             value |-> f]),
         answer' = {},
         UNCHANGED <<context, object, options, connections>>
  PROVE  IInv'
PROOF
<1> DEFINE s == object[x]
           e == [socket |-> s, option |-> option, value |-> f]
           n == Len(log)
<1>1. /\ s # 0 /\ n < MaxSettings + Len(options)
      /\ filters' = [filters EXCEPT ![s][f] = count]
      /\ log' = Append(log, e)
  BY DEF Subscribable
<1>2. e.socket = s /\ e.option = option
  OBVIOUS
<1>3. s \in 1 .. Len(options) /\ s \in 1 .. Len(filters)
  BY <1>1, StateFacts
<1> HIDE DEF e
<1>4. /\ filters' \in Seq([Topics -> Nat]) /\ Len(filters') = Len(filters)
      /\ \A r \in 1 .. Len(filters) : \A g \in Topics :
           r # s \/ g # f => filters'[r][g] = filters[r][g]
  <2> HIDE DEF s
  <2>1. IsFilters(filters)
    BY StateFacts DEF IsFilters
  <2>2. SetIn(filters, s, f, count, filters')
    BY <1>1 DEF SetIn
  <2>3. IsFilters(filters') /\ OnlySet(Topics, filters, s, f, count, filters')
    BY <1>3, <2>1, <2>2, FilterField
  <2>4. QED
    BY <2>3 DEF IsFilters, OnlySet
<1>5. /\ n \in Nat /\ Len(log') = n + 1
      /\ \A k \in 1 .. n : log'[k] = log[k]
      /\ log'[n + 1] = e
  BY <1>1, StateFacts, LogGrows
<1>6. e.option \notin Options /\ e.option # "socket"
  BY <1>2, OptionNames
<1>7. Logged' /\ CreatedOnce' /\ ConnectionsTold' /\ AnswersTold'
  <2>1. /\ Len(options') \in Nat /\ Len(options) <= Len(options')
        /\ Len(log) < MaxSettings + Len(options')
        /\ e.socket \in 1 .. Len(options')
    BY <1>1, <1>2, <1>3, StateFacts
  <2>2. QED
    BY <1>1, <1>6, <2>1, EntryTold
<1>8. TypeOK'
  <2>1. Len(log') <= MaxSettings + MaxSockets
    BY <1>1, <1>5, StateFacts
  <2>2. Len(filters') = Len(options')
    BY <1>4, StateFacts
  <2>3. QED
    BY <1>4, <2>1, <2>2 DEF IInv, TypeOK
<1>9. OptionsTold'
  BY <1>1, <1>6, OptionsToldElsewhere DEF OptionsTold
<1>10. QED
  BY <1>7, <1>8, <1>9 DEF IInv

\* The number of subscriptions of a socket to a prefix.
LEMMA FilterType ==
  ASSUME IInv, NEW x \in Objects, object[x] # 0, NEW f \in Topics
  PROVE  /\ object[x] \in 1 .. Len(filters)
         /\ filters[object[x]][f] \in Nat
PROOF
<1>1. object[x] \in 1 .. Len(filters) /\ filters \in Seq([Topics -> Nat])
  BY StateFacts
<1>2. filters[object[x]] \in [Topics -> Nat]
  BY <1>1, ElementOfSeq
<1>3. QED
  BY <1>1, <1>2

LEMMA SubscribeStep ==
  ASSUME IInv, NEW x \in Objects, NEW f \in Topics, Subscribe(x, f)
  PROVE  IInv'
PROOF
<1> DEFINE count == filters[object[x]][f] + 1
<1>1. count \in Nat
  BY FilterType DEF Subscribe, Subscribable
<1>2. filters' = [filters EXCEPT ![object[x]][f] = count]
  BY DEF Subscribe
<1> HIDE DEF count
<1>3. QED
  BY <1>1, <1>2, SubscriptionStep DEF Subscribe

LEMMA UnsubscribeStep ==
  ASSUME IInv, NEW x \in Objects, NEW f \in Topics, Unsubscribe(x, f)
  PROVE  IInv'
PROOF
<1> DEFINE count == IF filters[object[x]][f] = 0 THEN 0
                    ELSE filters[object[x]][f] - 1
<1>1. count \in Nat
  BY FilterType DEF Unsubscribe, Subscribable
<1>2. filters' = [filters EXCEPT ![object[x]][f] = count]
  BY DEF Unsubscribe
<1> HIDE DEF count
<1>3. QED
  BY <1>1, <1>2, SubscriptionStep DEF Unsubscribe

LEMMA ConnectStep ==
  ASSUME IInv, NEW x \in Objects, Connect(x)
  PROVE  IInv'
PROOF
<1> DEFINE s == object[x]
           made == [socket |-> s, options |-> options[s],
                    settings |-> Len(log)]
           n == Len(connections)
<1>1. /\ s # 0 /\ connections' = Append(connections, made) /\ answer' = {}
      /\ UNCHANGED <<context, object, options, filters, log>>
  BY DEF Connect
<1>2. /\ made.socket = s /\ made.options = options[s]
      /\ made.settings = Len(log)
  OBVIOUS
<1>3. s \in 1 .. Len(options) /\ Len(log) \in Nat /\ n \in Nat
  BY <1>1, StateFacts
<1>4. made \in [socket : Nat, options : [Options -> Int], settings : Nat]
  <2>1. options[s] \in [Options -> Int]
    BY <1>3, StateFacts, ElementOfSeq
  <2>2. QED
    BY <1>3, <2>1
<1> HIDE DEF made, s
<1>5. /\ connections' \in Seq([socket : Nat, options : [Options -> Int],
                               settings : Nat])
      /\ Len(connections') = n + 1
      /\ \A c \in 1 .. n : connections'[c] = connections[c]
      /\ connections'[n + 1] = made
  BY <1>1, <1>4, StateFacts, AppendProperties
<1>6. \A c \in 1 .. n + 1 : c \in 1 .. n \/ c = n + 1
  BY <1>3
<1>7. TypeOK'
  <2>1. ASSUME NEW c \in 1 .. n + 1
        PROVE  connections'[c].socket \in 1 .. Len(options)
    <3>1. CASE c \in 1 .. n
      BY <1>5, <3>1 DEF IInv, TypeOK
    <3>2. CASE c = n + 1
      BY <1>2, <1>3, <1>5, <3>2
    <3>3. QED
      BY <1>6, <3>1, <3>2
  <2>2. QED
    BY <1>1, <1>5, <2>1 DEF IInv, TypeOK
<1>8. ConnectionsTold'
  <2>1. ASSUME NEW c \in 1 .. n + 1
        PROVE  /\ connections'[c].settings <= Len(log)
               /\ \A o \in Options :
                    Tells(log, connections'[c].socket, o,
                          connections'[c].settings, connections'[c].options[o])
    <3>1. CASE c \in 1 .. n
      BY <1>5, <3>1 DEF IInv, ConnectionsTold
    <3>2. CASE c = n + 1
      <4>1. \A o \in Options : Tells(log, s, o, Len(log), options[s][o])
        BY <1>3 DEF IInv, OptionsTold
      <4>2. QED
        BY <1>2, <1>3, <1>5, <3>2, <4>1
    <3>3. QED
      BY <1>6, <3>1, <3>2
  <2>2. QED
    BY <1>1, <1>5, <2>1 DEF ConnectionsTold
<1>9. /\ Logged' /\ CreatedOnce' /\ OptionsTold' /\ AnswersTold'
  BY <1>1 DEF IInv, Logged, CreatedOnce, OptionsTold, AnswersTold
<1>10. QED
  BY <1>7, <1>8, <1>9 DEF IInv

LEMMA StepKeepsIInv == IInv /\ [Next]_vars => IInv'
PROOF
<1>1. SUFFICES ASSUME IInv, [Next]_vars PROVE IInv'
  OBVIOUS
<1>2. ASSUME NEW setting \in Settings, NEW value \in BOOLEAN,
             SetContextSetting(setting, value)
      PROVE  IInv'
  BY <1>1, <1>2, SetContextSettingStep
<1>3. ASSUME NEW x \in Objects, CreateSocket(x)
      PROVE  IInv'
  BY <1>1, <1>3, CreateSocketStep
<1>4. ASSUME NEW x \in Objects, NEW y \in Objects \ {x}, MoveAssign(x, y)
      PROVE  IInv'
  BY <1>1, <1>4, MoveAssignStep
<1>5. ASSUME NEW x \in Objects, NEW o \in Options,
             \/ GetOption(x, o) \/ GetOptionThrows(x, o)
             \/ \E value \in Inputs[o] :
                  SetOption(x, o, value) \/ SetOptionThrows(x, o, value)
      PROVE  IInv'
  <2>1. CASE GetOption(x, o)
    BY <1>1, <2>1, GetOptionStep
  <2>2. CASE GetOptionThrows(x, o)
    BY <1>1, <2>2, ThrowsStep DEF GetOptionThrows
  <2>3. ASSUME NEW value \in Inputs[o], SetOption(x, o, value)
        PROVE  IInv'
    BY <1>1, <2>3, SetOptionStep
  <2>4. ASSUME NEW value \in Inputs[o], SetOptionThrows(x, o, value)
        PROVE  IInv'
    BY <1>1, <2>4, ThrowsStep DEF SetOptionThrows
  <2>5. QED
    BY <1>5, <2>1, <2>2, <2>3, <2>4
<1>6. ASSUME NEW x \in Objects, NEW f \in Topics,
             Subscribe(x, f) \/ Unsubscribe(x, f)
      PROVE  IInv'
  BY <1>1, <1>6, SubscribeStep, UnsubscribeStep
<1>7. ASSUME NEW x \in Objects, Connect(x) \/ SubscribeThrows(x)
      PROVE  IInv'
  BY <1>1, <1>7, ConnectStep, ThrowsStep DEF SubscribeThrows
<1>8. CASE UNCHANGED vars
  <2>1. UNCHANGED <<context, object, options, connections, filters, answer,
                    refused, log>>
    BY <1>8 DEF vars
  <2>2. TypeOK'
    BY <1>1, <2>1 DEF IInv, TypeOK
  <2>3. Told'
    BY <1>1, <2>1, QuietTold DEF IInv, AnswersTold
  <2>4. QED
    BY <2>2, <2>3 DEF IInv, Told
<1>9. QED
  BY <1>1, <1>2, <1>3, <1>4, <1>5, <1>6, <1>7, <1>8 DEF Next

LEMMA InitIInv == Init => IInv
PROOF
<1>1. SUFFICES ASSUME Init PROVE IInv
  OBVIOUS
<1>2. /\ context = [ipv6 |-> FALSE, blocky |-> TRUE]
      /\ object = [x \in Objects |-> 0] /\ options = <<>>
      /\ connections = <<>> /\ filters = <<>> /\ answer = {} /\ log = <<>>
      /\ Len(<<>>) = 0 /\ \A k \in 1 .. 0 : FALSE
  BY <1>1 DEF Init
<1>3. TypeOK
  <2>1. object \in [Objects -> 0 .. Len(options)]
    BY <1>2
  <2>2. \A x, y \in Objects : x # y /\ object[x] # 0 => object[x] # object[y]
    BY <1>2
  <2>3. Len(options) <= MaxSockets /\ Len(log) <= MaxSettings + MaxSockets
    BY <1>2, OptionsAssumption DEF OptionsAssumption
  <2>4. context \in [ipv6 : BOOLEAN, blocky : BOOLEAN]
    BY <1>2
  <2>5. filters \in Seq([Topics -> Nat]) /\ options \in Seq([Options -> Int])
    BY <1>2, EmptySeq
  <2>6. QED
    BY <1>2, <2>1, <2>2, <2>3, <2>4, <2>5 DEF TypeOK
<1>4. Logged
  <2>1. log \in Seq({log[k] : k \in 1 .. Len(log)})
    BY <1>2, EmptySeq
  <2>2. Len(log) <= MaxSettings + Len(options)
    BY <1>2, OptionsAssumption DEF OptionsAssumption
  <2>3. QED
    BY <1>2, <2>1, <2>2 DEF Logged
<1>5. CreatedOnce /\ OptionsTold /\ AnswersTold
  BY <1>2 DEF CreatedOnce, OptionsTold, AnswersTold
<1>6. ConnectionsTold
  BY <1>2, EmptySeq DEF ConnectionsTold
<1>7. QED
  BY <1>3, <1>4, <1>5, <1>6 DEF IInv

(* Subscriptions.                                                          *)

\* As Entries and Net, of any log.
Hits(lg, i, option, s, f) ==
  lg[i].socket = s /\ lg[i].option = option /\ lg[i].value = f
HitsIn(lg, option, s, f, k) == {i \in k .. Len(lg) : Hits(lg, i, option, s, f)}
NetIn(lg, s, f, k) ==
  Cardinality(HitsIn(lg, "SUBSCRIBE", s, f, k))
    - Cardinality(HitsIn(lg, "UNSUBSCRIBE", s, f, k))

\* v is the most that s was subscribed to f since any entry of lg.
MostIn(lg, s, f, v) ==
  /\ \E k \in 1 .. Len(lg) + 1 : v = NetIn(lg, s, f, k)
  /\ \A k \in 1 .. Len(lg) + 1 : NetIn(lg, s, f, k) <= v

\* FiltersAsAsked, by MostIn.
FiltersMost ==
  \A s \in 1 .. Len(options) : \A f \in Topics :
    MostIn(log, s, f, filters[s][f])

LEMMA FiltersAre == FiltersMost => FiltersAsAsked
PROOF
<1>1. ASSUME NEW s, NEW f, NEW k PROVE Net(s, f, k) = NetIn(log, s, f, k)
  BY DEF Net, NetIn, Entries, HitsIn, Hits
<1>2. QED
  BY <1>1 DEF FiltersAsAsked, FiltersMost, MostIn

\* Log new is lg and one entry more.
Grown(lg, new) ==
  /\ Len(lg) \in Nat /\ Len(new) = Len(lg) + 1
  /\ \A k \in 1 .. Len(lg) : new[k] = lg[k]

LEMMA HitsGrow ==
  ASSUME NEW lg, NEW new, Grown(lg, new), NEW option, NEW s, NEW f,
         NEW k \in 1 .. Len(lg) + 1
  PROVE  /\ Cardinality(HitsIn(lg, option, s, f, k)) \in Nat
         /\ Cardinality(HitsIn(new, option, s, f, k))
              = Cardinality(HitsIn(lg, option, s, f, k))
                  + (IF Hits(new, Len(new), option, s, f) THEN 1 ELSE 0)
PROOF
<1> DEFINE n   == Len(lg)
           old == HitsIn(lg, option, s, f, k)
           all == HitsIn(new, option, s, f, k)
<1>1. /\ n \in Nat /\ Len(new) = n + 1 /\ \A i \in 1 .. n : new[i] = lg[i]
      /\ k \in Nat /\ 1 <= k /\ k <= n + 1
  BY DEF Grown
<1>2. IsFiniteSet(old) /\ n + 1 \notin old
  <2>1. IsFiniteSet(k .. n)
    BY <1>1, FS_Interval
  <2>2. old \subseteq k .. n
    BY DEF HitsIn
  <2>3. n + 1 \notin k .. n
    BY <1>1
  <2>4. QED
    BY <2>1, <2>2, <2>3, FS_Subset
<1>3. Cardinality(old) \in Nat
  BY <1>2, FS_CardinalityType
<1>4. all = IF Hits(new, n + 1, option, s, f) THEN old \cup {n + 1} ELSE old
  <2>1. k .. n + 1 = (k .. n) \cup {n + 1}
    BY <1>1
  <2>2. \A i \in k .. n : i \in 1 .. n
    BY <1>1
  <2>3. \A i \in k .. n :
          Hits(new, i, option, s, f) <=> Hits(lg, i, option, s, f)
    BY <1>1, <2>2 DEF Hits
  <2>4. all = {i \in k .. n + 1 : Hits(new, i, option, s, f)}
    BY <1>1 DEF HitsIn
  <2>5. old = {i \in k .. n : Hits(lg, i, option, s, f)}
    BY DEF HitsIn
  <2> HIDE DEF all, old, n
  <2>6. QED
    BY <2>1, <2>3, <2>4, <2>5
<1> HIDE DEF all, old, n
<1>5. Cardinality(all) = Cardinality(old)
                           + (IF Hits(new, n + 1, option, s, f) THEN 1 ELSE 0)
  <2>1. Cardinality(old \cup {n + 1}) = Cardinality(old) + 1
    BY <1>2, FS_AddElement
  <2>2. QED
    BY <1>3, <1>4, <2>1
<1>6. QED
  BY <1>1, <1>3, <1>5 DEF all, old

LEMMA NetGrows ==
  ASSUME NEW lg, NEW new, Grown(lg, new), NEW s, NEW f,
         NEW k \in 1 .. Len(lg) + 1
  PROVE  /\ NetIn(lg, s, f, k) \in Int
         /\ NetIn(new, s, f, k)
              = NetIn(lg, s, f, k)
                  + (IF Hits(new, Len(new), "SUBSCRIBE", s, f) THEN 1 ELSE 0)
                  - (IF Hits(new, Len(new), "UNSUBSCRIBE", s, f) THEN 1 ELSE 0)
BY HitsGrow DEF NetIn

\* From after the last entry on, nothing was subscribed to.
LEMMA NetAtEnd ==
  ASSUME NEW lg, Len(lg) \in Nat, NEW s, NEW f
  PROVE  NetIn(lg, s, f, Len(lg) + 1) = 0
PROOF
<1>1. ASSUME NEW option PROVE HitsIn(lg, option, s, f, Len(lg) + 1) = {}
  <2>1. Len(lg) + 1 .. Len(lg) = {}
    OBVIOUS
  <2>2. QED
    BY <2>1 DEF HitsIn
<1>2. QED
  BY <1>1, FS_EmptySet DEF NetIn

\* What an entry more makes of the most that s was subscribed to f.
LEMMA MostGrows ==
  ASSUME NEW lg, NEW new, Grown(lg, new), NEW s, NEW f, NEW v \in Nat,
         MostIn(lg, s, f, v)
  PROVE  /\ Hits(new, Len(new), "SUBSCRIBE", s, f)
              => MostIn(new, s, f, v + 1)
         /\ Hits(new, Len(new), "UNSUBSCRIBE", s, f)
              => MostIn(new, s, f, IF v = 0 THEN 0 ELSE v - 1)
         /\ /\ ~Hits(new, Len(new), "SUBSCRIBE", s, f)
            /\ ~Hits(new, Len(new), "UNSUBSCRIBE", s, f)
            => MostIn(new, s, f, v)
PROOF
<1> DEFINE n    == Len(lg)
           add  == (IF Hits(new, Len(new), "SUBSCRIBE", s, f) THEN 1 ELSE 0)
           drop == (IF Hits(new, Len(new), "UNSUBSCRIBE", s, f) THEN 1 ELSE 0)
<1>1. n \in Nat /\ Len(new) = n + 1 /\ Len(new) \in Nat
  BY DEF Grown
<1>2. PICK j \in 1 .. n + 1 : v = NetIn(lg, s, f, j)
  BY DEF MostIn
<1>3. \A k \in 1 .. n + 1 : /\ NetIn(lg, s, f, k) \in Int
                            /\ NetIn(lg, s, f, k) <= v
                            /\ NetIn(new, s, f, k)
                                 = NetIn(lg, s, f, k) + add - drop
  BY NetGrows DEF MostIn
<1>4. NetIn(new, s, f, n + 2) = 0
  BY <1>1, NetAtEnd
<1>5. ~(add = 1 /\ drop = 1)
  BY DEF Hits
<1>6. add \in {0, 1} /\ drop \in {0, 1}
  OBVIOUS
<1>7. Len(new) + 1 = n + 2
  BY <1>1
<1>8. /\ j \in 1 .. n + 2 /\ n + 2 \in 1 .. n + 2
      /\ \A k \in 1 .. n + 2 : k \in 1 .. n + 1 \/ k = n + 2
  BY <1>1
<1>9. /\ Hits(new, Len(new), "SUBSCRIBE", s, f) => add = 1
      /\ Hits(new, Len(new), "UNSUBSCRIBE", s, f) => drop = 1
      /\ ~Hits(new, Len(new), "SUBSCRIBE", s, f) => add = 0
      /\ ~Hits(new, Len(new), "UNSUBSCRIBE", s, f) => drop = 0
  OBVIOUS
<1> HIDE DEF add, drop, n
<1>10. CASE add = 1 /\ drop = 0
  <2>1. NetIn(new, s, f, j) = v + 1
    BY <1>2, <1>3, <1>10
  <2>2. \A k \in 1 .. n + 2 : NetIn(new, s, f, k) <= v + 1
    BY <1>3, <1>4, <1>8, <1>10
  <2>3. MostIn(new, s, f, v + 1)
    BY <1>7, <1>8, <2>1, <2>2 DEF MostIn
  <2>4. QED
    BY <1>9, <1>10, <2>3
<1>11. CASE add = 0 /\ drop = 1
  <2> DEFINE w == IF v = 0 THEN 0 ELSE v - 1
  <2>1. NetIn(new, s, f, j) = v - 1
    BY <1>2, <1>3, <1>11
  <2>2. w \in Nat /\ v - 1 <= w /\ (w = 0 \/ w = v - 1)
    OBVIOUS
  <2>3. \A k \in 1 .. n + 1 : NetIn(new, s, f, k) <= v - 1
    BY <1>3, <1>11
  <2>4. \A k \in 1 .. n + 1 : NetIn(new, s, f, k) \in Int
    BY <1>3, <1>11
  <2> HIDE DEF w
  <2>5. \A k \in 1 .. n + 2 : NetIn(new, s, f, k) <= w
    BY <1>4, <1>8, <2>2, <2>3, <2>4
  <2>6. MostIn(new, s, f, w)
    BY <1>4, <1>7, <1>8, <2>1, <2>2, <2>5 DEF MostIn
  <2>7. QED
    BY <1>9, <1>11, <2>6 DEF w
<1>12. CASE add = 0 /\ drop = 0
  <2>1. NetIn(new, s, f, j) = v
    BY <1>2, <1>3, <1>12
  <2>2. \A k \in 1 .. n + 2 : NetIn(new, s, f, k) <= v
    BY <1>3, <1>4, <1>8, <1>12
  <2>3. MostIn(new, s, f, v)
    BY <1>7, <1>8, <2>1, <2>2 DEF MostIn
  <2>4. QED
    BY <1>9, <1>12, <2>3
<1>13. QED
  BY <1>5, <1>6, <1>10, <1>11, <1>12

\* A log without an entry about s leaves it without a subscription.
LEMMA MostOfNone ==
  ASSUME NEW lg, Len(lg) \in Nat, NEW s, NEW f,
         \A i \in 1 .. Len(lg) :
           /\ ~Hits(lg, i, "SUBSCRIBE", s, f)
           /\ ~Hits(lg, i, "UNSUBSCRIBE", s, f)
  PROVE  MostIn(lg, s, f, 0)
PROOF
<1>1. ASSUME NEW k \in 1 .. Len(lg) + 1 PROVE NetIn(lg, s, f, k) = 0
  <2>1. \A i \in k .. Len(lg) : i \in 1 .. Len(lg)
    OBVIOUS
  <2>2. ASSUME NEW option \in {"SUBSCRIBE", "UNSUBSCRIBE"}
        PROVE  HitsIn(lg, option, s, f, k) = {}
    BY <2>1 DEF HitsIn
  <2>3. ASSUME NEW option \in {"SUBSCRIBE", "UNSUBSCRIBE"}
        PROVE  Cardinality(HitsIn(lg, option, s, f, k)) = 0
    BY <2>2, FS_EmptySet
  <2>4. QED
    BY <2>3 DEF NetIn
<1>2. Len(lg) + 1 \in 1 .. Len(lg) + 1
  OBVIOUS
<1>3. QED
  BY <1>1, <1>2 DEF MostIn

\* An entry that is no subscription leaves all subscriptions as asked.
LEMMA EntryFilters ==
  ASSUME IInv, FiltersMost, NEW e, log' = Append(log, e),
         e.option \notin {"SUBSCRIBE", "UNSUBSCRIBE"},
         NEW s \in 1 .. Len(options), NEW f \in Topics
  PROVE  MostIn(log', s, f, filters[s][f])
PROOF
<1>1. Grown(log, log') /\ log'[Len(log')] = e
  BY StateFacts, LogGrows DEF Grown
<1>2. MostIn(log, s, f, filters[s][f])
  BY DEF FiltersMost
<1>3. filters[s][f] \in Nat
  <2>1. filters \in Seq([Topics -> Nat]) /\ s \in 1 .. Len(filters)
    BY StateFacts
  <2>2. filters[s] \in [Topics -> Nat]
    BY <2>1, ElementOfSeq
  <2>3. QED
    BY <2>2
<1>4. /\ ~Hits(log', Len(log'), "SUBSCRIBE", s, f)
      /\ ~Hits(log', Len(log'), "UNSUBSCRIBE", s, f)
  BY <1>1 DEF Hits
<1>5. QED
  BY <1>1, <1>2, <1>3, <1>4, MostGrows

LEMMA CreateSocketFilters ==
  ASSUME IInv, FiltersMost, NEW x \in Objects, CreateSocket(x)
  PROVE  FiltersMost'
PROOF
<1> DEFINE m    == Len(options')
           none == [f \in Topics |-> 0]
           made == [o \in Options |-> Initially(o, context)]
           e    == [socket |-> m, option |-> "socket", value |-> context]
<1>1. /\ filters' = Append(filters, none) /\ log' = Append(log, e)
      /\ options' = Append(options, made)
  BY DEF CreateSocket
<1>2. made \in [Options -> Int] /\ none \in [Topics -> Nat]
  BY StateFacts, InitiallyType
<1>3. \A f \in Topics : none[f] = 0
  OBVIOUS
<1>4. e.socket = m /\ e.option = "socket"
  OBVIOUS
<1> HIDE DEF made, none, e
<1>5. Len(options') = Len(options) + 1 /\ Len(options) \in Nat
  BY <1>1, <1>2, StateFacts, AppendProperties
<1>6. /\ \A s \in 1 .. Len(options) : filters'[s] = filters[s]
      /\ filters'[Len(options) + 1] = none
  BY <1>1, <1>2, StateFacts, AppendProperties
<1> HIDE DEF m
<1>7. ASSUME NEW s \in 1 .. Len(options'), NEW f \in Topics
      PROVE  MostIn(log', s, f, filters'[s][f])
  <2>1. CASE s \in 1 .. Len(options)
    BY <1>1, <1>4, <1>6, <2>1, EntryFilters
  <2>2. CASE s = m
    <3>1. filters'[s][f] = 0
      BY <1>3, <1>5, <1>6, <2>2 DEF m
    <3>2. Grown(log, log') /\ log'[Len(log')] = e
      BY <1>1, StateFacts, LogGrows DEF Grown
    <3>3. Len(log) \in Nat /\ Len(log') = Len(log) + 1
          /\ \A i \in 1 .. Len(log) : log'[i] = log[i]
      BY <3>2 DEF Grown
    <3>4. ASSUME NEW i \in 1 .. Len(log')
          PROVE  /\ ~Hits(log', i, "SUBSCRIBE", s, f)
                 /\ ~Hits(log', i, "UNSUBSCRIBE", s, f)
      <4>1. CASE i \in 1 .. Len(log)
        <5>1. log[i].socket \in 1 .. Len(options)
          BY <4>1 DEF IInv, Logged
        <5>2. log'[i].socket # s
          BY <1>5, <2>2, <3>3, <4>1, <5>1 DEF m
        <5>3. QED
          BY <5>2 DEF Hits
      <4>2. CASE i = Len(log')
        BY <1>4, <3>2, <4>2 DEF Hits
      <4>3. QED
        BY <3>3, <4>1, <4>2
    <3>5. Len(log') \in Nat
      BY <3>3
    <3>6. QED
      BY <3>1, <3>4, <3>5, MostOfNone
  <2>3. QED
    BY <1>5, <2>1, <2>2 DEF m
<1>8. QED
  BY <1>7 DEF FiltersMost

LEMMA SetOptionFilters ==
  ASSUME IInv, FiltersMost, NEW x \in Objects, NEW o \in Options, NEW value,
         SetOption(x, o, value)
  PROVE  FiltersMost'
PROOF
<1> DEFINE e == [socket |-> object[x], option |-> o, value |-> value]
           v == Encode(o, value)
<1>1. /\ log' = Append(log, e) /\ filters' = filters
      /\ options' = [options EXCEPT ![object[x]][o] = v]
  BY DEF SetOption
<1>2. e.option \notin {"SUBSCRIBE", "UNSUBSCRIBE"}
  BY OptionNames
<1> HIDE DEF e, v
<1>3. Len(options') = Len(options)
  <2>1. DOMAIN options' = DOMAIN options
    BY <1>1
  <2>2. QED
    BY <2>1, StateFacts, LenProperties
<1>4. \A s \in 1 .. Len(options') : \A f \in Topics :
        MostIn(log', s, f, filters'[s][f])
  BY <1>1, <1>2, <1>3, EntryFilters
<1>5. QED
  BY <1>4 DEF FiltersMost

\* Subscribe and Unsubscribe.
LEMMA SubscriptionFilters ==
  ASSUME IInv, FiltersMost, NEW x \in Objects, NEW f \in Topics,
         NEW count \in Nat, NEW option \in {"SUBSCRIBE", "UNSUBSCRIBE"},
         Subscribable(x),
         option = "SUBSCRIBE" => count = filters[object[x]][f] + 1,
         option = "UNSUBSCRIBE"
           => count = IF filters[object[x]][f] = 0 THEN 0
                      ELSE filters[object[x]][f] - 1,
         filters' = [filters EXCEPT ![object[x]][f] = count],
         log' = Append(log, [socket |-> object[x], option |-> option,
                             value |-> f]),
         UNCHANGED options
  PROVE  FiltersMost'
PROOF
<1> DEFINE s == object[x]
           e == [socket |-> s, option |-> option, value |-> f]
<1>1. /\ log' = Append(log, e) /\ SetIn(filters, s, f, count, filters')
      /\ s # 0
  BY DEF SetIn, Subscribable
<1>2. e.socket = s /\ e.option = option /\ e.value = f
  OBVIOUS
<1>3. s \in 1 .. Len(filters) /\ filters[s][f] \in Nat
  BY <1>1, FilterType
<1>4. /\ option = "SUBSCRIBE" => count = filters[s][f] + 1
      /\ option = "UNSUBSCRIBE" => count = IF filters[s][f] = 0 THEN 0
                                           ELSE filters[s][f] - 1
  OBVIOUS
<1> HIDE DEF s, e
<1>5. OnlySet(Topics, filters, s, f, count, filters')
  <2>1. IsFilters(filters)
    BY StateFacts DEF IsFilters
  <2>2. QED
    BY <1>1, <1>3, <2>1, FilterField
<1>6. Grown(log, log') /\ log'[Len(log')] = e
  BY <1>1, StateFacts, LogGrows DEF Grown
<1>7. ASSUME NEW r \in 1 .. Len(options), NEW g \in Topics
      PROVE  MostIn(log', r, g, filters'[r][g])
  <2>1. MostIn(log, r, g, filters[r][g])
    BY DEF FiltersMost
  <2>2. r \in 1 .. Len(filters) /\ filters[r][g] \in Nat
    <3>1. filters \in Seq([Topics -> Nat]) /\ r \in 1 .. Len(filters)
      BY StateFacts
    <3>2. filters[r] \in [Topics -> Nat]
      BY <3>1, ElementOfSeq
    <3>3. QED
      BY <3>1, <3>2
  <2>3. CASE r = s /\ g = f
    <3>1. filters'[r][g] = count
      BY <1>5, <2>3 DEF OnlySet
    <3>2. CASE option = "SUBSCRIBE"
      <4>1. Hits(log', Len(log'), "SUBSCRIBE", r, g)
        BY <1>2, <1>6, <2>3, <3>2 DEF Hits
      <4>2. MostIn(log', r, g, filters[r][g] + 1)
        BY <1>6, <2>1, <2>2, <4>1, MostGrows
      <4>3. QED
        BY <1>4, <2>3, <3>1, <3>2, <4>2
    <3>3. CASE option = "UNSUBSCRIBE"
      <4>1. Hits(log', Len(log'), "UNSUBSCRIBE", r, g)
        BY <1>2, <1>6, <2>3, <3>3 DEF Hits
      <4>2. MostIn(log', r, g, IF filters[r][g] = 0 THEN 0
                               ELSE filters[r][g] - 1)
        BY <1>6, <2>1, <2>2, <4>1, MostGrows
      <4>3. QED
        BY <1>4, <2>3, <3>1, <3>3, <4>2
    <3>4. QED
      BY <3>2, <3>3
  <2>4. CASE r # s \/ g # f
    <3>1. filters'[r][g] = filters[r][g]
      BY <1>5, <2>2, <2>4 DEF OnlySet
    <3>2. /\ ~Hits(log', Len(log'), "SUBSCRIBE", r, g)
          /\ ~Hits(log', Len(log'), "UNSUBSCRIBE", r, g)
      BY <1>2, <1>6, <2>4 DEF Hits
    <3>3. MostIn(log', r, g, filters[r][g])
      BY <1>6, <2>1, <2>2, <3>2, MostGrows
    <3>4. QED
      BY <3>1, <3>3
  <2>5. QED
    BY <2>3, <2>4
<1>8. QED
  BY <1>7 DEF FiltersMost

LEMMA SubscribeFilters ==
  ASSUME IInv, FiltersMost, NEW x \in Objects, NEW f \in Topics,
         Subscribe(x, f)
  PROVE  FiltersMost'
PROOF
<1> DEFINE count == filters[object[x]][f] + 1
<1>1. count \in Nat /\ Subscribable(x)
  BY FilterType DEF Subscribe, Subscribable
<1>2. filters' = [filters EXCEPT ![object[x]][f] = count]
  BY DEF Subscribe
<1>3. count = filters[object[x]][f] + 1
  OBVIOUS
<1> HIDE DEF count
<1>4. QED
  BY <1>1, <1>2, <1>3, SubscriptionFilters DEF Subscribe

LEMMA UnsubscribeFilters ==
  ASSUME IInv, FiltersMost, NEW x \in Objects, NEW f \in Topics,
         Unsubscribe(x, f)
  PROVE  FiltersMost'
PROOF
<1> DEFINE count == IF filters[object[x]][f] = 0 THEN 0
                    ELSE filters[object[x]][f] - 1
<1>1. count \in Nat /\ Subscribable(x)
  BY FilterType DEF Unsubscribe, Subscribable
<1>2. filters' = [filters EXCEPT ![object[x]][f] = count]
  BY DEF Unsubscribe
<1>3. count = IF filters[object[x]][f] = 0 THEN 0
              ELSE filters[object[x]][f] - 1
  OBVIOUS
<1> HIDE DEF count
<1>4. QED
  BY <1>1, <1>2, <1>3, SubscriptionFilters DEF Unsubscribe

LEMMA StepKeepsFilters == IInv /\ FiltersMost /\ [Next]_vars => FiltersMost'
PROOF
<1>1. SUFFICES ASSUME IInv, FiltersMost, [Next]_vars PROVE FiltersMost'
  OBVIOUS
<1>2. ASSUME UNCHANGED <<options, filters, log>>
      PROVE  FiltersMost'
  BY <1>1, <1>2 DEF FiltersMost
<1>3. ASSUME NEW call, Throws(call)
      PROVE  FiltersMost'
  BY <1>2, <1>3 DEF Throws
<1>4. ASSUME NEW setting \in Settings, NEW value \in BOOLEAN,
             SetContextSetting(setting, value)
      PROVE  FiltersMost'
  BY <1>2, <1>4 DEF SetContextSetting
<1>5. ASSUME NEW x \in Objects, CreateSocket(x)
      PROVE  FiltersMost'
  BY <1>1, <1>5, CreateSocketFilters
<1>6. ASSUME NEW x \in Objects, NEW y \in Objects \ {x}, MoveAssign(x, y)
      PROVE  FiltersMost'
  BY <1>2, <1>6 DEF MoveAssign
<1>7. ASSUME NEW x \in Objects, NEW o \in Options,
             GetOption(x, o) \/ GetOptionThrows(x, o)
      PROVE  FiltersMost'
  BY <1>2, <1>3, <1>7 DEF GetOption, GetOptionThrows
<1>8. ASSUME NEW x \in Objects, NEW o \in Options, NEW value \in Inputs[o],
             SetOption(x, o, value) \/ SetOptionThrows(x, o, value)
      PROVE  FiltersMost'
  BY <1>1, <1>3, <1>8, SetOptionFilters DEF SetOptionThrows
<1>9. ASSUME NEW x \in Objects, NEW f \in Topics,
             Subscribe(x, f) \/ Unsubscribe(x, f)
      PROVE  FiltersMost'
  BY <1>1, <1>9, SubscribeFilters, UnsubscribeFilters
<1>10. ASSUME NEW x \in Objects, SubscribeThrows(x) \/ Connect(x)
       PROVE  FiltersMost'
  BY <1>2, <1>3, <1>10 DEF SubscribeThrows, Connect
<1>11. CASE UNCHANGED vars
  BY <1>2, <1>11 DEF vars
<1>12. QED
  BY <1>1, <1>4, <1>5, <1>6, <1>7, <1>8, <1>9, <1>10, <1>11 DEF Next

LEMMA Invariance == Spec => []IInv
BY InitIInv, StepKeepsIInv, PTL DEF Spec
----------------------------------------------------------------------------
(* The theorems.                                                           *)

\* Types of what the sockets, connections and objects hold, each option within
\* what libzmq accepts, and no two Socket objects with one socket, for any
\* objects, options and inputs (Socket.hpp:149-162).
THEOREM TypeCorrect == Spec => []TypeOK
PROOF
<1>1. IInv => TypeOK
  BY DEF IInv
<1>2. QED
  BY <1>1, Invariance, PTL

\* A getter that returns gives what the latest setter that returned was given
\* for the same socket, or what the Context had when it was created, through
\* any moves and refused settings (Socket.hpp:291-328).
THEOREM AnswersFollowSetters == Spec => []AnswersAsAsked
PROOF
<1>1. IInv => AnswersAsAsked
  BY StateFacts, TellsAsked DEF IInv, AnswersTold, AnswersAsAsked
<1>2. QED
  BY <1>1, Invariance, PTL

\* A connection works with what was set before connect() or bind() returned,
\* and nothing set later reaches it (Socket.hpp:171-193).
THEOREM ConnectionsFollowSetters == Spec => []ConnectionsAsAsked
PROOF
<1>1. ASSUME IInv, NEW c \in 1 .. Len(connections), NEW o \in Options
      PROVE  connections[c].options[o]
               = Asked(connections[c].socket, o, connections[c].settings)
  <2>1. Tells(log, connections[c].socket, o, connections[c].settings,
              connections[c].options[o])
    BY <1>1 DEF IInv, ConnectionsTold
  <2>2. Len(log) \in Nat /\ CreatedOnce
    BY <1>1, StateFacts DEF IInv
  <2>3. connections[c].settings \in Nat
        /\ connections[c].settings <= Len(log)
    BY <1>1, ConnectionFacts
  <2>4. QED
    BY <2>1, <2>2, <2>3, TellsAsked
<1>2. IInv => ConnectionsAsAsked
  BY <1>1 DEF ConnectionsAsAsked
<1>3. QED
  BY <1>2, Invariance, PTL

\* A socket is subscribed to a prefix as often as it was subscribed to it more
\* than unsubscribed since, through any moves of the Socket objects
\* (SubscribingSocket.hpp:66-97).
THEOREM FiltersFollowSubscriptions == Spec => []FiltersAsAsked
PROOF
<1>1. Init => FiltersMost
  <2>1. Len(<<>>) = 0 /\ \A k \in 1 .. 0 : FALSE
    OBVIOUS
  <2>2. QED
    BY <2>1 DEF Init, FiltersMost
<1>2. QED
  BY <1>1, StepKeepsFilters, FiltersAre, Invariance, PTL DEF Spec
=============================================================================
