----------------------------- MODULE LogProofs ------------------------------
(***************************************************************************)
(* Theorems about the reconfiguration of the loggers, for every set of     *)
(* documents, names, users and dumpers and any number of loads, one at a   *)
(* time.  (Two loads at once tell the listeners and store in different     *)
(* orders.)                                                                *)
(***************************************************************************)
EXTENDS Log, TLAPS, FiniteSetTheorems, SequenceTheorems, WellFoundedInduction

OneLoader == \E l : Loaders = {l}

-----------------------------------------------------------------------------
(* The inductive invariant *)

\* The logger of a define whose first k - 1 appenders have been added.
Formatted(o, d) == d.formatter # <<>> /\ d.formatter \notin Rejected => o.formatter = d.formatter
Equipped(o, d, k) ==
    LET before == Len(o.appenders) - (k - 1)
    IN  /\ before >= 0
        /\ \A x \in 1..(k - 1) :
             /\ o.appenders[before + x].type = d.appenders[x].type
             /\ o.appenders[before + x].file = d.appenders[x].file
             /\ o.appenders[before + x].formatter = o.formatter
Applied(o, d) ==
    o.level = d.level /\ Formatted(o, d) /\ Equipped(o, d, Len(d.appenders) + 1)

\* The place of setValue relative to the listener.
Before(l) ==
    \/ cpc[l] \in {"out", "found"}
    \/ cpc[l] = "calling" /\ Initer \in left[l] /\ lis[l].at = "out"
Listening(l) == lis[l].at # "out"
After(l) == cpc[l] = "storing" \/ (cpc[l] = "calling" /\ Initer \notin left[l])

\* The names whose loggers are as the new value says, and those that are still
\* as the stored value says.
Renewed(l) == IF Before(l) THEN {}
              ELSE DOMAIN new_val[l] \ lis[l].new
Pending(l) == IF Before(l) THEN DOMAIN m_val
              ELSE (lis[l].new \cap DOMAIN m_val) \cup lis[l].old

\* The logger of n is one a define made, or changed.
Defined(n) == n \in DOMAIN m_loggers /\ m_loggers[n] # Root

\* The logger of n was fetched only, is the root logger, or is silent.
Unused(n) ==
    LET o == logger[m_loggers[n]]
    IN  o.root \/ m_loggers[n] = Root \/ (o.level = Off /\ o.appenders = <<>>)

NamesFit(l) ==
    /\ \A n \in Renewed(l) : Defined(n) /\ Applied(logger[m_loggers[n]], new_val[l][n])
    /\ \A n \in Pending(l) :
         /\ Defined(n)
         /\ logger[m_loggers[n]].appenders = <<>> => m_val[n].appenders = <<>>
         /\ Before(l) => Applied(logger[m_loggers[n]], m_val[n])
    /\ \A n \in DOMAIN m_loggers \ (Renewed(l) \cup Pending(l)) : Unused(n)

\* The logger the listener has built for a new define and not added yet.
Unpublished(l, o) ==
    /\ lis[l].at \in {"formatter", "appenders"} /\ lis[l].obj = o
    /\ lis[l].name \notin DOMAIN m_val

\* The locals of the listener.
ListenerFits(l) ==
    LET w == new_val[l]
        at == lis[l].at
        n == lis[l].name
        o == lis[l].obj
    IN  /\ Listening(l) => cpc[l] = "calling" /\ Initer \in left[l]
        /\ ~Listening(l) => lis[l].new = {} /\ lis[l].old = {}
        /\ lis[l].new \subseteq DOMAIN w
        /\ lis[l].old \subseteq DOMAIN m_val \ DOMAIN w
        /\ at \in {"formatter", "appenders"} =>
             /\ n \in lis[l].new /\ o \in DOMAIN logger /\ o # Root
             /\ logger[o].name = n /\ logger[o].level = w[n].level
             /\ lis[l].k \in 1..(Len(w[n].appenders) + 1)
             /\ at = "formatter" => lis[l].k = 1
             /\ at = "appenders" => Formatted(logger[o], w[n]) /\ Equipped(logger[o], w[n], lis[l].k)
             /\ n \in DOMAIN m_val => m_loggers[n] = o
             /\ n \notin DOMAIN m_val =>
                  /\ \A m \in DOMAIN m_loggers : m_loggers[m] # o
                  /\ \A u \in Users : held[u] # o
        /\ at = "clear" =>
             /\ n \in lis[l].old /\ o = m_loggers[n] /\ logger[o].level = Off
             /\ lis[l].new = {}

\* A logger is registered under its name.  One that has nowhere to write is
\* silent, is the one registered, or is known to the listener only.
LoggersFit(l) ==
    /\ \A n \in DOMAIN m_loggers : logger[m_loggers[n]].name = n
    /\ logger[Root].appenders # <<>>
    /\ \A o \in DOMAIN logger :
         logger[o].appenders = <<>> /\ ~logger[o].root =>
             \/ logger[o].level = Off
             \/ logger[o].name \in DOMAIN m_loggers /\ m_loggers[logger[o].name] = o
             \/ Unpublished(l, o)
    /\ \A u \in Users : upc[u] # "out" => held[u] # 0

\* Who has been told which value.
Told(l) ==
    /\ Initer \in m_cbs
    /\ \A k \in m_cbs \ late :
         /\ cpc[l] \in {"out", "found"} => told[k] = m_val
         /\ cpc[l] = "calling" => k \in left[l] \/ told[k] = new_val[l]
         /\ cpc[l] = "storing" => told[k] = new_val[l]

InvOf(l) == NamesFit(l) /\ ListenerFits(l) /\ LoggersFit(l) /\ Told(l)
Inv == TypeOK /\ \A l \in Loaders : InvOf(l)

-----------------------------------------------------------------------------
(* Types *)

AllNames == Names \cup {RootName}

LEMMA MinOfNames ==
    ASSUME NEW S, S \subseteq AllNames, S # {} PROVE Min(S) \in S
<1>1. S \subseteq Nat
  BY LogAssumption DEF AllNames, RootName
<1>2. PICK x \in S : \A y \in S : ~ (<<y, x>> \in OpToRel(<, Nat))
  BY <1>1, NatLessThanWellFounded, WFMin
<1>3. \A y \in S : ~(y < x)
  BY <1>1, <1>2 DEF OpToRel
<1>4. \A y \in S : x <= y
  BY <1>1, <1>3
<1>. QED
  BY <1>4 DEF Min

\* What a value holds.
LEMMA ValueFacts ==
    ASSUME NEW v \in Values
    PROVE  /\ DOMAIN v \subseteq AllNames
           /\ \A n \in DOMAIN v : v[n] \in Define_T
  BY LogAssumption DEF AllNames, RootName

LEMMA FromStrFacts == /\ DefaultVal \in Values
                      /\ \A t \in DOMAIN FromStr : FromStr[t] \in Values
  BY DEF Values

LEMMA NewLoggerFacts ==
    ASSUME NEW n \in AllNames, NEW b \in BOOLEAN
    PROVE  NewLogger(n, b) \in Logger_T
<1>1. <<>> \in Seq(Appender_T) /\ Level.DEBUG \in Nat
  BY DEF Level
<1>. QED
  BY <1>1, LogAssumption DEF NewLogger, Logger_T, AllNames

LEMMA RootFacts == RootLogger \in Logger_T /\ RootLogger.appenders # <<>> /\ RootLogger.name = RootName
<1>. DEFINE a == [type |-> 2, level |-> Level.DEBUG, file |-> NoFile, formatter |-> DefaultPattern]
<1>1. a \in Appender_T
  <2>1. Level.DEBUG = 1
    BY DEF Level
  <2>2. DefaultPattern \in Text_T /\ NoFile \in File_T
    BY LogAssumption
  <2>. QED
    BY <2>1, <2>2 DEF Appender_T
<1>2. \A b \in Appender_T : <<b>> \in Seq(Appender_T) /\ <<b>> # <<>>
  OBVIOUS
<1>3. NewLogger(RootName, FALSE) \in Logger_T
  BY NewLoggerFacts DEF AllNames
<1>4. RootLogger = [NewLogger(RootName, FALSE) EXCEPT !.appenders = <<a>>]
  BY DEF RootLogger
<1>. HIDE DEF a
<1>5. \A r \in Logger_T, q \in Seq(Appender_T) :
         LET s == [r EXCEPT !.appenders = q] IN s \in Logger_T /\ s.appenders = q /\ s.name = r.name
  BY DEF Logger_T
<1>6. NewLogger(RootName, FALSE).name = RootName
  BY DEF NewLogger
<1>. QED
  BY <1>1, <1>2, <1>3, <1>4, <1>5, <1>6

\* The last alternative of getLogger.
LEMMA GotFacts ==
    ASSUME TypeOK, NEW n \in AllNames
    PROVE  /\ Got(n) \in Seq(Logger_T)
           /\ DOMAIN logger \subseteq DOMAIN Got(n)
           /\ \A o \in DOMAIN logger : Got(n)[o] = logger[o]
           /\ Found(n) \in DOMAIN Got(n)
           /\ \A o \in DOMAIN Got(n) \ DOMAIN logger : Got(n)[o] = NewLogger(n, TRUE) /\ o = Found(n)
           /\ n \in DOMAIN m_loggers => Got(n) = logger /\ Found(n) = m_loggers[n]
           /\ n \notin DOMAIN m_loggers => Found(n) \in DOMAIN Got(n) \ DOMAIN logger
           /\ DOMAIN Registered(n) = DOMAIN m_loggers \cup {n}
           /\ Registered(n) \in [DOMAIN Registered(n) -> DOMAIN Got(n)]
           /\ \A m \in DOMAIN m_loggers : Registered(n)[m] = m_loggers[m]
           /\ Registered(n)[n] = Found(n)
           /\ n \in DOMAIN m_loggers => Registered(n) = m_loggers
<1>1. logger \in Seq(Logger_T) /\ m_loggers \in [DOMAIN m_loggers -> DOMAIN logger]
  BY DEF TypeOK
<1>2. NewLogger(n, TRUE) \in Logger_T
  BY NewLoggerFacts
<1>. HIDE DEF NewLogger
<1>3. Registered(n) = [m \in DOMAIN m_loggers \cup {n} |-> IF m = n THEN Found(n) ELSE m_loggers[m]]
  BY DEF Registered, Assigned
<1>4. CASE n \in DOMAIN m_loggers
  <2>1. Got(n) = logger /\ Found(n) = m_loggers[n]
    BY <1>4 DEF Got, Found
  <2>. QED
    BY <1>1, <1>3, <1>4, <2>1
<1>5. CASE n \notin DOMAIN m_loggers
  <2>1. Got(n) = Append(logger, NewLogger(n, TRUE)) /\ Found(n) = Len(logger) + 1
    BY <1>5 DEF Got, Found
  <2>2. /\ Got(n) \in Seq(Logger_T)
        /\ DOMAIN logger = 1..Len(logger) /\ DOMAIN Got(n) = 1..(Len(logger) + 1)
        /\ \A o \in 1..Len(logger) : Got(n)[o] = logger[o]
        /\ Got(n)[Len(logger) + 1] = NewLogger(n, TRUE)
        /\ Len(logger) \in Nat
    <3>1. PICK r \in Logger_T : r = NewLogger(n, TRUE)
      BY <1>2
    <3>2. /\ DOMAIN logger = 1..Len(logger) /\ Len(logger) \in Nat
          /\ Append(logger, r) \in Seq(Logger_T)
          /\ Len(Append(logger, r)) = Len(logger) + 1
          /\ \A o \in 1..Len(logger) : Append(logger, r)[o] = logger[o]
          /\ Append(logger, r)[Len(logger) + 1] = r
      BY <1>1, AppendProperties
    <3>3. DOMAIN Append(logger, r) = 1..Len(Append(logger, r))
      BY <3>2
    <3>. QED
      BY <2>1, <3>1, <3>2, <3>3
  <2>3. /\ DOMAIN logger \subseteq DOMAIN Got(n)
        /\ Found(n) \in DOMAIN Got(n) \ DOMAIN logger
        /\ \A o \in DOMAIN Got(n) \ DOMAIN logger : o = Found(n)
    BY <2>1, <2>2
  <2>. QED
    BY <1>1, <1>3, <1>5, <2>1, <2>2, <2>3
<1>. QED
  BY <1>4, <1>5

Pre(l) == Loaders = {l} /\ TypeOK /\ InvOf(l)

LEMMA LoggerAssigned ==
    ASSUME NEW s \in Seq(Logger_T), NEW o \in DOMAIN s, NEW r \in Logger_T
    PROVE  LET t == [s EXCEPT ![o] = r] IN
           /\ t \in Seq(Logger_T) /\ DOMAIN t = DOMAIN s /\ t[o] = r
           /\ \A p \in DOMAIN s \ {o} : t[p] = s[p]
  OBVIOUS

LEMMA ListenerGrows ==
    ASSUME NEW D, NEW E, D \subseteq E, NEW r \in Listener_T(D) PROVE r \in Listener_T(E)
  BY DEF Listener_T

LEMMA NoListenerFacts ==
    ASSUME NEW D
    PROVE  /\ NoListener \in Listener_T(D) /\ NoListener.at = "out"
           /\ NoListener.new = {} /\ NoListener.old = {}
  BY DEF Listener_T, AllNames, NoListener, RootName

\* The types in use.
LEMMA Typing ==
    ASSUME NEW l, Pre(l)
    PROVE  /\ l \in Loaders /\ lis[l] \in Listener_T(DOMAIN logger)
           /\ m_val \in Values /\ new_val[l] \in Values
           /\ DOMAIN m_val \subseteq AllNames /\ DOMAIN new_val[l] \subseteq AllNames
           /\ \A n \in DOMAIN m_val : m_val[n] \in Define_T
           /\ \A n \in DOMAIN new_val[l] : new_val[l][n] \in Define_T
           /\ logger \in Seq(Logger_T) /\ \A o \in DOMAIN logger : logger[o] \in Logger_T
           /\ lis[l].new \subseteq AllNames /\ lis[l].old \subseteq AllNames
           /\ lis[l].name \in AllNames /\ lis[l].k \in Nat
<1>1. /\ l \in Loaders /\ lis[l] \in Listener_T(DOMAIN logger)
      /\ m_val \in Values /\ new_val[l] \in Values
      /\ logger \in Seq(Logger_T)
  BY DEF Pre, TypeOK, ConfigTypeOK
<1>2. \A o \in DOMAIN logger : logger[o] \in Logger_T
  BY <1>1
<1>3. /\ lis[l].new \subseteq AllNames /\ lis[l].old \subseteq AllNames
      /\ lis[l].name \in AllNames /\ lis[l].k \in Nat
  BY <1>1 DEF Listener_T, AllNames
<1>. QED
  BY <1>1, <1>2, <1>3, ValueFacts

\* What it takes for the types to be kept by a step of the listener.
LEMMA TypeKept ==
    ASSUME TypeOK, UNCHANGED <<configVars, dumpVars, userVars>>,
           logger' \in Seq(Logger_T), DOMAIN logger \subseteq DOMAIN logger',
           m_loggers' \in [DOMAIN m_loggers' -> DOMAIN logger'],
           DOMAIN m_loggers \subseteq DOMAIN m_loggers', DOMAIN m_loggers' \subseteq AllNames,
           lis' \in [Loaders -> Listener_T(DOMAIN logger')],
           crash' \in BOOLEAN
    PROVE  TypeOK'
<1>1. ConfigTypeOK'
  BY DEF TypeOK, ConfigTypeOK, configVars
<1>2. held' \in [Users -> DOMAIN logger' \cup {0}]
  BY DEF TypeOK, userVars
<1>. QED
  BY <1>1, <1>2 DEF TypeOK, AllNames, dumpVars, userVars

-----------------------------------------------------------------------------
(* What the steps of the listener do *)

LEMMA EnterEffect ==
    ASSUME NEW l, Pre(l), EnterListener(l)
    PROVE  /\ TypeOK' /\ UNCHANGED <<configVars, userVars, logger, m_loggers>>
           /\ lis[l].at = "out" /\ cpc[l] = "calling" /\ Initer \in left[l]
           /\ lis'[l].at = "pick" /\ lis'[l].new = DOMAIN new_val[l]
           /\ lis'[l].old = DOMAIN m_val \ DOMAIN new_val[l]
<1>1. /\ UNCHANGED <<configVars, userVars, logger, m_loggers, dumpVars, crash>>
      /\ lis[l].at = "out" /\ cpc[l] = "calling" /\ Initer \in left[l]
  BY DEF EnterListener, InListener
<1>2. PICK N, O \in SUBSET AllNames : N = DOMAIN new_val[l] /\ O = DOMAIN m_val \ DOMAIN new_val[l]
  BY Typing
<1>3. PICK s \in Listener_T(DOMAIN logger) :
          /\ s = [NoListener EXCEPT !.at = "pick", !.new = N, !.old = O]
          /\ s.at = "pick" /\ s.new = N /\ s.old = O
  <2>1. PICK s : s = [NoListener EXCEPT !.at = "pick", !.new = N, !.old = O]
    OBVIOUS
  <2>2. s \in Listener_T(DOMAIN logger) /\ s.at = "pick" /\ s.new = N /\ s.old = O
    <3>1. s = [at |-> "pick", new |-> N, old |-> O, name |-> 0, obj |-> 0, k |-> 0]
      BY <2>1 DEF NoListener
    <3>. QED
      BY <3>1 DEF Listener_T, AllNames, RootName
  <2>. QED
    BY <2>1, <2>2
<1>4. lis' = [lis EXCEPT ![l] = s]
  BY <1>2, <1>3 DEF EnterListener
<1>5. lis \in [Loaders -> Listener_T(DOMAIN logger)] /\ l \in Loaders
  BY DEF Pre, TypeOK
<1>6. lis' \in [Loaders -> Listener_T(DOMAIN logger')] /\ lis'[l] = s
  BY <1>1, <1>4, <1>5
<1>7. TypeOK'
  BY <1>1, <1>6, TypeKept DEF Pre, TypeOK, AllNames
<1>. QED
  BY <1>1, <1>2, <1>3, <1>6, <1>7

\* A define with a new name: a logger is built, which nobody else knows.
LEMMA PickNewEffect ==
    ASSUME NEW l, Pre(l), PickDefine(l), NEW n, n = Min(lis[l].new), n \notin DOMAIN m_val
    PROVE  /\ TypeOK' /\ UNCHANGED <<configVars, userVars, m_loggers>>
           /\ lis[l].at = "pick" /\ n \in lis[l].new /\ n \in DOMAIN new_val[l]
           /\ \E o : /\ o \notin DOMAIN logger /\ DOMAIN logger' = DOMAIN logger \cup {o}
                     /\ \A p \in DOMAIN logger : logger'[p] = logger[p]
                     /\ logger'[o].name = n /\ logger'[o].level = new_val[l][n].level
                     /\ o # 0 /\ lis'[l].obj = o
           /\ lis'[l].at = "formatter" /\ lis'[l].name = n /\ lis'[l].k = 1
           /\ lis'[l].new = lis[l].new /\ lis'[l].old = lis[l].old
<1>1. /\ lis[l].at = "pick" /\ lis[l].new # {}
      /\ UNCHANGED <<configVars, userVars, dumpVars, m_loggers, crash>>
      /\ logger' = Append(logger, [NewLogger(n, FALSE) EXCEPT !.level = new_val[l][n].level])
      /\ lis' = [lis EXCEPT ![l].at = "formatter", ![l].name = n, ![l].obj = Len(logger) + 1,
                            ![l].k = 1]
  BY DEF PickDefine, NewIsUnlisted, InListener
<1>2. n \in lis[l].new /\ n \in DOMAIN new_val[l] /\ n \in AllNames
  <2>1. n \in lis[l].new
    BY <1>1, MinOfNames, Typing
  <2>. QED
    BY <2>1, Typing DEF Pre, InvOf, ListenerFits
<1>3. PICK q \in Logger_T : /\ q = [NewLogger(n, FALSE) EXCEPT !.level = new_val[l][n].level]
                            /\ q.name = n /\ q.level = new_val[l][n].level
  <2>1. new_val[l][n].level \in Nat
    BY <1>2, Typing DEF Define_T
  <2>2. NewLogger(n, FALSE) \in Logger_T
    BY <1>2, NewLoggerFacts
  <2>3. NewLogger(n, FALSE).name = n
    BY DEF NewLogger
  <2>4. PICK r, x : r = NewLogger(n, FALSE) /\ x = new_val[l][n].level
    OBVIOUS
  <2>5. PICK q : q = [r EXCEPT !.level = x]
    OBVIOUS
  <2>6. q \in Logger_T /\ q.name = n /\ q.level = x
    <3>1. r \in Logger_T /\ x \in Nat /\ r.name = n
      BY <2>1, <2>2, <2>3, <2>4
    <3>. QED
      BY <2>5, <3>1 DEF Logger_T
  <2>. QED
    BY <2>4, <2>5, <2>6
<1>4. PICK o : o = Len(logger) + 1
  OBVIOUS
<1>5. /\ logger' \in Seq(Logger_T) /\ DOMAIN logger' = DOMAIN logger \cup {o} /\ o \notin DOMAIN logger
      /\ \A p \in DOMAIN logger : logger'[p] = logger[p]
      /\ logger'[o] = q /\ o # 0
  <2>1. logger \in Seq(Logger_T) /\ logger' = Append(logger, q)
    BY <1>1, <1>3, Typing
  <2>2. /\ DOMAIN logger = 1..Len(logger) /\ Len(logger) \in Nat
        /\ logger' \in Seq(Logger_T) /\ Len(logger') = Len(logger) + 1
        /\ \A p \in 1..Len(logger) : logger'[p] = logger[p]
        /\ logger'[Len(logger) + 1] = q
    BY <2>1, AppendProperties
  <2>3. DOMAIN logger' = 1..(Len(logger) + 1)
    BY <2>2
  <2>4. 1..(Len(logger) + 1) = 1..Len(logger) \cup {Len(logger) + 1}
    BY <2>2
  <2>. QED
    BY <1>4, <2>2, <2>3, <2>4
<1>6. PICK s \in Listener_T(DOMAIN logger') :
          /\ s = [lis[l] EXCEPT !.at = "formatter", !.name = n, !.obj = o, !.k = 1]
          /\ s.at = "formatter" /\ s.name = n /\ s.obj = o /\ s.k = 1
          /\ s.new = lis[l].new /\ s.old = lis[l].old
  <2>1. lis[l] \in Listener_T(DOMAIN logger)
    BY Typing
  <2>2. PICK s : s = [lis[l] EXCEPT !.at = "formatter", !.name = n, !.obj = o, !.k = 1]
    OBVIOUS
  <2>3. n \in AllNames /\ o \in DOMAIN logger' /\ lis[l] \in Listener_T(DOMAIN logger')
    BY <1>2, <1>5, <2>1, ListenerGrows
  <2>4. /\ s \in Listener_T(DOMAIN logger')
        /\ s.at = "formatter" /\ s.name = n /\ s.obj = o /\ s.k = 1
        /\ s.new = lis[l].new /\ s.old = lis[l].old
    <3>1. PICK r \in Listener_T(DOMAIN logger') : r = lis[l]
      BY <2>3
    <3>. QED
      BY <2>2, <2>3, <3>1 DEF Listener_T, AllNames
  <2>. QED
    BY <2>2, <2>4
<1>7. lis' \in [Loaders -> Listener_T(DOMAIN logger')] /\ lis'[l] = s
  <2>1. lis' = [lis EXCEPT ![l] = s]
    BY <1>1, <1>4, <1>6
  <2>2. Loaders = {l} /\ lis \in [Loaders -> Listener_T(DOMAIN logger)]
    BY DEF Pre, TypeOK
  <2>. QED
    BY <2>1, <2>2
<1>8. TypeOK'
  <2>1. /\ m_loggers' \in [DOMAIN m_loggers' -> DOMAIN logger']
        /\ DOMAIN m_loggers' \subseteq AllNames /\ crash' \in BOOLEAN /\ TypeOK
    BY <1>1, <1>5 DEF Pre, TypeOK, AllNames
  <2>. QED
    BY <1>1, <1>5, <1>7, <2>1, TypeKept
<1>. QED
  <2>1. /\ logger'[o].name = n /\ logger'[o].level = new_val[l][n].level /\ o # 0 /\ lis'[l].obj = o
    BY <1>3, <1>5, <1>6, <1>7
  <2>2. /\ lis'[l].at = "formatter" /\ lis'[l].name = n /\ lis'[l].k = 1
        /\ lis'[l].new = lis[l].new /\ lis'[l].old = lis[l].old
    BY <1>6, <1>7
  <2>3. UNCHANGED <<configVars, userVars, m_loggers>> /\ lis[l].at = "pick"
    BY <1>1
  <2>4. \E x : /\ x \notin DOMAIN logger /\ DOMAIN logger' = DOMAIN logger \cup {x}
               /\ \A p \in DOMAIN logger : logger'[p] = logger[p]
               /\ logger'[x].name = n /\ logger'[x].level = new_val[l][n].level
               /\ x # 0 /\ lis'[l].obj = x
    BY <1>5, <2>1
  <2>. QED
    BY <1>2, <1>8, <2>2, <2>3, <2>4

\* A step of the listener changes fields of one logger, but not its name.
Touched(o) ==
    /\ o \in DOMAIN logger /\ DOMAIN logger' = DOMAIN logger
    /\ \A p \in DOMAIN logger \ {o} : logger'[p] = logger[p]
    /\ logger'[o].name = logger[o].name /\ logger'[o].root = logger[o].root

LEMMA ListenerWrites ==
    ASSUME NEW l, Pre(l), UNCHANGED <<configVars, dumpVars, userVars>>, UNCHANGED crash,
           logger' \in Seq(Logger_T), DOMAIN logger' = DOMAIN logger,
           m_loggers' \in [DOMAIN m_loggers' -> DOMAIN logger],
           DOMAIN m_loggers \subseteq DOMAIN m_loggers', DOMAIN m_loggers' \subseteq AllNames,
           NEW s \in Listener_T(DOMAIN logger), lis' = [lis EXCEPT ![l] = s]
    PROVE  TypeOK' /\ lis'[l] = s
<1>1. lis' \in [Loaders -> Listener_T(DOMAIN logger')] /\ lis'[l] = s
  BY DEF Pre, TypeOK
<1>2. TypeOK /\ crash' \in BOOLEAN
  BY DEF Pre, TypeOK
<1>. QED
  BY <1>1, <1>2, TypeKept

LEMMA MapTyped ==
    ASSUME NEW l, Pre(l)
    PROVE  /\ m_loggers \in [DOMAIN m_loggers -> DOMAIN logger] /\ DOMAIN m_loggers \subseteq AllNames
           /\ lis[l] \in Listener_T(DOMAIN logger)
  BY DEF Pre, TypeOK, AllNames

\* A define that has changed: the level of its logger is set.
LEMMA PickChangedEffect ==
    ASSUME NEW l, Pre(l), PickDefine(l), NEW n, n = Min(lis[l].new), n \in DOMAIN m_val,
           m_val[n] # new_val[l][n]
    PROVE  /\ TypeOK' /\ UNCHANGED <<configVars, userVars, m_loggers>>
           /\ lis[l].at = "pick" /\ n \in lis[l].new /\ n \in DOMAIN new_val[l]
           /\ n \in DOMAIN m_loggers
           /\ \E o : /\ o = m_loggers[n] /\ Touched(o)
                     /\ logger'[o].level = new_val[l][n].level
                     /\ logger'[o].formatter = logger[o].formatter
                     /\ logger'[o].appenders = logger[o].appenders
                     /\ lis'[l].obj = o
           /\ lis'[l].at = "formatter" /\ lis'[l].name = n /\ lis'[l].k = 1
           /\ lis'[l].new = lis[l].new /\ lis'[l].old = lis[l].old
<1>1. /\ lis[l].at = "pick" /\ lis[l].new # {}
      /\ UNCHANGED <<configVars, userVars, dumpVars, crash>>
      /\ logger' = [Got(n) EXCEPT ![Found(n)].level = new_val[l][n].level]
      /\ m_loggers' = Registered(n)
      /\ lis' = [lis EXCEPT ![l].at = "formatter", ![l].name = n, ![l].obj = Found(n),
                            ![l].k = 1]
  BY DEF PickDefine, NewIsUnlisted, InListener
<1>2. n \in lis[l].new /\ n \in DOMAIN new_val[l] /\ n \in AllNames
  <2>1. n \in lis[l].new
    BY <1>1, MinOfNames, Typing
  <2>. QED
    BY <2>1, Typing DEF Pre, InvOf, ListenerFits
<1>3. n \in DOMAIN m_loggers
  <2>1. n \in Pending(l)
    BY <1>1, <1>2 DEF Pending, Before, Pre, InvOf, ListenerFits, Listening
  <2>. QED
    BY <2>1 DEF Pre, InvOf, NamesFit, Defined
<1>4. PICK o \in DOMAIN logger : o = m_loggers[n]
  BY <1>3, MapTyped
<1>5. Got(n) = logger /\ Found(n) = o /\ Registered(n) = m_loggers
  BY <1>2, <1>3, <1>4, GotFacts DEF Pre
<1>6. PICK x \in Nat : x = new_val[l][n].level
  BY <1>2, Typing DEF Define_T
<1>7. PICK q \in Logger_T : /\ q = [logger[o] EXCEPT !.level = x]
                            /\ q.name = logger[o].name /\ q.level = x /\ q.root = logger[o].root
                            /\ q.formatter = logger[o].formatter /\ q.appenders = logger[o].appenders
  <2>1. PICK r \in Logger_T : r = logger[o]
    BY <1>4, Typing
  <2>2. PICK q : q = [r EXCEPT !.level = x]
    OBVIOUS
  <2>3. /\ q \in Logger_T /\ q.level = x /\ q.name = r.name /\ q.root = r.root
        /\ q.formatter = r.formatter /\ q.appenders = r.appenders
    BY <2>2 DEF Logger_T
  <2>. QED
    BY <2>1, <2>2, <2>3
<1>8. logger' = [logger EXCEPT ![o] = q]
  BY <1>1, <1>5, <1>6, <1>7
<1>9. /\ logger' \in Seq(Logger_T) /\ DOMAIN logger' = DOMAIN logger /\ logger'[o] = q
      /\ \A p \in DOMAIN logger \ {o} : logger'[p] = logger[p]
  BY <1>4, <1>8, Typing, LoggerAssigned
<1>10. PICK s \in Listener_T(DOMAIN logger) :
          /\ s = [lis[l] EXCEPT !.at = "formatter", !.name = n, !.obj = o, !.k = 1]
          /\ s.at = "formatter" /\ s.name = n /\ s.obj = o /\ s.k = 1
          /\ s.new = lis[l].new /\ s.old = lis[l].old
  <2>1. PICK D : D = DOMAIN logger
    OBVIOUS
  <2>2. PICK r \in Listener_T(D) : r = lis[l]
    BY <2>1, MapTyped
  <2>3. PICK s : s = [r EXCEPT !.at = "formatter", !.name = n, !.obj = o, !.k = 1]
    OBVIOUS
  <2>4. /\ s \in Listener_T(D) /\ s.at = "formatter" /\ s.name = n /\ s.obj = o /\ s.k = 1
        /\ s.new = r.new /\ s.old = r.old
    BY <1>2, <1>4, <2>1, <2>2, <2>3 DEF Listener_T, AllNames
  <2>. QED
    BY <2>1, <2>2, <2>3, <2>4
<1>11. lis' = [lis EXCEPT ![l] = s]
  BY <1>1, <1>5, <1>10
<1>12. TypeOK' /\ lis'[l] = s
  <2>1. /\ m_loggers' = m_loggers /\ UNCHANGED <<configVars, dumpVars, userVars>>
        /\ UNCHANGED crash
    BY <1>1, <1>5
  <2>. QED
    BY <1>9, <1>11, <2>1, MapTyped, ListenerWrites
<1>13. Touched(o)
  BY <1>4, <1>7, <1>9 DEF Touched
<1>14. /\ logger'[o].level = new_val[l][n].level /\ logger'[o].formatter = logger[o].formatter
       /\ logger'[o].appenders = logger[o].appenders /\ lis'[l].obj = o
  BY <1>6, <1>7, <1>9, <1>10, <1>12
<1>15. m_loggers' = m_loggers
  BY <1>1, <1>5
<1>. QED
  BY <1>1, <1>2, <1>3, <1>4, <1>10, <1>12, <1>13, <1>14, <1>15

\* setFormatter keeps the formatter when the pattern is empty or in error.
LEMMA SetFormatterEffect ==
    ASSUME NEW l, Pre(l), SetFormatter(l)
    PROVE  /\ TypeOK' /\ UNCHANGED <<configVars, userVars, m_loggers>>
           /\ lis[l].at = "formatter"
           /\ \E o : /\ o = lis[l].obj /\ Touched(o)
                     /\ logger'[o].level = logger[o].level
                     /\ logger'[o].appenders = logger[o].appenders
                     /\ Formatted(logger'[o], new_val[l][lis[l].name])
           /\ lis'[l].at = "appenders" /\ lis'[l].name = lis[l].name /\ lis'[l].obj = lis[l].obj
           /\ lis'[l].k = lis[l].k /\ lis'[l].new = lis[l].new /\ lis'[l].old = lis[l].old
<1>1. PICK p : p = new_val[l][lis[l].name].formatter
  OBVIOUS
<1>2. /\ lis[l].at = "formatter"
      /\ UNCHANGED <<configVars, userVars, dumpVars, m_loggers, crash>>
      /\ \/ (p = <<>> \/ p \in Rejected) /\ logger' = logger
         \/ ~(p = <<>> \/ p \in Rejected) /\ logger' = [logger EXCEPT ![lis[l].obj].formatter = p]
      /\ lis' = [lis EXCEPT ![l].at = "appenders"]
  BY <1>1 DEF SetFormatter, InListener
<1>3. PICK o \in DOMAIN logger : o = lis[l].obj
  BY <1>2 DEF Pre, InvOf, ListenerFits
<1>4. p \in Text_T
  <2>1. lis[l].name \in DOMAIN new_val[l]
    BY <1>2 DEF Pre, InvOf, ListenerFits
  <2>. QED
    BY <1>1, <2>1, Typing DEF Define_T
<1>5. PICK q \in Logger_T : /\ q = [logger[o] EXCEPT !.formatter = p] /\ q.formatter = p
                            /\ q.name = logger[o].name /\ q.level = logger[o].level
                            /\ q.appenders = logger[o].appenders /\ q.root = logger[o].root
  <2>1. PICK r \in Logger_T : r = logger[o]
    BY <1>3, Typing
  <2>2. PICK q : q = [r EXCEPT !.formatter = p]
    OBVIOUS
  <2>3. /\ q \in Logger_T /\ q.formatter = p
        /\ q.name = r.name /\ q.level = r.level
        /\ q.appenders = r.appenders /\ q.root = r.root
    BY <1>4, <2>2 DEF Logger_T
  <2>. QED
    BY <2>1, <2>2, <2>3
<1>6. /\ logger' \in Seq(Logger_T) /\ Touched(o)
      /\ logger'[o].level = logger[o].level /\ logger'[o].appenders = logger[o].appenders
      /\ p = <<>> \/ p \in Rejected \/ logger'[o].formatter = p
  <2>1. CASE logger' = logger /\ (p = <<>> \/ p \in Rejected)
    BY <1>3, <2>1, Typing DEF Touched
  <2>2. CASE logger' = [logger EXCEPT ![lis[l].obj].formatter = p]
    <3>1. logger' = [logger EXCEPT ![o] = q]
      BY <1>3, <1>5, <2>2
    <3>2. /\ logger' \in Seq(Logger_T) /\ DOMAIN logger' = DOMAIN logger /\ logger'[o] = q
          /\ \A x \in DOMAIN logger \ {o} : logger'[x] = logger[x]
      BY <1>3, <3>1, Typing, LoggerAssigned
    <3>. QED
      BY <1>3, <1>5, <3>2 DEF Touched
  <2>. QED
    BY <1>2, <2>1, <2>2
<1>7. PICK s \in Listener_T(DOMAIN logger) :
          /\ s = [lis[l] EXCEPT !.at = "appenders"]
          /\ s.at = "appenders" /\ s.name = lis[l].name /\ s.obj = lis[l].obj
          /\ s.k = lis[l].k /\ s.new = lis[l].new /\ s.old = lis[l].old
  <2>1. PICK D : D = DOMAIN logger
    OBVIOUS
  <2>2. PICK r \in Listener_T(D) : r = lis[l]
    BY <2>1, MapTyped
  <2>3. PICK s : s = [r EXCEPT !.at = "appenders"]
    OBVIOUS
  <2>4. /\ s \in Listener_T(D)
        /\ s.at = "appenders" /\ s.name = r.name /\ s.obj = r.obj
        /\ s.k = r.k /\ s.new = r.new /\ s.old = r.old
    BY <2>1, <2>2, <2>3 DEF Listener_T, AllNames
  <2>. QED
    BY <2>1, <2>2, <2>3, <2>4
<1>8. lis' = [lis EXCEPT ![l] = s]
  BY <1>2, <1>7
<1>9. TypeOK' /\ lis'[l] = s
  <2>1. /\ UNCHANGED <<configVars, dumpVars, userVars>> /\ UNCHANGED crash
        /\ m_loggers' = m_loggers /\ logger' \in Seq(Logger_T) /\ DOMAIN logger' = DOMAIN logger
    BY <1>2, <1>6 DEF Touched
  <2>. QED
    BY <1>8, <2>1, MapTyped, ListenerWrites
<1>10. Formatted(logger'[o], new_val[l][lis[l].name])
  BY <1>1, <1>6 DEF Formatted
<1>. QED
  BY <1>2, <1>3, <1>6, <1>7, <1>9, <1>10

\* addAppender.
AppenderAdded(l, o, a) ==
    /\ Touched(o) /\ a \in Appender_T
    /\ logger'[o].level = logger[o].level
    /\ logger'[o].formatter = logger[o].formatter
    /\ logger'[o].appenders = Append(logger[o].appenders, a)
    /\ a.type = new_val[l][lis[l].name].appenders[lis[l].k].type
    /\ a.file = new_val[l][lis[l].name].appenders[lis[l].k].file
    /\ a.formatter = logger[o].formatter

LEMMA AddAppenderEffect ==
    ASSUME NEW l, Pre(l), AddAppender(l)
    PROVE  /\ TypeOK' /\ UNCHANGED <<configVars, userVars, m_loggers>>
           /\ lis[l].at = "appenders"
           /\ lis[l].k <= Len(new_val[l][lis[l].name].appenders)
           /\ \E o, a : o = lis[l].obj /\ AppenderAdded(l, o, a)
           /\ lis'[l].at = lis[l].at /\ lis'[l].name = lis[l].name /\ lis'[l].obj = lis[l].obj
           /\ lis'[l].k = lis[l].k + 1 /\ lis'[l].new = lis[l].new /\ lis'[l].old = lis[l].old
<1>1. PICK d, c : d = new_val[l][lis[l].name] /\ c = d.appenders[lis[l].k]
  OBVIOUS
<1>2. /\ lis[l].at = "appenders" /\ lis[l].k <= Len(d.appenders)
      /\ UNCHANGED <<configVars, userVars, dumpVars, m_loggers, crash>>
      /\ logger' = [logger EXCEPT ![lis[l].obj].appenders =
                       Append(@, [c EXCEPT !.formatter = logger[lis[l].obj].formatter])]
      /\ lis' = [lis EXCEPT ![l].k = @ + 1]
  BY <1>1 DEF AddAppender, InListener
<1>3. PICK o \in DOMAIN logger : o = lis[l].obj
  BY <1>2 DEF Pre, InvOf, ListenerFits
<1>4. PICK x \in Seq(Appender_T), a \in Appender_T :
          /\ a = [c EXCEPT !.formatter = logger[o].formatter]
          /\ x = Append(logger[o].appenders, a)
          /\ a.type = c.type /\ a.file = c.file /\ a.formatter = logger[o].formatter
  <2>1. c \in Appender_T
    <3>1. lis[l].name \in DOMAIN new_val[l] /\ lis[l].k \in 1..(Len(d.appenders) + 1)
      BY <1>1, <1>2 DEF Pre, InvOf, ListenerFits
    <3>2. d.appenders \in Seq(Appender_T)
      BY <1>1, <3>1, Typing DEF Define_T
    <3>3. lis[l].k \in 1..Len(d.appenders)
      BY <1>2, <3>1, <3>2
    <3>. QED
      BY <1>1, <3>2, <3>3
  <2>2. logger[o].formatter \in Text_T /\ logger[o].appenders \in Seq(Appender_T)
    BY <1>3, Typing DEF Logger_T
  <2>3. PICK y \in Text_T : y = logger[o].formatter
    BY <2>2
  <2>4. PICK a : a = [c EXCEPT !.formatter = y]
    OBVIOUS
  <2>5. a \in Appender_T /\ a.type = c.type /\ a.file = c.file /\ a.formatter = y
    BY <2>1, <2>4 DEF Appender_T
  <2>6. Append(logger[o].appenders, a) \in Seq(Appender_T)
    BY <2>2, <2>5, AppendProperties
  <2>7. PICK x \in Seq(Appender_T) : x = Append(logger[o].appenders, a)
    BY <2>6
  <2>. QED
    BY <2>3, <2>4, <2>5, <2>7
<1>5. PICK q \in Logger_T : /\ q = [logger[o] EXCEPT !.appenders = x] /\ q.appenders = x
                            /\ q.name = logger[o].name /\ q.level = logger[o].level
                            /\ q.formatter = logger[o].formatter /\ q.root = logger[o].root
  <2>1. PICK r \in Logger_T : r = logger[o]
    BY <1>3, Typing
  <2>2. PICK q : q = [r EXCEPT !.appenders = x]
    OBVIOUS
  <2>3. /\ q \in Logger_T /\ q.appenders = x
        /\ q.name = r.name /\ q.level = r.level
        /\ q.formatter = r.formatter /\ q.root = r.root
    BY <2>2 DEF Logger_T
  <2>. QED
    BY <2>1, <2>2, <2>3
<1>6. /\ logger' \in Seq(Logger_T) /\ Touched(o) /\ logger'[o] = q
  <2>1. logger' = [logger EXCEPT ![o] = q]
    BY <1>2, <1>3, <1>4, <1>5
  <2>2. /\ logger' \in Seq(Logger_T) /\ DOMAIN logger' = DOMAIN logger /\ logger'[o] = q
        /\ \A p \in DOMAIN logger \ {o} : logger'[p] = logger[p]
    BY <1>3, <2>1, Typing, LoggerAssigned
  <2>. QED
    BY <1>3, <1>5, <2>2 DEF Touched
<1>7. PICK s \in Listener_T(DOMAIN logger) :
          /\ s = [lis[l] EXCEPT !.k = lis[l].k + 1]
          /\ s.at = lis[l].at /\ s.name = lis[l].name /\ s.obj = lis[l].obj
          /\ s.k = lis[l].k + 1 /\ s.new = lis[l].new /\ s.old = lis[l].old
  <2>1. PICK D : D = DOMAIN logger
    OBVIOUS
  <2>2. PICK r \in Listener_T(D) : r = lis[l]
    BY <2>1, MapTyped
  <2>3. PICK s : s = [r EXCEPT !.k = r.k + 1]
    OBVIOUS
  <2>4. /\ s \in Listener_T(D)
        /\ s.at = r.at /\ s.name = r.name /\ s.obj = r.obj
        /\ s.k = r.k + 1 /\ s.new = r.new /\ s.old = r.old
    BY <2>1, <2>2, <2>3 DEF Listener_T, AllNames
  <2>. QED
    BY <2>1, <2>2, <2>3, <2>4
<1>8. lis' = [lis EXCEPT ![l] = s]
  BY <1>2, <1>7
<1>9. TypeOK' /\ lis'[l] = s
  <2>1. /\ UNCHANGED <<configVars, dumpVars, userVars>> /\ UNCHANGED crash
        /\ m_loggers' = m_loggers /\ logger' \in Seq(Logger_T) /\ DOMAIN logger' = DOMAIN logger
    BY <1>2, <1>6 DEF Touched
  <2>. QED
    BY <1>8, <2>1, MapTyped, ListenerWrites
<1>10. /\ o = lis[l].obj /\ Touched(o) /\ a \in Appender_T
       /\ logger'[o].level = logger[o].level
       /\ logger'[o].formatter = logger[o].formatter
       /\ logger'[o].appenders = Append(logger[o].appenders, a)
       /\ a.formatter = logger[o].formatter
  BY <1>3, <1>4, <1>5, <1>6
<1>11. /\ a.type = new_val[l][lis[l].name].appenders[lis[l].k].type
       /\ a.file = new_val[l][lis[l].name].appenders[lis[l].k].file
  BY <1>1, <1>4
<1>12. /\ lis'[l].at = lis[l].at /\ lis'[l].name = lis[l].name /\ lis'[l].obj = lis[l].obj
       /\ lis'[l].k = lis[l].k + 1 /\ lis'[l].new = lis[l].new /\ lis'[l].old = lis[l].old
  BY <1>7, <1>9
<1>13. lis[l].k <= Len(new_val[l][lis[l].name].appenders)
  BY <1>1, <1>2
<1>14. o = lis[l].obj /\ AppenderAdded(l, o, a)
  BY <1>10, <1>11 DEF AppenderAdded
<1>. QED
  BY <1>2, <1>9, <1>12, <1>13, <1>14

\* addLogger.
LEMMA PublishEffect ==
    ASSUME NEW l, Pre(l), Publish(l)
    PROVE  /\ TypeOK' /\ UNCHANGED <<configVars, userVars, logger>>
           /\ lis[l].at = "appenders"
           /\ lis[l].k > Len(new_val[l][lis[l].name].appenders)
           /\ DOMAIN m_loggers' = DOMAIN m_loggers \cup {lis[l].name}
           /\ m_loggers'[lis[l].name] = lis[l].obj
           /\ \A n \in DOMAIN m_loggers \ {lis[l].name} : m_loggers'[n] = m_loggers[n]
           /\ lis'[l].at = "pick" /\ lis'[l].new = lis[l].new \ {lis[l].name}
           /\ lis'[l].old = lis[l].old
<1>1. PICK n \in AllNames : n = lis[l].name
  BY Typing
<1>2. /\ lis[l].at = "appenders" /\ lis[l].k > Len(new_val[l][lis[l].name].appenders)
      /\ UNCHANGED <<configVars, userVars, dumpVars, logger, crash>>
      /\ lis' = [lis EXCEPT ![l].at = "pick", ![l].new = @ \ {n}]
      /\ m_loggers' = Assigned(m_loggers, n, lis[l].obj)
  BY <1>1 DEF Publish, InListener
<1>3. PICK o \in DOMAIN logger : o = lis[l].obj
  BY <1>2 DEF Pre, InvOf, ListenerFits
<1>4. m_loggers' = [x \in DOMAIN m_loggers \cup {n} |-> IF x = n THEN o ELSE m_loggers[x]]
  BY <1>2, <1>3 DEF Assigned
<1>5. /\ m_loggers' \in [DOMAIN m_loggers' -> DOMAIN logger]
      /\ DOMAIN m_loggers \subseteq DOMAIN m_loggers' /\ DOMAIN m_loggers' \subseteq AllNames
      /\ DOMAIN m_loggers' = DOMAIN m_loggers \cup {n} /\ m_loggers'[n] = o
      /\ \A m \in DOMAIN m_loggers \ {n} : m_loggers'[m] = m_loggers[m]
  BY <1>1, <1>3, <1>4, MapTyped
<1>6. lis[l].new \ {n} \in SUBSET AllNames
  BY Typing
<1>7. PICK s \in Listener_T(DOMAIN logger) :
          /\ s = [lis[l] EXCEPT !.at = "pick", !.new = lis[l].new \ {n}]
          /\ s.at = "pick" /\ s.new = lis[l].new \ {n} /\ s.old = lis[l].old
  <2>1. PICK D : D = DOMAIN logger
    OBVIOUS
  <2>2. PICK r \in Listener_T(D) : r = lis[l]
    BY <2>1, MapTyped
  <2>3. PICK s : s = [r EXCEPT !.at = "pick", !.new = r.new \ {n}]
    OBVIOUS
  <2>4. /\ s \in Listener_T(D)
        /\ s.at = "pick" /\ s.new = r.new \ {n} /\ s.old = r.old
    BY <1>1, <1>6, <2>1, <2>2, <2>3 DEF Listener_T, AllNames
  <2>. QED
    BY <2>1, <2>2, <2>3, <2>4
<1>8. lis' = [lis EXCEPT ![l] = s]
  BY <1>2, <1>7
<1>9. TypeOK' /\ lis'[l] = s
  <2>1. /\ UNCHANGED <<configVars, dumpVars, userVars>> /\ UNCHANGED crash
        /\ logger' \in Seq(Logger_T) /\ DOMAIN logger' = DOMAIN logger
    BY <1>2, Typing
  <2>. QED
    BY <1>5, <1>8, <2>1, ListenerWrites
<1>. QED
  BY <1>1, <1>2, <1>3, <1>5, <1>7, <1>9

\* A name that is no longer defined: its logger is silenced ...
LEMMA SilenceEffect ==
    ASSUME NEW l, Pre(l), Silence(l)
    PROVE  /\ TypeOK' /\ UNCHANGED <<configVars, userVars, m_loggers>>
           /\ lis[l].at = "pick" /\ lis[l].new = {}
           /\ \E n, o : /\ n \in lis[l].old /\ n \in DOMAIN m_loggers
                        /\ o = m_loggers[n] /\ Touched(o)
                        /\ logger'[o].level = Off
                        /\ logger'[o].formatter = logger[o].formatter
                        /\ logger'[o].appenders = logger[o].appenders
                        /\ lis'[l].name = n /\ lis'[l].obj = o
           /\ lis'[l].at = "clear"
           /\ lis'[l].new = lis[l].new /\ lis'[l].old = lis[l].old
<1>1. PICK n : n = Min(lis[l].old)
  OBVIOUS
<1>2. /\ lis[l].at = "pick" /\ lis[l].new = {} /\ lis[l].old # {}
      /\ UNCHANGED <<configVars, userVars, dumpVars, crash>>
      /\ logger' = [Got(n) EXCEPT ![Found(n)].level = Off]
      /\ m_loggers' = Registered(n)
      /\ lis' = [lis EXCEPT ![l].at = "clear", ![l].name = n, ![l].obj = Found(n)]
  BY <1>1 DEF Silence, InListener
<1>3. n \in lis[l].old /\ n \in AllNames /\ n \in DOMAIN m_loggers
  <2>1. n \in lis[l].old
    BY <1>1, <1>2, MinOfNames, Typing
  <2>2. n \in Pending(l)
    BY <1>2, <2>1 DEF Pending, Before, Pre, InvOf, ListenerFits, Listening
  <2>. QED
    BY <2>1, <2>2, Typing DEF Pre, InvOf, NamesFit, Defined
<1>4. PICK o \in DOMAIN logger : o = m_loggers[n]
  BY <1>3, MapTyped
<1>5a. Got(n) = logger /\ Found(n) = o /\ Registered(n) = m_loggers
  BY <1>3, <1>4, GotFacts DEF Pre
<1>5b. PICK x \in Nat : x = Off
  BY DEF Off
<1>5. PICK q \in Logger_T : /\ q = [logger[o] EXCEPT !.level = x] /\ q.level = x
                            /\ q.name = logger[o].name /\ q.formatter = logger[o].formatter
                            /\ q.appenders = logger[o].appenders /\ q.root = logger[o].root
  <2>1. PICK r \in Logger_T : r = logger[o]
    BY <1>4, Typing
  <2>2. PICK q : q = [r EXCEPT !.level = x]
    OBVIOUS
  <2>3. /\ q \in Logger_T /\ q.level = x
        /\ q.name = r.name /\ q.formatter = r.formatter
        /\ q.appenders = r.appenders /\ q.root = r.root
    BY <2>2 DEF Logger_T
  <2>. QED
    BY <2>1, <2>2, <2>3
<1>6. /\ logger' \in Seq(Logger_T) /\ Touched(o) /\ logger'[o] = q /\ m_loggers' = m_loggers
  <2>1. logger' = [logger EXCEPT ![o] = q]
    BY <1>2, <1>5, <1>5a, <1>5b
  <2>2. /\ logger' \in Seq(Logger_T) /\ DOMAIN logger' = DOMAIN logger /\ logger'[o] = q
        /\ \A p \in DOMAIN logger \ {o} : logger'[p] = logger[p]
    BY <1>4, <2>1, Typing, LoggerAssigned
  <2>. QED
    BY <1>2, <1>4, <1>5, <1>5a, <2>2 DEF Touched
<1>7. PICK s \in Listener_T(DOMAIN logger) :
          /\ s = [lis[l] EXCEPT !.at = "clear", !.name = n, !.obj = o]
          /\ s.at = "clear" /\ s.name = n /\ s.obj = o
          /\ s.new = lis[l].new /\ s.old = lis[l].old
  <2>1. PICK D : D = DOMAIN logger
    OBVIOUS
  <2>2. PICK r \in Listener_T(D) : r = lis[l]
    BY <2>1, MapTyped
  <2>3. PICK s : s = [r EXCEPT !.at = "clear", !.name = n, !.obj = o]
    OBVIOUS
  <2>4. /\ s \in Listener_T(D)
        /\ s.at = "clear" /\ s.name = n /\ s.obj = o
        /\ s.new = r.new /\ s.old = r.old
    BY <1>3, <1>4, <2>1, <2>2, <2>3 DEF Listener_T, AllNames
  <2>. QED
    BY <2>1, <2>2, <2>3, <2>4
<1>8. lis' = [lis EXCEPT ![l] = s]
  BY <1>2, <1>5a, <1>7
<1>9. TypeOK' /\ lis'[l] = s
  <2>1. /\ UNCHANGED <<configVars, dumpVars, userVars>> /\ UNCHANGED crash
        /\ m_loggers' = m_loggers /\ logger' \in Seq(Logger_T) /\ DOMAIN logger' = DOMAIN logger
    BY <1>2, <1>6 DEF Touched
  <2>. QED
    BY <1>8, <2>1, MapTyped, ListenerWrites
<1>10. /\ o = m_loggers[n] /\ Touched(o) /\ logger'[o].level = Off
       /\ logger'[o].formatter = logger[o].formatter
       /\ logger'[o].appenders = logger[o].appenders
  BY <1>4, <1>5, <1>5b, <1>6
<1>11. /\ lis'[l].name = n /\ lis'[l].obj = o /\ lis'[l].at = "clear"
       /\ lis'[l].new = lis[l].new /\ lis'[l].old = lis[l].old
  BY <1>7, <1>9
<1>. QED
  BY <1>2, <1>3, <1>6, <1>9, <1>10, <1>11

\* ... and emptied.
LEMMA ClearEffect ==
    ASSUME NEW l, Pre(l), Clear(l)
    PROVE  /\ TypeOK' /\ UNCHANGED <<configVars, userVars, m_loggers>>
           /\ lis[l].at = "clear"
           /\ \E o : /\ o = lis[l].obj /\ Touched(o)
                     /\ logger'[o].level = logger[o].level
                     /\ logger'[o].appenders = <<>>
           /\ lis'[l].at = "pick" /\ lis'[l].new = lis[l].new
           /\ lis'[l].old = lis[l].old \ {lis[l].name}
<1>1. PICK n \in AllNames : n = lis[l].name
  BY Typing
<1>2. /\ lis[l].at = "clear"
      /\ UNCHANGED <<configVars, userVars, dumpVars, m_loggers, crash>>
      /\ logger' = [logger EXCEPT ![lis[l].obj].appenders = <<>>]
      /\ lis' = [lis EXCEPT ![l].at = "pick", ![l].old = @ \ {n}]
  BY <1>1 DEF Clear, InListener
<1>3. PICK o \in DOMAIN logger : o = lis[l].obj
  <2>1. n \in Pending(l) /\ lis[l].obj = m_loggers[n]
    BY <1>1, <1>2 DEF Pending, Before, Pre, InvOf, ListenerFits, Listening
  <2>2. n \in DOMAIN m_loggers
    BY <2>1 DEF Pre, InvOf, NamesFit, Defined
  <2>. QED
    BY <2>1, <2>2, MapTyped
<1>4. PICK x \in Seq(Appender_T) : x = <<>>
  <2>1. <<>> \in Seq(Appender_T)
    OBVIOUS
  <2>. QED
    BY <2>1
<1>5. PICK q \in Logger_T : /\ q = [logger[o] EXCEPT !.appenders = x] /\ q.appenders = x
                            /\ q.name = logger[o].name /\ q.level = logger[o].level
                            /\ q.formatter = logger[o].formatter /\ q.root = logger[o].root
  <2>1. PICK r \in Logger_T : r = logger[o]
    BY <1>3, Typing
  <2>2. PICK q : q = [r EXCEPT !.appenders = x]
    OBVIOUS
  <2>3. /\ q \in Logger_T /\ q.appenders = x
        /\ q.name = r.name /\ q.level = r.level
        /\ q.formatter = r.formatter /\ q.root = r.root
    BY <2>2 DEF Logger_T
  <2>. QED
    BY <2>1, <2>2, <2>3
<1>6. /\ logger' \in Seq(Logger_T) /\ Touched(o) /\ logger'[o] = q
  <2>1. logger' = [logger EXCEPT ![o] = q]
    BY <1>2, <1>3, <1>4, <1>5
  <2>2. /\ logger' \in Seq(Logger_T) /\ DOMAIN logger' = DOMAIN logger /\ logger'[o] = q
        /\ \A p \in DOMAIN logger \ {o} : logger'[p] = logger[p]
    BY <1>3, <2>1, Typing, LoggerAssigned
  <2>. QED
    BY <1>3, <1>5, <2>2 DEF Touched
<1>6a. lis[l].old \ {n} \in SUBSET AllNames
  BY Typing
<1>7. PICK s \in Listener_T(DOMAIN logger) :
          /\ s = [lis[l] EXCEPT !.at = "pick", !.old = lis[l].old \ {n}]
          /\ s.at = "pick" /\ s.new = lis[l].new /\ s.old = lis[l].old \ {n}
  <2>1. PICK D : D = DOMAIN logger
    OBVIOUS
  <2>2. PICK r \in Listener_T(D) : r = lis[l]
    BY <2>1, MapTyped
  <2>3. PICK s : s = [r EXCEPT !.at = "pick", !.old = r.old \ {n}]
    OBVIOUS
  <2>4. /\ s \in Listener_T(D)
        /\ s.at = "pick" /\ s.new = r.new /\ s.old = r.old \ {n}
    BY <1>1, <1>6a, <2>1, <2>2, <2>3 DEF Listener_T, AllNames
  <2>. QED
    BY <2>1, <2>2, <2>3, <2>4
<1>8. lis' = [lis EXCEPT ![l] = s]
  BY <1>2, <1>7
<1>9. TypeOK' /\ lis'[l] = s
  <2>1. /\ UNCHANGED <<configVars, dumpVars, userVars>> /\ UNCHANGED crash
        /\ m_loggers' = m_loggers /\ logger' \in Seq(Logger_T) /\ DOMAIN logger' = DOMAIN logger
    BY <1>2, <1>6 DEF Touched
  <2>. QED
    BY <1>8, <2>1, MapTyped, ListenerWrites
<1>. QED
  BY <1>1, <1>2, <1>3, <1>4, <1>5, <1>6, <1>7, <1>9

LEMMA LeaveEffect ==
    ASSUME NEW l, Pre(l), LeaveListener(l)
    PROVE  /\ TypeOK' /\ UNCHANGED <<userVars, logger, m_loggers>>
           /\ UNCHANGED <<m_val, m_cbs, cpc, new_val, ids, late, loads>>
           /\ lis[l].at = "pick" /\ lis[l].new = {} /\ lis[l].old = {}
           /\ cpc[l] = "calling" /\ left'[l] = left[l] \ {Initer}
           /\ told'[Initer] = new_val[l] /\ \A k \in Listeners \ {Initer} : told'[k] = told[k]
           /\ lis'[l].at = "out" /\ lis'[l].new = {} /\ lis'[l].old = {}
<1>1. /\ UNCHANGED <<userVars, logger, m_loggers, dumpVars, crash>>
      /\ UNCHANGED <<m_val, m_cbs, cpc, new_val, ids, late, loads>>
      /\ lis[l].at = "pick" /\ lis[l].new = {} /\ lis[l].old = {}
      /\ lis' = [lis EXCEPT ![l] = NoListener]
      /\ cpc[l] = "calling"
      /\ left' = [left EXCEPT ![l] = @ \ {Initer}]
      /\ told' = [told EXCEPT ![Initer] = new_val[l]]
  BY DEF LeaveListener, InListener, Called
<1>2. Initer \in Listeners
  BY LogAssumption, ConfigAssumption
<1>3. /\ left \in [Loaders -> SUBSET Listeners] /\ told \in [Listeners -> Values]
      /\ new_val[l] \in Values /\ l \in Loaders
      /\ lis \in [Loaders -> Listener_T(DOMAIN logger)]
  BY DEF Pre, TypeOK, ConfigTypeOK
<1>4. /\ left' \in [Loaders -> SUBSET Listeners] /\ left'[l] = left[l] \ {Initer}
  BY <1>1, <1>3
<1>5. /\ told' \in [Listeners -> Values] /\ told'[Initer] = new_val[l]
      /\ \A k \in Listeners \ {Initer} : told'[k] = told[k]
  BY <1>1, <1>2, <1>3
<1>6. lis' \in [Loaders -> Listener_T(DOMAIN logger)] /\ lis'[l] = NoListener
  <2>1. PICK s \in Listener_T(DOMAIN logger) : s = NoListener
    BY NoListenerFacts
  <2>. QED
    BY <1>1, <1>3, <2>1
<1>7. ConfigTypeOK'
  BY <1>1, <1>4, <1>5 DEF Pre, TypeOK, ConfigTypeOK
<1>8. TypeOK'
  BY <1>1, <1>6, <1>7 DEF Pre, TypeOK, dumpVars, userVars
<1>. QED
  BY <1>1, <1>4, <1>5, <1>6, <1>8, NoListenerFacts

-----------------------------------------------------------------------------
(* The steps of the listener keep the invariant *)

\* Inside the listener.
LEMMA WithinListener ==
    ASSUME NEW l, Pre(l), lis[l].at # "out"
    PROVE  /\ ~Before(l) /\ cpc[l] = "calling" /\ Initer \in left[l]
           /\ Renewed(l) = DOMAIN new_val[l] \ lis[l].new
           /\ Pending(l) = (lis[l].new \cap DOMAIN m_val) \cup lis[l].old
<1>1. cpc[l] = "calling" /\ Initer \in left[l]
  BY DEF Pre, InvOf, ListenerFits, Listening
<1>2. ~Before(l)
  BY <1>1 DEF Before
<1>. QED
  BY <1>1, <1>2 DEF Renewed, Pending

LEMMA StaysWithin ==
    ASSUME NEW l, UNCHANGED configVars, cpc[l] = "calling", Initer \in left[l],
           lis'[l].at # "out"
    PROVE  /\ ~Before(l)'
           /\ Renewed(l)' = DOMAIN new_val[l] \ lis'[l].new
           /\ Pending(l)' = (lis'[l].new \cap DOMAIN m_val) \cup lis'[l].old
<1>1. ~Before(l)'
  BY DEF Before, configVars
<1>. QED
  BY <1>1 DEF Renewed, Pending, configVars

LEMMA ToldKept ==
    ASSUME NEW l, Pre(l), UNCHANGED configVars PROVE Told(l)'
  BY DEF Pre, InvOf, Told, configVars

LEMMA EnterKeeps ==
    ASSUME NEW l, Pre(l), EnterListener(l) PROVE TypeOK' /\ InvOf(l)'
<1>1. /\ TypeOK' /\ UNCHANGED <<configVars, userVars, logger, m_loggers>>
      /\ lis[l].at = "out" /\ cpc[l] = "calling" /\ Initer \in left[l]
      /\ lis'[l].at = "pick" /\ lis'[l].new = DOMAIN new_val[l]
      /\ lis'[l].old = DOMAIN m_val \ DOMAIN new_val[l]
  BY EnterEffect
<1>2. Before(l) /\ Renewed(l) = {} /\ Pending(l) = DOMAIN m_val
  BY <1>1 DEF Before, Renewed, Pending
<1>3. ~Before(l)' /\ Renewed(l)' = {} /\ Pending(l)' = DOMAIN m_val
  BY <1>1, StaysWithin
<1>4. NamesFit(l)'
  BY <1>1, <1>2, <1>3 DEF Pre, InvOf, NamesFit, Defined, Unused, configVars
<1>5. ListenerFits(l)'
  BY <1>1 DEF ListenerFits, Listening, configVars
<1>6. LoggersFit(l)'
  BY <1>1 DEF Pre, InvOf, LoggersFit, Unpublished, userVars, configVars
<1>. QED
  BY <1>1, <1>4, <1>5, <1>6, ToldKept DEF InvOf

\* A logger is changed that is registered under a name still pending, or that
\* only the listener knows.
LEMMA TouchKeeps ==
    ASSUME NEW l, Pre(l), UNCHANGED <<configVars, userVars, m_loggers>>,
           lis[l].at # "out", lis'[l].at # "out",
           lis'[l].new = lis[l].new, lis'[l].old = lis[l].old,
           NEW o, Touched(o), NEW n, logger[o].name = n,
           n \in DOMAIN m_loggers /\ m_loggers[n] = o => n \in Pending(l),
           logger'[o].appenders = <<>> => logger[o].appenders = <<>>,
           \A p : Unpublished(l, p) => p = o /\ Unpublished(l, o)',
           logger'[o].level = logger[o].level \/ (n \in DOMAIN m_loggers /\ m_loggers[n] = o)
    PROVE  NamesFit(l)' /\ LoggersFit(l)' /\ Told(l)'
<1>1. ~Before(l) /\ cpc[l] = "calling" /\ Initer \in left[l]
  BY WithinListener
<1>2. ~Before(l)' /\ Renewed(l)' = Renewed(l) /\ Pending(l)' = Pending(l)
  <2>1. /\ Renewed(l) = DOMAIN new_val[l] \ lis[l].new
        /\ Pending(l) = (lis[l].new \cap DOMAIN m_val) \cup lis[l].old
    BY WithinListener
  <2>. QED
    BY <1>1, <2>1, StaysWithin
<1>3. m_loggers' = m_loggers /\ new_val' = new_val /\ m_val' = m_val
  BY DEF configVars
<1>4. m_loggers \in [DOMAIN m_loggers -> DOMAIN logger]
  BY MapTyped
<1>5. \A m \in DOMAIN m_loggers : logger[m_loggers[m]].name = m
  BY DEF Pre, InvOf, LoggersFit
<1>6. \A m \in DOMAIN m_loggers : m \in Renewed(l) \cup Pending(l) \/ Unused(m)
  BY DEF Pre, InvOf, NamesFit
<1>6a. Renewed(l) \cap Pending(l) = {}
  <2>1. lis[l].old \cap DOMAIN new_val[l] = {}
    BY DEF Pre, InvOf, ListenerFits
  <2>. QED
    BY <2>1, WithinListener
<1>7. \A m \in DOMAIN m_loggers \ Pending(l) : logger'[m_loggers[m]] = logger[m_loggers[m]]
  BY <1>4, <1>5 DEF Touched
<1>8. NamesFit(l)'
  <2>1. \A m \in Renewed(l) : Defined(m)' /\ Applied(logger'[m_loggers'[m]], new_val'[l][m])
    BY <1>3, <1>6a, <1>7 DEF Pre, InvOf, NamesFit, Defined
  <2>2. ASSUME NEW m \in Pending(l)
        PROVE  /\ Defined(m)'
               /\ logger'[m_loggers'[m]].appenders = <<>> => m_val'[m].appenders = <<>>
    <3>1. Defined(m) /\ (logger[m_loggers[m]].appenders = <<>> => m_val[m].appenders = <<>>)
      BY DEF Pre, InvOf, NamesFit
    <3>2. logger'[m_loggers[m]].appenders = <<>> => logger[m_loggers[m]].appenders = <<>>
      BY <1>4, <3>1 DEF Touched, Defined
    <3>. QED
      BY <1>3, <3>1, <3>2 DEF Defined
  <2>3. ASSUME NEW m \in DOMAIN m_loggers \ (Renewed(l) \cup Pending(l)) PROVE Unused(m)'
    <3>1. Unused(m) /\ logger'[m_loggers'[m]] = logger[m_loggers[m]] /\ m_loggers'[m] = m_loggers[m]
      BY <1>3, <1>6, <1>7
    <3>. QED
      BY <3>1 DEF Unused
  <2>. QED
    BY <1>2, <1>3, <2>1, <2>2, <2>3 DEF NamesFit
<1>9. LoggersFit(l)'
  <2>1. \A m \in DOMAIN m_loggers' : logger'[m_loggers'[m]].name = m
    BY <1>3, <1>4, <1>5 DEF Touched
  <2>2. logger'[Root].appenders # <<>>
    <3>1. Root \in DOMAIN logger /\ logger[Root].appenders # <<>>
      BY DEF Pre, TypeOK, InvOf, LoggersFit
    <3>. QED
      BY <3>1 DEF Touched
  <2>3. ASSUME NEW p \in DOMAIN logger', logger'[p].appenders = <<>>, ~logger'[p].root
        PROVE  \/ logger'[p].level = Off
               \/ logger'[p].name \in DOMAIN m_loggers' /\ m_loggers'[logger'[p].name] = p
               \/ Unpublished(l, p)'
    <3>1. p \in DOMAIN logger /\ logger[p].appenders = <<>> /\ ~logger[p].root /\ logger'[p].name = logger[p].name
      BY <2>3 DEF Touched
    <3>2. \/ logger[p].level = Off
          \/ logger[p].name \in DOMAIN m_loggers /\ m_loggers[logger[p].name] = p
          \/ Unpublished(l, p)
      BY <3>1 DEF Pre, InvOf, LoggersFit
    <3>3. CASE p # o
      <4>1. logger'[p] = logger[p] /\ ~Unpublished(l, p)
        BY <3>1, <3>3 DEF Touched
      <4>. QED
        BY <1>3, <3>2, <4>1
    <3>4. CASE p = o
      <4>1. CASE logger'[o].level = logger[o].level
        BY <1>3, <3>1, <3>2, <3>4, <4>1
      <4>2. CASE n \in DOMAIN m_loggers /\ m_loggers[n] = o
        BY <1>3, <3>1, <3>4, <4>2
      <4>. QED
        BY <4>1, <4>2
    <3>. QED
      BY <3>3, <3>4
  <2>4. \A u \in Users : upc'[u] # "out" => held'[u] # 0
    BY DEF Pre, InvOf, LoggersFit, userVars
  <2>. QED
    BY <2>1, <2>2, <2>3, <2>4 DEF LoggersFit
<1>. QED
  BY <1>8, <1>9, ToldKept

\* The logger under construction.
LEMMA UnderWork ==
    ASSUME NEW l, Pre(l), lis[l].at \in {"formatter", "appenders"},
           NEW n, n = lis[l].name, NEW o, o = lis[l].obj
    PROVE  /\ n \in lis[l].new /\ n \in DOMAIN new_val[l] /\ o \in DOMAIN logger /\ o # Root
           /\ logger[o].name = n /\ logger[o].level = new_val[l][n].level
           /\ lis[l].k \in 1..(Len(new_val[l][n].appenders) + 1)
           /\ new_val[l][n].appenders \in Seq(Appender_T)
           /\ logger[o].appenders \in Seq(Appender_T)
           /\ n \in DOMAIN m_loggers /\ m_loggers[n] = o => n \in Pending(l)
           /\ n \in DOMAIN m_val => m_loggers[n] = o
           /\ n \notin DOMAIN m_val =>
                /\ \A m \in DOMAIN m_loggers : m_loggers[m] # o
                /\ \A u \in Users : held[u] # o
           /\ \A p : Unpublished(l, p) => p = o
<1>1. /\ n \in lis[l].new /\ n \in DOMAIN new_val[l] /\ o \in DOMAIN logger /\ o # Root
      /\ logger[o].name = n /\ logger[o].level = new_val[l][n].level
      /\ lis[l].k \in 1..(Len(new_val[l][n].appenders) + 1)
  BY DEF Pre, InvOf, ListenerFits
<1>2. /\ n \in DOMAIN m_val => m_loggers[n] = o
      /\ n \notin DOMAIN m_val =>
                /\ \A m \in DOMAIN m_loggers : m_loggers[m] # o
                /\ \A u \in Users : held[u] # o
  BY DEF Pre, InvOf, ListenerFits
<1>3. n \in DOMAIN m_loggers /\ m_loggers[n] = o => n \in Pending(l)
  BY <1>1, <1>2, WithinListener
<1>4. \A p : Unpublished(l, p) => p = o
  BY DEF Unpublished
<1>5. new_val[l][n].appenders \in Seq(Appender_T) /\ logger[o].appenders \in Seq(Appender_T)
  <2>1. new_val[l][n] \in Define_T /\ logger[o] \in Logger_T
    BY <1>1, Typing
  <2>. QED
    BY <2>1 DEF Define_T, Logger_T
<1>. QED
  BY <1>1, <1>2, <1>3, <1>4, <1>5

LEMMA SetFormatterKeeps ==
    ASSUME NEW l, Pre(l), SetFormatter(l) PROVE TypeOK' /\ InvOf(l)'
<1>1. PICK n, o : n = lis[l].name /\ o = lis[l].obj
  OBVIOUS
<1>2. /\ TypeOK' /\ UNCHANGED <<configVars, userVars, m_loggers>>
      /\ lis[l].at = "formatter" /\ Touched(o)
      /\ logger'[o].level = logger[o].level
      /\ logger'[o].appenders = logger[o].appenders
      /\ Formatted(logger'[o], new_val[l][n])
      /\ lis'[l].at = "appenders" /\ lis'[l].name = n /\ lis'[l].obj = o
      /\ lis'[l].k = lis[l].k /\ lis'[l].new = lis[l].new /\ lis'[l].old = lis[l].old
  BY <1>1, SetFormatterEffect
<1>3. /\ n \in lis[l].new /\ n \in DOMAIN new_val[l] /\ o \in DOMAIN logger /\ o # Root
      /\ logger[o].name = n /\ logger[o].level = new_val[l][n].level
      /\ lis[l].k \in 1..(Len(new_val[l][n].appenders) + 1)
      /\ logger[o].appenders \in Seq(Appender_T)
      /\ n \in DOMAIN m_loggers /\ m_loggers[n] = o => n \in Pending(l)
      /\ n \in DOMAIN m_val => m_loggers[n] = o
      /\ n \notin DOMAIN m_val =>
           /\ \A m \in DOMAIN m_loggers : m_loggers[m] # o
           /\ \A u \in Users : held[u] # o
      /\ \A p : Unpublished(l, p) => p = o
  BY <1>1, <1>2, UnderWork
<1>4. \A p : Unpublished(l, p) => p = o /\ Unpublished(l, o)'
  BY <1>1, <1>2, <1>3 DEF Unpublished, configVars
<1>5. NamesFit(l)' /\ LoggersFit(l)' /\ Told(l)'
  BY <1>2, <1>3, <1>4, TouchKeeps
<1>6. lis[l].k = 1
  BY <1>2 DEF Pre, InvOf, ListenerFits
<1>7. Equipped(logger'[o], new_val[l][n], 1)
  BY <1>2, <1>3 DEF Equipped
<1>8. /\ cpc[l] = "calling" /\ Initer \in left[l]
      /\ lis[l].new \subseteq DOMAIN new_val[l] /\ lis[l].old \subseteq DOMAIN m_val \ DOMAIN new_val[l]
  BY <1>2, WithinListener DEF Pre, InvOf, ListenerFits
<1>9. ListenerFits(l)'
  <2>1. o \in DOMAIN logger' /\ logger'[o].name = n /\ logger'[o].level = new_val[l][n].level
    BY <1>2, <1>3 DEF Touched
  <2>2. /\ cpc' = cpc /\ left' = left /\ new_val' = new_val /\ m_val' = m_val
        /\ m_loggers' = m_loggers /\ held' = held
    BY <1>2 DEF configVars, userVars
  <2>. QED
    BY <1>2, <1>3, <1>6, <1>7, <1>8, <2>1, <2>2 DEF ListenerFits, Listening
<1>. QED
  BY <1>2, <1>5, <1>9 DEF InvOf

\* One more appender behind the others.
LEMMA EquippedNext ==
    ASSUME NEW o, NEW p, NEW d, NEW k \in Nat, NEW a,
           o.appenders \in Seq(Appender_T), a \in Appender_T, k >= 1,
           p.appenders = Append(o.appenders, a), p.formatter = o.formatter,
           a.type = d.appenders[k].type, a.file = d.appenders[k].file,
           a.formatter = o.formatter, Equipped(o, d, k)
    PROVE  Equipped(p, d, k + 1)
<1>. DEFINE s == o.appenders
            t == p.appenders
<1>1. /\ Len(s) \in Nat /\ Len(t) = Len(s) + 1 /\ t[Len(s) + 1] = a
      /\ \A i \in 1..Len(s) : t[i] = s[i]
  BY AppendProperties
<1>2. PICK b \in Int : b = Len(s) - (k - 1) /\ b = Len(t) - ((k + 1) - 1)
  <2>1. PICK x \in Nat, y \in Nat : x = Len(s) /\ y = Len(t) /\ y = x + 1
    BY <1>1
  <2>2. x - (k - 1) \in Int /\ x - (k - 1) = y - ((k + 1) - 1)
    BY <2>1
  <2>. QED
    BY <2>1, <2>2
<1>3. /\ b >= 0
      /\ \A x \in 1..(k - 1) :
             /\ s[b + x].type = d.appenders[x].type
             /\ s[b + x].file = d.appenders[x].file
             /\ s[b + x].formatter = o.formatter
  BY <1>2 DEF Equipped
<1>4. ASSUME NEW x \in 1..((k + 1) - 1)
      PROVE  /\ t[b + x].type = d.appenders[x].type
             /\ t[b + x].file = d.appenders[x].file
             /\ t[b + x].formatter = p.formatter
  <2>1. CASE x = k
    <3>1. b + x = Len(s) + 1
      BY <1>1, <1>2, <2>1
    <3>. QED
      BY <1>1, <2>1, <3>1
  <2>2. CASE x # k
    <3>1. x \in 1..(k - 1) /\ b + x \in 1..Len(s)
      BY <1>1, <1>2, <1>3, <2>2
    <3>. QED
      BY <1>1, <1>3, <3>1
  <2>. QED
    BY <2>1, <2>2
<1>. QED
  BY <1>2, <1>3, <1>4 DEF Equipped

LEMMA AddAppenderKeeps ==
    ASSUME NEW l, Pre(l), AddAppender(l) PROVE TypeOK' /\ InvOf(l)'
<1>1. PICK n, o, k : n = lis[l].name /\ o = lis[l].obj /\ k = lis[l].k
  OBVIOUS
<1>2. /\ TypeOK' /\ UNCHANGED <<configVars, userVars, m_loggers>>
      /\ lis[l].at = "appenders" /\ k <= Len(new_val[l][n].appenders)
      /\ lis'[l].at = "appenders" /\ lis'[l].name = n /\ lis'[l].obj = o
      /\ lis'[l].k = k + 1 /\ lis'[l].new = lis[l].new /\ lis'[l].old = lis[l].old
  BY <1>1, AddAppenderEffect
<1>3. PICK a : /\ Touched(o) /\ a \in Appender_T
               /\ logger'[o].level = logger[o].level
               /\ logger'[o].formatter = logger[o].formatter
               /\ logger'[o].appenders = Append(logger[o].appenders, a)
               /\ a.type = new_val[l][n].appenders[k].type
               /\ a.file = new_val[l][n].appenders[k].file
               /\ a.formatter = logger[o].formatter
  <2>1. PICK a : AppenderAdded(l, o, a)
    BY <1>1, AddAppenderEffect
  <2>. QED
    BY <1>1, <2>1 DEF AppenderAdded
<1>4. /\ n \in lis[l].new /\ n \in DOMAIN new_val[l] /\ o \in DOMAIN logger /\ o # Root
      /\ logger[o].name = n /\ logger[o].level = new_val[l][n].level
      /\ k \in 1..(Len(new_val[l][n].appenders) + 1)
      /\ new_val[l][n].appenders \in Seq(Appender_T)
      /\ logger[o].appenders \in Seq(Appender_T)
      /\ n \in DOMAIN m_loggers /\ m_loggers[n] = o => n \in Pending(l)
      /\ n \in DOMAIN m_val => m_loggers[n] = o
      /\ n \notin DOMAIN m_val =>
           /\ \A m \in DOMAIN m_loggers : m_loggers[m] # o
           /\ \A u \in Users : held[u] # o
      /\ \A p : Unpublished(l, p) => p = o
  <2>1. lis[l].at \in {"formatter", "appenders"} /\ n = lis[l].name /\ o = lis[l].obj
    BY <1>1, <1>2
  <2>2. /\ n \in lis[l].new /\ n \in DOMAIN new_val[l] /\ o \in DOMAIN logger /\ o # Root
        /\ logger[o].name = n /\ logger[o].level = new_val[l][n].level
        /\ lis[l].k \in 1..(Len(new_val[l][n].appenders) + 1)
        /\ new_val[l][n].appenders \in Seq(Appender_T)
        /\ logger[o].appenders \in Seq(Appender_T)
        /\ \A p : Unpublished(l, p) => p = o
    BY <2>1, UnderWork
  <2>3. /\ n \in DOMAIN m_loggers /\ m_loggers[n] = o => n \in Pending(l)
        /\ n \in DOMAIN m_val => m_loggers[n] = o
        /\ n \notin DOMAIN m_val =>
             /\ \A m \in DOMAIN m_loggers : m_loggers[m] # o
             /\ \A u \in Users : held[u] # o
    BY <2>1, UnderWork
  <2>. QED
    BY <1>1, <2>2, <2>3
<1>5. \A p : Unpublished(l, p) => p = o /\ Unpublished(l, o)'
  BY <1>1, <1>2, <1>4 DEF Unpublished, configVars
<1>6. logger'[o].appenders # <<>>
  <2>1. PICK s \in Seq(Appender_T) : s = logger[o].appenders
    BY <1>4
  <2>2. Append(s, a) # <<>>
    BY <1>3, AppendProperties
  <2>. QED
    BY <1>3, <2>1, <2>2
<1>7. NamesFit(l)' /\ LoggersFit(l)' /\ Told(l)'
  <2>1. /\ UNCHANGED <<configVars, userVars, m_loggers>>
        /\ lis[l].at # "out" /\ lis'[l].at # "out"
        /\ lis'[l].new = lis[l].new /\ lis'[l].old = lis[l].old
    BY <1>2
  <2>2. Touched(o) /\ logger'[o].level = logger[o].level
    BY <1>3
  <2>3. /\ logger[o].name = n
        /\ n \in DOMAIN m_loggers /\ m_loggers[n] = o => n \in Pending(l)
    BY <1>4
  <2>. QED
    BY <1>5, <1>6, <2>1, <2>2, <2>3, TouchKeeps
<1>8. Formatted(logger[o], new_val[l][n]) /\ Equipped(logger[o], new_val[l][n], k)
  BY <1>1, <1>2 DEF Pre, InvOf, ListenerFits
<1>9. Formatted(logger'[o], new_val[l][n])
  BY <1>3, <1>8 DEF Formatted
<1>10. Equipped(logger'[o], new_val[l][n], k + 1)
  <2>1. PICK d : d = new_val[l][n]
    OBVIOUS
  <2>2. k \in Nat /\ k >= 1
    BY <1>4
  <2>. QED
    BY <1>3, <1>4, <1>8, <2>1, <2>2, EquippedNext
<1>11. k + 1 \in 1..(Len(new_val[l][n].appenders) + 1)
  BY <1>2, <1>4
<1>12. /\ cpc[l] = "calling" /\ Initer \in left[l]
      /\ lis[l].new \subseteq DOMAIN new_val[l] /\ lis[l].old \subseteq DOMAIN m_val \ DOMAIN new_val[l]
  BY <1>2, WithinListener DEF Pre, InvOf, ListenerFits
<1>13. ListenerFits(l)'
  <2>1. o \in DOMAIN logger' /\ logger'[o].name = n /\ logger'[o].level = new_val[l][n].level
    BY <1>3, <1>4 DEF Touched
  <2>2. /\ cpc' = cpc /\ left' = left /\ new_val' = new_val /\ m_val' = m_val
        /\ m_loggers' = m_loggers /\ held' = held
    BY <1>2 DEF configVars, userVars
  <2>. QED
    BY <1>2, <1>4, <1>9, <1>10, <1>11, <1>12, <2>1, <2>2 DEF ListenerFits, Listening
<1>. QED
  BY <1>2, <1>7, <1>13 DEF InvOf

LEMMA PickChangedKeeps ==
    ASSUME NEW l, Pre(l), PickDefine(l), NEW n, n = Min(lis[l].new), n \in DOMAIN m_val,
           m_val[n] # new_val[l][n]
    PROVE  TypeOK' /\ InvOf(l)'
<1>1. /\ TypeOK' /\ UNCHANGED <<configVars, userVars, m_loggers>>
      /\ lis[l].at = "pick" /\ n \in lis[l].new /\ n \in DOMAIN new_val[l]
      /\ n \in DOMAIN m_loggers
      /\ lis'[l].at = "formatter" /\ lis'[l].name = n /\ lis'[l].k = 1
      /\ lis'[l].new = lis[l].new /\ lis'[l].old = lis[l].old
  BY PickChangedEffect
<1>2. PICK o : /\ o = m_loggers[n] /\ Touched(o)
               /\ logger'[o].level = new_val[l][n].level
               /\ logger'[o].formatter = logger[o].formatter
               /\ logger'[o].appenders = logger[o].appenders
               /\ lis'[l].obj = o
  BY PickChangedEffect
<1>3. /\ cpc[l] = "calling" /\ Initer \in left[l] /\ n \in Pending(l)
      /\ lis[l].new \subseteq DOMAIN new_val[l] /\ lis[l].old \subseteq DOMAIN m_val \ DOMAIN new_val[l]
  BY <1>1, WithinListener DEF Pre, InvOf, ListenerFits
<1>4. o # Root /\ logger[o].name = n
  BY <1>1, <1>2, <1>3 DEF Pre, InvOf, NamesFit, Defined, LoggersFit
<1>5. \A p : ~Unpublished(l, p)
  BY <1>1 DEF Unpublished
<1>6. NamesFit(l)' /\ LoggersFit(l)' /\ Told(l)'
  BY <1>1, <1>2, <1>3, <1>4, <1>5, TouchKeeps
<1>7. 1 \in 1..(Len(new_val[l][n].appenders) + 1)
  <2>1. new_val[l][n].appenders \in Seq(Appender_T)
    BY <1>1, Typing DEF Define_T
  <2>2. Len(new_val[l][n].appenders) \in Nat
    BY <2>1, LenProperties
  <2>. QED
    BY <2>2
<1>8. ListenerFits(l)'
  <2>1. o \in DOMAIN logger' /\ logger'[o].name = n
    BY <1>2, <1>4 DEF Touched
  <2>2. /\ cpc' = cpc /\ left' = left /\ new_val' = new_val /\ m_val' = m_val
        /\ m_loggers' = m_loggers
    BY <1>1 DEF configVars
  <2>. QED
    BY <1>1, <1>2, <1>3, <1>4, <1>7, <2>1, <2>2 DEF ListenerFits, Listening
<1>. QED
  BY <1>1, <1>6, <1>8 DEF InvOf

LEMMA SilenceKeeps ==
    ASSUME NEW l, Pre(l), Silence(l) PROVE TypeOK' /\ InvOf(l)'
<1>1. /\ TypeOK' /\ UNCHANGED <<configVars, userVars, m_loggers>>
      /\ lis[l].at = "pick" /\ lis[l].new = {} /\ lis'[l].at = "clear"
      /\ lis'[l].new = lis[l].new /\ lis'[l].old = lis[l].old
  BY SilenceEffect
<1>2. PICK n, o : /\ n \in lis[l].old /\ n \in DOMAIN m_loggers
                  /\ o = m_loggers[n] /\ Touched(o)
                  /\ logger'[o].level = Off
                  /\ logger'[o].formatter = logger[o].formatter
                  /\ logger'[o].appenders = logger[o].appenders
                  /\ lis'[l].name = n /\ lis'[l].obj = o
  BY SilenceEffect
<1>3. /\ cpc[l] = "calling" /\ Initer \in left[l] /\ n \in Pending(l)
      /\ lis[l].new \subseteq DOMAIN new_val[l] /\ lis[l].old \subseteq DOMAIN m_val \ DOMAIN new_val[l]
  BY <1>1, <1>2, WithinListener DEF Pre, InvOf, ListenerFits
<1>4. logger[o].name = n
  BY <1>2 DEF Pre, InvOf, LoggersFit
<1>5. \A p : ~Unpublished(l, p)
  BY <1>1 DEF Unpublished
<1>6. NamesFit(l)' /\ LoggersFit(l)' /\ Told(l)'
  BY <1>1, <1>2, <1>3, <1>4, <1>5, TouchKeeps
<1>7. ListenerFits(l)'
  <2>1. /\ cpc' = cpc /\ left' = left /\ new_val' = new_val /\ m_val' = m_val
        /\ m_loggers' = m_loggers
    BY <1>1 DEF configVars
  <2>. QED
    BY <1>1, <1>2, <1>3, <2>1 DEF ListenerFits, Listening
<1>. QED
  BY <1>1, <1>6, <1>7 DEF InvOf

LEMMA ClearKeeps ==
    ASSUME NEW l, Pre(l), Clear(l) PROVE TypeOK' /\ InvOf(l)'
<1>1. PICK n, o : n = lis[l].name /\ o = lis[l].obj
  OBVIOUS
<1>2. /\ TypeOK' /\ UNCHANGED <<configVars, userVars, m_loggers>>
      /\ lis[l].at = "clear" /\ Touched(o)
      /\ logger'[o].level = logger[o].level /\ logger'[o].appenders = <<>>
      /\ lis'[l].at = "pick" /\ lis'[l].new = lis[l].new
      /\ lis'[l].old = lis[l].old \ {n}
  BY <1>1, ClearEffect
<1>3. /\ cpc[l] = "calling" /\ Initer \in left[l]
      /\ Renewed(l) = DOMAIN new_val[l] /\ Pending(l) = lis[l].old
      /\ lis[l].new = {} /\ lis[l].old \subseteq DOMAIN m_val \ DOMAIN new_val[l]
      /\ n \in lis[l].old /\ o = m_loggers[n] /\ logger[o].level = Off
  <2>1. /\ lis[l].new = {} /\ lis[l].old \subseteq DOMAIN m_val \ DOMAIN new_val[l]
        /\ n \in lis[l].old /\ o = m_loggers[n] /\ logger[o].level = Off
    BY <1>1, <1>2 DEF Pre, InvOf, ListenerFits
  <2>. QED
    BY <1>2, <2>1, WithinListener
<1>4. n \in DOMAIN m_loggers /\ o # Root
  BY <1>3 DEF Pre, InvOf, NamesFit, Defined
<1>5. /\ ~Before(l)' /\ Renewed(l)' = Renewed(l) /\ Pending(l)' = Pending(l) \ {n}
  <2>1. UNCHANGED configVars /\ lis'[l].at # "out" /\ lis'[l].new = {}
    BY <1>2, <1>3
  <2>. QED
    BY <1>2, <1>3, <2>1, StaysWithin
<1>6. m_loggers' = m_loggers /\ new_val' = new_val /\ m_val' = m_val /\ cpc' = cpc /\ left' = left
  BY <1>2 DEF configVars
<1>7. m_loggers \in [DOMAIN m_loggers -> DOMAIN logger]
  BY MapTyped
<1>8. \A m \in DOMAIN m_loggers \ {n} : logger'[m_loggers[m]] = logger[m_loggers[m]]
  <2>1. \A m \in DOMAIN m_loggers : logger[m_loggers[m]].name = m
    BY DEF Pre, InvOf, LoggersFit
  <2>. QED
    BY <1>2, <1>3, <1>4, <1>7, <2>1 DEF Touched
<1>9. NamesFit(l)'
  <2>1. \A m \in Renewed(l) : Defined(m)' /\ Applied(logger'[m_loggers'[m]], new_val'[l][m])
    BY <1>3, <1>6, <1>8 DEF Pre, InvOf, NamesFit, Defined
  <2>2. \A m \in Pending(l) \ {n} :
               /\ Defined(m)'
               /\ logger'[m_loggers'[m]].appenders = <<>> => m_val'[m].appenders = <<>>
    BY <1>6, <1>8 DEF Pre, InvOf, NamesFit, Defined
  <2>3. ASSUME NEW m \in DOMAIN m_loggers \ (Renewed(l) \cup Pending(l)) PROVE Unused(m)'
    <3>1. Unused(m) /\ logger'[m_loggers'[m]] = logger[m_loggers[m]] /\ m_loggers'[m] = m_loggers[m]
      BY <1>3, <1>6, <1>8 DEF Pre, InvOf, NamesFit
    <3>. QED
      BY <3>1 DEF Unused
  <2>4. Unused(n)'
    BY <1>2, <1>3, <1>6 DEF Unused
  <2>. QED
    BY <1>5, <1>6, <2>1, <2>2, <2>3, <2>4 DEF NamesFit
<1>10. ListenerFits(l)'
  BY <1>2, <1>3, <1>6 DEF ListenerFits, Listening
<1>11. LoggersFit(l)'
  <2>1. \A m \in DOMAIN m_loggers' : logger'[m_loggers'[m]].name = m
    BY <1>2, <1>6, <1>7 DEF Touched, Pre, InvOf, LoggersFit
  <2>2. logger'[Root].appenders # <<>>
    <3>1. Root \in DOMAIN logger /\ logger[Root].appenders # <<>>
      BY DEF Pre, TypeOK, InvOf, LoggersFit
    <3>. QED
      BY <1>2, <1>4, <3>1 DEF Touched
  <2>3. ASSUME NEW p \in DOMAIN logger', logger'[p].appenders = <<>>, ~logger'[p].root
        PROVE  \/ logger'[p].level = Off
               \/ logger'[p].name \in DOMAIN m_loggers' /\ m_loggers'[logger'[p].name] = p
    <3>1. CASE p = o
      BY <1>2, <1>3, <3>1
    <3>2. CASE p # o
      <4>1. p \in DOMAIN logger /\ logger'[p] = logger[p] /\ ~Unpublished(l, p)
        BY <1>2, <3>2 DEF Touched, Unpublished
      <4>. QED
        BY <1>6, <2>3, <4>1 DEF Pre, InvOf, LoggersFit
    <3>. QED
      BY <3>1, <3>2
  <2>4. \A u \in Users : upc'[u] # "out" => held'[u] # 0
    BY <1>2 DEF Pre, InvOf, LoggersFit, userVars
  <2>. QED
    BY <2>1, <2>2, <2>3, <2>4 DEF LoggersFit
<1>. QED
  BY <1>2, <1>9, <1>10, <1>11, ToldKept DEF InvOf

LEMMA PickNewKeeps ==
    ASSUME NEW l, Pre(l), PickDefine(l), NEW n, n = Min(lis[l].new), n \notin DOMAIN m_val
    PROVE  TypeOK' /\ InvOf(l)'
<1>1. /\ TypeOK' /\ UNCHANGED <<configVars, userVars, m_loggers>>
      /\ lis[l].at = "pick" /\ n \in lis[l].new /\ n \in DOMAIN new_val[l]
      /\ lis'[l].at = "formatter" /\ lis'[l].name = n /\ lis'[l].k = 1
      /\ lis'[l].new = lis[l].new /\ lis'[l].old = lis[l].old
  BY PickNewEffect
<1>2. PICK o : /\ o \notin DOMAIN logger /\ DOMAIN logger' = DOMAIN logger \cup {o}
               /\ \A p \in DOMAIN logger : logger'[p] = logger[p]
               /\ logger'[o].name = n /\ logger'[o].level = new_val[l][n].level
               /\ o # 0 /\ lis'[l].obj = o
  BY PickNewEffect
<1>3. /\ cpc[l] = "calling" /\ Initer \in left[l] /\ ~Before(l)
      /\ lis[l].new \subseteq DOMAIN new_val[l] /\ lis[l].old \subseteq DOMAIN m_val \ DOMAIN new_val[l]
  BY <1>1, WithinListener DEF Pre, InvOf, ListenerFits
<1>4. ~Before(l)' /\ Renewed(l)' = Renewed(l) /\ Pending(l)' = Pending(l)
  <2>1. /\ Renewed(l) = DOMAIN new_val[l] \ lis[l].new
        /\ Pending(l) = (lis[l].new \cap DOMAIN m_val) \cup lis[l].old
    BY <1>1, WithinListener
  <2>. QED
    BY <1>1, <1>3, <2>1, StaysWithin
<1>5. /\ m_loggers' = m_loggers /\ new_val' = new_val /\ m_val' = m_val /\ cpc' = cpc /\ left' = left
      /\ held' = held /\ upc' = upc
  BY <1>1 DEF configVars, userVars
<1>6. /\ m_loggers \in [DOMAIN m_loggers -> DOMAIN logger] /\ Root \in DOMAIN logger
      /\ held \in [Users -> DOMAIN logger \cup {0}]
  BY DEF Pre, TypeOK
<1>7. \A m \in DOMAIN m_loggers : logger'[m_loggers'[m]] = logger[m_loggers[m]]
  BY <1>2, <1>5, <1>6
<1>8. NamesFit(l)'
  <2>1. \A m \in Renewed(l) : Defined(m)' /\ Applied(logger'[m_loggers'[m]], new_val'[l][m])
    BY <1>5, <1>7 DEF Pre, InvOf, NamesFit, Defined
  <2>2. \A m \in Pending(l) :
               /\ Defined(m)'
               /\ logger'[m_loggers'[m]].appenders = <<>> => m_val'[m].appenders = <<>>
    BY <1>5, <1>7 DEF Pre, InvOf, NamesFit, Defined
  <2>3. ASSUME NEW m \in DOMAIN m_loggers \ (Renewed(l) \cup Pending(l)) PROVE Unused(m)'
    <3>1. Unused(m) /\ logger'[m_loggers'[m]] = logger[m_loggers[m]] /\ m_loggers'[m] = m_loggers[m]
      BY <1>5, <1>7 DEF Pre, InvOf, NamesFit
    <3>. QED
      BY <3>1 DEF Unused
  <2>. QED
    BY <1>4, <1>5, <2>1, <2>2, <2>3 DEF NamesFit
<1>9. 1 \in 1..(Len(new_val[l][n].appenders) + 1)
  <2>1. new_val[l][n].appenders \in Seq(Appender_T)
    BY <1>1, Typing DEF Define_T
  <2>2. Len(new_val[l][n].appenders) \in Nat
    BY <2>1, LenProperties
  <2>. QED
    BY <2>2
<1>10. ListenerFits(l)'
  <2>1. o \in DOMAIN logger' /\ o # Root
    BY <1>2, <1>6
  <2>2. /\ \A m \in DOMAIN m_loggers : m_loggers[m] # o
        /\ \A u \in Users : held[u] # o
    BY <1>2, <1>6
  <2>. QED
    BY <1>1, <1>2, <1>3, <1>5, <1>9, <2>1, <2>2 DEF ListenerFits, Listening
<1>11. LoggersFit(l)'
  <2>1. \A m \in DOMAIN m_loggers' : logger'[m_loggers'[m]].name = m
    BY <1>5, <1>7 DEF Pre, InvOf, LoggersFit
  <2>2. logger'[Root].appenders # <<>>
    BY <1>2, <1>6 DEF Pre, InvOf, LoggersFit
  <2>3. ASSUME NEW p \in DOMAIN logger', logger'[p].appenders = <<>>, ~logger'[p].root
        PROVE  \/ logger'[p].level = Off
               \/ logger'[p].name \in DOMAIN m_loggers' /\ m_loggers'[logger'[p].name] = p
               \/ Unpublished(l, p)'
    <3>1. CASE p = o
      BY <1>1, <1>2, <1>5, <3>1 DEF Unpublished
    <3>2. CASE p # o
      <4>1. p \in DOMAIN logger /\ logger'[p] = logger[p] /\ ~Unpublished(l, p)
        BY <1>1, <1>2, <3>2 DEF Unpublished
      <4>. QED
        BY <1>5, <2>3, <4>1 DEF Pre, InvOf, LoggersFit
    <3>. QED
      BY <3>1, <3>2
  <2>4. \A u \in Users : upc'[u] # "out" => held'[u] # 0
    BY <1>5 DEF Pre, InvOf, LoggersFit
  <2>. QED
    BY <2>1, <2>2, <2>3, <2>4 DEF LoggersFit
<1>. QED
  BY <1>1, <1>8, <1>10, <1>11, ToldKept DEF InvOf

LEMMA PublishKeeps ==
    ASSUME NEW l, Pre(l), Publish(l) PROVE TypeOK' /\ InvOf(l)'
<1>1. PICK n, o, k : n = lis[l].name /\ o = lis[l].obj /\ k = lis[l].k
  OBVIOUS
<1>2. /\ TypeOK' /\ UNCHANGED <<configVars, userVars, logger>>
      /\ lis[l].at = "appenders" /\ k > Len(new_val[l][n].appenders)
      /\ DOMAIN m_loggers' = DOMAIN m_loggers \cup {n} /\ m_loggers'[n] = o
      /\ \A m \in DOMAIN m_loggers \ {n} : m_loggers'[m] = m_loggers[m]
      /\ lis'[l].at = "pick" /\ lis'[l].new = lis[l].new \ {n} /\ lis'[l].old = lis[l].old
  BY <1>1, PublishEffect
<1>3. /\ n \in lis[l].new /\ n \in DOMAIN new_val[l] /\ o \in DOMAIN logger /\ o # Root
      /\ logger[o].name = n /\ logger[o].level = new_val[l][n].level
      /\ k \in 1..(Len(new_val[l][n].appenders) + 1)
      /\ new_val[l][n].appenders \in Seq(Appender_T)
      /\ n \in DOMAIN m_val => m_loggers[n] = o
  <2>1. lis[l].at \in {"formatter", "appenders"} /\ n = lis[l].name /\ o = lis[l].obj
    BY <1>1, <1>2
  <2>2. /\ n \in lis[l].new /\ n \in DOMAIN new_val[l] /\ o \in DOMAIN logger /\ o # Root
        /\ logger[o].name = n /\ logger[o].level = new_val[l][n].level
        /\ lis[l].k \in 1..(Len(new_val[l][n].appenders) + 1)
        /\ new_val[l][n].appenders \in Seq(Appender_T)
        /\ n \in DOMAIN m_val => m_loggers[n] = o
    BY <2>1, UnderWork
  <2>. QED
    BY <1>1, <2>2
<1>4. Applied(logger[o], new_val[l][n])
  <2>1. Len(new_val[l][n].appenders) \in Nat
    BY <1>3, LenProperties
  <2>2. k = Len(new_val[l][n].appenders) + 1
    BY <1>2, <1>3, <2>1
  <2>3. Formatted(logger[o], new_val[l][n]) /\ Equipped(logger[o], new_val[l][n], k)
    BY <1>1, <1>2 DEF Pre, InvOf, ListenerFits
  <2>. QED
    BY <1>3, <2>2, <2>3 DEF Applied
<1>5. /\ cpc[l] = "calling" /\ Initer \in left[l] /\ ~Before(l)
      /\ lis[l].new \subseteq DOMAIN new_val[l] /\ lis[l].old \subseteq DOMAIN m_val \ DOMAIN new_val[l]
  BY <1>2, WithinListener DEF Pre, InvOf, ListenerFits
<1>6. ~Before(l)' /\ Renewed(l)' = Renewed(l) \cup {n} /\ Pending(l)' = Pending(l) \ {n}
  <2>1. /\ Renewed(l) = DOMAIN new_val[l] \ lis[l].new
        /\ Pending(l) = (lis[l].new \cap DOMAIN m_val) \cup lis[l].old
    BY <1>2, WithinListener
  <2>2. /\ Renewed(l)' = DOMAIN new_val[l] \ (lis[l].new \ {n})
        /\ Pending(l)' = ((lis[l].new \ {n}) \cap DOMAIN m_val) \cup lis[l].old
        /\ ~Before(l)'
    BY <1>2, <1>5, StaysWithin
  <2>. QED
    BY <1>3, <1>5, <2>1, <2>2
<1>7. /\ logger' = logger /\ new_val' = new_val /\ m_val' = m_val /\ cpc' = cpc /\ left' = left
      /\ held' = held /\ upc' = upc
  BY <1>2 DEF configVars, userVars
<1>8. n \notin Renewed(l)
  BY <1>2, <1>3, WithinListener
<1>9. NamesFit(l)'
  <2>1. ASSUME NEW m \in Renewed(l) PROVE Defined(m)' /\ Applied(logger'[m_loggers'[m]], new_val'[l][m])
    <3>1. Defined(m) /\ Applied(logger[m_loggers[m]], new_val[l][m]) /\ m # n
      BY <1>8 DEF Pre, InvOf, NamesFit
    <3>2. m \in DOMAIN m_loggers' /\ m_loggers'[m] = m_loggers[m]
      BY <1>2, <3>1 DEF Defined
    <3>. QED
      BY <1>7, <3>1, <3>2 DEF Defined
  <2>2. ASSUME NEW m \in Pending(l) \ {n}
        PROVE  /\ Defined(m)'
               /\ logger'[m_loggers'[m]].appenders = <<>> => m_val'[m].appenders = <<>>
    <3>1. Defined(m) /\ (logger[m_loggers[m]].appenders = <<>> => m_val[m].appenders = <<>>)
      BY DEF Pre, InvOf, NamesFit
    <3>2. m \in DOMAIN m_loggers' /\ m_loggers'[m] = m_loggers[m]
      BY <1>2, <3>1 DEF Defined
    <3>. QED
      BY <1>7, <3>1, <3>2 DEF Defined
  <2>3. ASSUME NEW m \in DOMAIN m_loggers \ (Renewed(l) \cup Pending(l)), m # n PROVE Unused(m)'
    <3>1. Unused(m) /\ logger'[m_loggers'[m]] = logger[m_loggers[m]] /\ m_loggers'[m] = m_loggers[m]
      BY <1>2, <1>7, <2>3 DEF Pre, InvOf, NamesFit
    <3>. QED
      BY <3>1 DEF Unused
  <2>4. Defined(n)' /\ Applied(logger'[m_loggers'[n]], new_val'[l][n])
    BY <1>2, <1>3, <1>4, <1>7 DEF Defined
  <2>5. \A m \in DOMAIN m_loggers' \ (Renewed(l)' \cup Pending(l)') :
            m \in DOMAIN m_loggers \ (Renewed(l) \cup Pending(l)) /\ m # n
    BY <1>2, <1>6
  <2>. QED
    BY <1>6, <2>1, <2>2, <2>3, <2>4, <2>5 DEF NamesFit
<1>10. ListenerFits(l)'
  BY <1>2, <1>5, <1>7 DEF ListenerFits, Listening
<1>11. LoggersFit(l)'
  <2>1. \A m \in DOMAIN m_loggers' : logger'[m_loggers'[m]].name = m
    BY <1>2, <1>3, <1>7 DEF Pre, InvOf, LoggersFit
  <2>2. logger'[Root].appenders # <<>>
    BY <1>7 DEF Pre, InvOf, LoggersFit
  <2>3. ASSUME NEW p \in DOMAIN logger', logger'[p].appenders = <<>>, ~logger'[p].root
        PROVE  \/ logger'[p].level = Off
               \/ logger'[p].name \in DOMAIN m_loggers' /\ m_loggers'[logger'[p].name] = p
    <3>1. CASE p = o
      BY <1>2, <1>3, <1>7, <3>1
    <3>2. CASE p # o
      <4>1. ~Unpublished(l, p) /\ p \in DOMAIN logger /\ logger[p].appenders = <<>> /\ ~logger[p].root
        BY <1>1, <1>7, <2>3, <3>2 DEF Unpublished
      <4>2. \/ logger[p].level = Off
            \/ logger[p].name \in DOMAIN m_loggers /\ m_loggers[logger[p].name] = p
        BY <4>1 DEF Pre, InvOf, LoggersFit
      <4>3. CASE logger[p].level = Off
        BY <1>7, <4>3
      <4>4. CASE /\ logger[p].name \in DOMAIN m_loggers /\ m_loggers[logger[p].name] = p
                 /\ logger[p].name # n
        BY <1>2, <1>7, <4>4
      <4>5. CASE /\ n \in DOMAIN m_loggers /\ m_loggers[n] = p /\ logger[p].name = n
        <5>1. n \notin DOMAIN m_val /\ p # Root
          BY <1>3, <3>2, <4>1, <4>5 DEF Pre, InvOf, LoggersFit
        <5>2. n \notin Pending(l)
          <6>1. Pending(l) = (lis[l].new \cap DOMAIN m_val) \cup lis[l].old
            BY <1>2, WithinListener
          <6>. QED
            BY <1>5, <5>1, <6>1
        <5>3. Unused(n)
          BY <1>8, <4>5, <5>2 DEF Pre, InvOf, NamesFit
        <5>. QED
          BY <1>7, <4>1, <4>5, <5>1, <5>3 DEF Unused
      <4>. QED
        BY <4>2, <4>3, <4>4, <4>5
    <3>. QED
      BY <3>1, <3>2
  <2>4. \A u \in Users : upc'[u] # "out" => held'[u] # 0
    BY <1>7 DEF Pre, InvOf, LoggersFit
  <2>. QED
    BY <2>1, <2>2, <2>3, <2>4 DEF LoggersFit
<1>. QED
  BY <1>2, <1>9, <1>10, <1>11, ToldKept DEF InvOf

LEMMA LeaveKeeps ==
    ASSUME NEW l, Pre(l), LeaveListener(l) PROVE TypeOK' /\ InvOf(l)'
<1>1. /\ TypeOK' /\ UNCHANGED <<userVars, logger, m_loggers>>
      /\ UNCHANGED <<m_val, m_cbs, cpc, new_val, ids, late, loads>>
      /\ lis[l].at = "pick" /\ lis[l].new = {} /\ lis[l].old = {}
      /\ cpc[l] = "calling" /\ left'[l] = left[l] \ {Initer}
      /\ told'[Initer] = new_val[l] /\ \A k \in Listeners \ {Initer} : told'[k] = told[k]
      /\ lis'[l].at = "out" /\ lis'[l].new = {} /\ lis'[l].old = {}
  BY LeaveEffect
<1>2. ~Before(l) /\ Renewed(l) = DOMAIN new_val[l] /\ Pending(l) = {}
  BY <1>1, WithinListener
<1>3. ~Before(l)' /\ Renewed(l)' = DOMAIN new_val[l] /\ Pending(l)' = {}
  <2>1. ~Before(l)'
    BY <1>1 DEF Before
  <2>. QED
    BY <1>1, <2>1 DEF Renewed, Pending
<1>4. NamesFit(l)'
  <2>1. \A m \in Renewed(l) : Defined(m)' /\ Applied(logger'[m_loggers'[m]], new_val'[l][m])
    BY <1>1 DEF Pre, InvOf, NamesFit, Defined
  <2>2. \A m \in DOMAIN m_loggers' \ Renewed(l) : Unused(m)'
    BY <1>1, <1>2 DEF Pre, InvOf, NamesFit, Unused
  <2>. QED
    BY <1>2, <1>3, <2>1, <2>2 DEF NamesFit
<1>5. ListenerFits(l)'
  BY <1>1 DEF ListenerFits, Listening
<1>6. LoggersFit(l)'
  BY <1>1 DEF Pre, InvOf, LoggersFit, Unpublished, userVars
<1>7. Told(l)'
  <2>1. m_cbs \subseteq Listeners
    BY DEF Pre, TypeOK, ConfigTypeOK
  <2>. QED
    BY <1>1, <2>1 DEF Pre, InvOf, Told
<1>. QED
  BY <1>1, <1>4, <1>5, <1>6, <1>7 DEF InvOf

\* A define that has not changed: the null pointer.
LEMMA PickSameKeeps ==
    ASSUME NEW l, Pre(l), PickDefine(l), NEW n, n = Min(lis[l].new), n \in DOMAIN m_val,
           m_val[n] = new_val[l][n]
    PROVE  TypeOK' /\ InvOf(l)'
<1>1. UNCHANGED <<configVars, dumpVars, userVars, logger, m_loggers, lis>> /\ crash' = TRUE
  BY DEF PickDefine, NewIsUnlisted
<1>2. TypeOK'
  BY <1>1 DEF Pre, TypeOK, ConfigTypeOK, configVars, dumpVars, userVars
<1>3. Before(l)' = Before(l) /\ Renewed(l)' = Renewed(l) /\ Pending(l)' = Pending(l)
  BY <1>1 DEF Before, Renewed, Pending, configVars
<1>4. NamesFit(l)'
  BY <1>1, <1>3 DEF Pre, InvOf, NamesFit, Defined, Unused, configVars
<1>5. ListenerFits(l)'
  BY <1>1 DEF Pre, InvOf, ListenerFits, Listening, configVars, userVars
<1>6. LoggersFit(l)'
  BY <1>1 DEF Pre, InvOf, LoggersFit, Unpublished, configVars, userVars
<1>. QED
  BY <1>1, <1>2, <1>4, <1>5, <1>6, ToldKept DEF InvOf

LEMMA ListenerKeeps ==
    ASSUME NEW l, Pre(l), ListenerStep(l) PROVE TypeOK' /\ InvOf(l)'
<1>1. CASE PickDefine(l)
  <2>1. PICK n : n = Min(lis[l].new)
    OBVIOUS
  <2>. QED
    BY <1>1, <2>1, PickNewKeeps, PickChangedKeeps, PickSameKeeps
<1>. QED
  BY <1>1, EnterKeeps, SetFormatterKeeps, AddAppenderKeeps, PublishKeeps, SilenceKeeps,
     ClearKeeps, LeaveKeeps DEF ListenerStep

-----------------------------------------------------------------------------
(* The steps of setValue, and the listeners' registration *)

\* A step of Config, taken while the loader is not in LogIniter's listener.
LEMMA ConfigFrame ==
    ASSUME NEW l, Pre(l), UNCHANGED logVars, lis[l].at = "out",
           ConfigTypeOK', NamesFit(l)', Told(l)'
    PROVE  TypeOK' /\ InvOf(l)'
<1>1. TypeOK'
  BY DEF Pre, TypeOK, logVars, dumpVars, userVars
<1>2. ListenerFits(l)'
  BY DEF Pre, InvOf, ListenerFits, Listening, logVars
<1>3. LoggersFit(l)'
  BY DEF Pre, InvOf, LoggersFit, Unpublished, logVars, userVars
<1>. QED
  BY <1>1, <1>2, <1>3 DEF InvOf

\* Unless the value is stored, the names fit as they did.
LEMMA SamePlace ==
    ASSUME NEW l, Pre(l), UNCHANGED logVars, m_val' = m_val, Before(l)' <=> Before(l),
           Before(l) \/ new_val'[l] = new_val[l]
    PROVE  NamesFit(l)'
<1>1. Renewed(l)' = Renewed(l) /\ Pending(l)' = Pending(l)
  BY DEF Renewed, Pending, logVars
<1>2. CASE Before(l)
  <2>1. Renewed(l) = {}
    BY <1>2 DEF Renewed
  <2>. QED
    BY <1>1, <1>2, <2>1 DEF Pre, InvOf, NamesFit, Defined, Unused, logVars
<1>3. CASE ~Before(l)
  BY <1>1, <1>3 DEF Pre, InvOf, NamesFit, Defined, Unused, logVars
<1>. QED
  BY <1>2, <1>3

\* Outside its call no listener is at work.
LEMMA NotCalling ==
    ASSUME NEW l, Pre(l), cpc[l] # "calling" \/ Initer \notin left[l] PROVE lis[l].at = "out"
  BY DEF Pre, InvOf, ListenerFits, Listening

LEMMA ConfigTyping ==
    ASSUME NEW l, Pre(l)
    PROVE  /\ l \in Loaders /\ ConfigTypeOK /\ m_val \in Values
           /\ cpc \in [Loaders -> {"out", "found", "calling", "storing"}]
           /\ new_val \in [Loaders -> Values] /\ left \in [Loaders -> SUBSET Listeners]
           /\ told \in [Listeners -> Values] /\ m_cbs \subseteq Listeners
           /\ DefaultVal \in Values /\ Initer \in m_cbs
  BY FromStrFacts DEF Pre, TypeOK, ConfigTypeOK, InvOf, Told

LEMMA LoadKeeps ==
    ASSUME NEW l, Pre(l), NEW key, NEW t, Load(l, key, t), UNCHANGED logVars
    PROVE  TypeOK' /\ InvOf(l)'
<1>1. /\ cpc[l] = "out" /\ loads < MaxLoads /\ loads' = loads + 1
      /\ UNCHANGED <<m_val, m_cbs, left, ids, told, late>>
      /\ \/ UNCHANGED <<cpc, new_val>>
         \/ /\ t \in DOMAIN FromStr
            /\ cpc' = [cpc EXCEPT ![l] = "found"]
            /\ new_val' = [new_val EXCEPT ![l] = FromStr[t]]
  BY DEF Load
<1>2. /\ cpc' \in [Loaders -> {"out", "found", "calling", "storing"}]
      /\ new_val' \in [Loaders -> Values] /\ cpc'[l] \in {"out", "found"}
  BY <1>1, ConfigTyping, FromStrFacts
<1>3. loads' \in 0..MaxLoads
  BY <1>1, ConfigAssumption, ConfigTyping DEF ConfigTypeOK
<1>4. ConfigTypeOK'
  BY <1>1, <1>2, <1>3, ConfigTyping DEF ConfigTypeOK
<1>5. lis[l].at = "out"
  BY <1>1, NotCalling
<1>6. Before(l) /\ Before(l)'
  BY <1>1, <1>2 DEF Before
<1>7. NamesFit(l)'
  BY <1>1, <1>6, SamePlace
<1>8. Told(l)'
  BY <1>1, <1>2 DEF Pre, InvOf, Told
<1>. QED
  BY <1>4, <1>5, <1>7, <1>8, ConfigFrame

LEMMA CompareKeeps ==
    ASSUME NEW l, Pre(l), CompareValue(l), UNCHANGED logVars PROVE TypeOK' /\ InvOf(l)'
<1>1. /\ cpc[l] = "found" /\ UNCHANGED <<m_val, m_cbs, ids, told, late, loads>>
      /\ \/ /\ cpc' = [cpc EXCEPT ![l] = "out"]
            /\ new_val' = [new_val EXCEPT ![l] = DefaultVal]
            /\ UNCHANGED left
         \/ /\ cpc' = [cpc EXCEPT ![l] = "calling"]
            /\ left' = [left EXCEPT ![l] = m_cbs]
            /\ UNCHANGED new_val
  BY DEF CompareValue, Return
<1>2. /\ cpc' \in [Loaders -> {"out", "found", "calling", "storing"}]
      /\ new_val' \in [Loaders -> Values] /\ left' \in [Loaders -> SUBSET Listeners]
      /\ cpc'[l] = "out" \/ (cpc'[l] = "calling" /\ left'[l] = m_cbs)
  BY <1>1, ConfigTyping
<1>4. ConfigTypeOK'
  BY <1>1, <1>2, ConfigTyping DEF ConfigTypeOK
<1>5. lis[l].at = "out" /\ lis'[l].at = "out"
  BY <1>1, NotCalling DEF logVars
<1>6. Before(l) /\ Before(l)'
  BY <1>1, <1>2, <1>5, ConfigTyping DEF Before
<1>7. NamesFit(l)'
  BY <1>1, <1>6, SamePlace
<1>8. Told(l)'
  BY <1>1, <1>2 DEF Pre, InvOf, Told
<1>. QED
  BY <1>4, <1>5, <1>7, <1>8, ConfigFrame

LEMMA CalledKeeps ==
    ASSUME NEW l, Pre(l), NEW k \in Listeners \ {Initer}, Called(l, k), lis[l].at = "out",
           UNCHANGED logVars
    PROVE  TypeOK' /\ InvOf(l)'
<1>1. /\ cpc[l] = "calling" /\ k \in left[l]
      /\ left' = [left EXCEPT ![l] = @ \ {k}]
      /\ told' = [told EXCEPT ![k] = new_val[l]]
      /\ UNCHANGED <<m_val, m_cbs, cpc, new_val, ids, late, loads>>
  BY DEF Called
<1>2. /\ left' \in [Loaders -> SUBSET Listeners] /\ left'[l] = left[l] \ {k}
      /\ told' \in [Listeners -> Values] /\ told'[k] = new_val[l]
      /\ \A j \in Listeners \ {k} : told'[j] = told[j]
  BY <1>1, ConfigTyping
<1>4. ConfigTypeOK'
  BY <1>1, <1>2, ConfigTyping DEF ConfigTypeOK
<1>6. Before(l)' <=> Before(l)
  BY <1>1, <1>2 DEF Before, logVars
<1>7. NamesFit(l)'
  BY <1>1, <1>6, SamePlace
<1>8. Told(l)'
  BY <1>1, <1>2, ConfigTyping DEF Pre, InvOf, Told
<1>. QED
  BY <1>4, <1>7, <1>8, ConfigFrame

LEMMA EndCallsKeeps ==
    ASSUME NEW l, Pre(l), EndCalls(l), UNCHANGED logVars PROVE TypeOK' /\ InvOf(l)'
<1>1. /\ cpc[l] = "calling" /\ left[l] = {}
      /\ cpc' = [cpc EXCEPT ![l] = "storing"]
      /\ UNCHANGED <<m_val, m_cbs, new_val, left, ids, told, late, loads>>
  BY DEF EndCalls
<1>2. cpc' \in [Loaders -> {"out", "found", "calling", "storing"}] /\ cpc'[l] = "storing"
  BY <1>1, ConfigTyping
<1>4. ConfigTypeOK'
  BY <1>1, <1>2, ConfigTyping DEF ConfigTypeOK
<1>5. lis[l].at = "out"
  BY <1>1, NotCalling
<1>6. ~Before(l)' /\ ~Before(l)
  BY <1>1, <1>2 DEF Before
<1>7. NamesFit(l)'
  BY <1>1, <1>6, SamePlace
<1>8. Told(l)'
  BY <1>1, <1>2 DEF Pre, InvOf, Told
<1>. QED
  BY <1>4, <1>5, <1>7, <1>8, ConfigFrame

\* A logger as its define says has an appender if the define has one.
LEMMA AppliedAppenders ==
    ASSUME NEW o \in Logger_T, NEW d \in Define_T, Applied(o, d), o.appenders = <<>>
    PROVE  d.appenders = <<>>
<1>1. d.appenders \in Seq(Appender_T)
  BY DEF Define_T
<1>2. Len(d.appenders) \in Nat /\ Len(o.appenders) = 0
  BY <1>1, LenProperties
<1>3. Len(o.appenders) - ((Len(d.appenders) + 1) - 1) >= 0
  BY DEF Applied, Equipped
<1>4. Len(d.appenders) = 0
  BY <1>2, <1>3
<1>. QED
  BY <1>1, <1>4, EmptySeq

LEMMA StoreKeeps ==
    ASSUME NEW l, Pre(l), Store(l), UNCHANGED logVars PROVE TypeOK' /\ InvOf(l)'
<1>1. /\ cpc[l] = "storing" /\ m_val' = new_val[l]
      /\ cpc' = [cpc EXCEPT ![l] = "out"]
      /\ new_val' = [new_val EXCEPT ![l] = DefaultVal]
      /\ UNCHANGED <<m_cbs, left, ids, told, late, loads>>
  BY DEF Store, Stores, Return
<1>2. /\ cpc' \in [Loaders -> {"out", "found", "calling", "storing"}] /\ cpc'[l] = "out"
      /\ new_val' \in [Loaders -> Values] /\ m_val' \in Values
  BY <1>1, ConfigTyping
<1>4. ConfigTypeOK'
  BY <1>1, <1>2, ConfigTyping DEF ConfigTypeOK
<1>5. lis[l].at = "out" /\ lis[l].new = {} /\ lis[l].old = {}
  BY <1>1, NotCalling DEF Pre, InvOf, ListenerFits, Listening
<1>6. Renewed(l) = DOMAIN new_val[l] /\ Pending(l) = {}
  BY <1>1, <1>5 DEF Before, Renewed, Pending
<1>7. Renewed(l)' = {} /\ Pending(l)' = DOMAIN new_val[l]
  BY <1>1, <1>2 DEF Before, Renewed, Pending
<1>8. logger' = logger /\ m_loggers' = m_loggers
  BY DEF logVars
<1>9. ASSUME NEW n \in DOMAIN new_val[l]
      PROVE  /\ Defined(n)' /\ Applied(logger'[m_loggers'[n]], m_val'[n])
             /\ logger'[m_loggers'[n]].appenders = <<>> => m_val'[n].appenders = <<>>
  <2>1. Defined(n) /\ Applied(logger[m_loggers[n]], new_val[l][n])
    BY <1>6 DEF Pre, InvOf, NamesFit
  <2>2. logger[m_loggers[n]] \in Logger_T /\ new_val[l][n] \in Define_T
    BY <2>1, MapTyped, Typing DEF Defined
  <2>3. logger[m_loggers[n]].appenders = <<>> => new_val[l][n].appenders = <<>>
    BY <2>1, <2>2, AppliedAppenders
  <2>. QED
    BY <1>1, <1>8, <2>1, <2>3 DEF Defined
<1>10. \A n \in DOMAIN m_loggers' \ DOMAIN new_val[l] : Unused(n)'
  BY <1>6, <1>8 DEF Pre, InvOf, NamesFit, Unused
<1>11. NamesFit(l)'
  BY <1>7, <1>9, <1>10 DEF NamesFit
<1>12. Told(l)'
  BY <1>1, <1>2 DEF Pre, InvOf, Told
<1>. QED
  BY <1>4, <1>5, <1>11, <1>12, ConfigFrame

LEMMA AddListenerKeeps ==
    ASSUME NEW l, Pre(l), NEW k \in Listeners \ Static, AddListener(k), UNCHANGED logVars
    PROVE  TypeOK' /\ InvOf(l)'
<1>1. /\ k \in ids /\ Readers = {}
      /\ ids' = ids \ {k} /\ m_cbs' = m_cbs \cup {k}
      /\ told' = [told EXCEPT ![k] = m_val]
      /\ late' = IF \E m \in Loaders : cpc[m] = "storing" THEN late \cup {k} ELSE late
      /\ UNCHANGED <<m_val, cpc, new_val, left, loads>>
  BY DEF AddListener, CanWrite
<1>2. /\ told' \in [Listeners -> Values] /\ told'[k] = m_val
      /\ \A j \in Listeners \ {k} : told'[j] = told[j]
  BY <1>1, ConfigTyping
<1>3. cpc[l] # "calling" /\ (cpc[l] = "storing" => k \in late') /\ late \subseteq late'
  BY <1>1, ConfigTyping DEF Readers
<1>3a. m_cbs' \subseteq Listeners \ ids' /\ late' \subseteq Listeners /\ ids' \subseteq Listeners
  BY <1>1, ConfigTyping DEF ConfigTypeOK
<1>4. ConfigTypeOK'
  BY <1>1, <1>2, <1>3a, ConfigTyping DEF ConfigTypeOK
<1>5. lis[l].at = "out"
  BY <1>3, NotCalling
<1>6. Before(l)' <=> Before(l)
  BY <1>1 DEF Before, logVars
<1>7. NamesFit(l)'
  BY <1>1, <1>6, SamePlace
<1>8. Told(l)'
  BY <1>1, <1>2, <1>3, ConfigTyping DEF Pre, InvOf, Told
<1>. QED
  BY <1>4, <1>5, <1>7, <1>8, ConfigFrame

LEMMA DelListenerKeeps ==
    ASSUME NEW l, Pre(l), NEW k \in Listeners \ Static, DelListener(k), UNCHANGED logVars
    PROVE  TypeOK' /\ InvOf(l)'
<1>1. /\ k \in m_cbs /\ Readers = {}
      /\ m_cbs' = m_cbs \ {k}
      /\ told' = [told EXCEPT ![k] = DefaultVal]
      /\ late' = late \ {k}
      /\ UNCHANGED <<m_val, cpc, new_val, left, ids, loads>>
  BY DEF DelListener, CanWrite
<1>2. /\ told' \in [Listeners -> Values]
      /\ \A j \in Listeners \ {k} : told'[j] = told[j]
  BY <1>1, ConfigTyping
<1>3. cpc[l] # "calling" /\ k # Initer
  BY <1>1, ConfigTyping, LogAssumption DEF Readers
<1>4. ConfigTypeOK'
  BY <1>1, <1>2, ConfigTyping DEF ConfigTypeOK
<1>5. lis[l].at = "out"
  BY <1>3, NotCalling
<1>6. Before(l)' <=> Before(l)
  BY <1>1 DEF Before, logVars
<1>7. NamesFit(l)'
  BY <1>1, <1>6, SamePlace
<1>8. Told(l)'
  BY <1>1, <1>2, <1>3, ConfigTyping DEF Pre, InvOf, Told
<1>. QED
  BY <1>4, <1>5, <1>7, <1>8, ConfigFrame

-----------------------------------------------------------------------------
(* The users and the dumpers *)

\* What the others see of a logger.
SameLogger(p, o) ==
    /\ p.name = o.name /\ p.level = o.level /\ p.formatter = o.formatter
    /\ p.appenders = o.appenders /\ p.root = o.root

LEMMA SameApplied ==
    ASSUME NEW p, NEW o, NEW d, NEW k, SameLogger(p, o)
    PROVE  /\ Formatted(p, d) <=> Formatted(o, d)
           /\ Equipped(p, d, k) <=> Equipped(o, d, k)
           /\ Applied(p, d) <=> Applied(o, d)
  BY DEF SameLogger, Formatted, Equipped, Applied

\* Users lock loggers, and fetching one may add a logger that falls back to the
\* root logger.
LoggersGrow ==
    /\ DOMAIN logger \subseteq DOMAIN logger'
    /\ \A o \in DOMAIN logger : SameLogger(logger'[o], logger[o])
    /\ \A o \in DOMAIN logger' \ DOMAIN logger : logger'[o].root
    /\ DOMAIN m_loggers \subseteq DOMAIN m_loggers'
    /\ \A n \in DOMAIN m_loggers : m_loggers'[n] = m_loggers[n]
    /\ \A n \in DOMAIN m_loggers' \ DOMAIN m_loggers :
          /\ m_loggers'[n] \in DOMAIN logger' \ DOMAIN logger
          /\ logger'[m_loggers'[n]].name = n
    /\ \A u \in Users : /\ held'[u] = held[u] \/ \E n \in DOMAIN m_loggers' : held'[u] = m_loggers'[n]
                        /\ upc'[u] # "out" => held'[u] # 0

LEMMA UserFrame ==
    ASSUME NEW l, Pre(l), UNCHANGED configVars, lis' = lis, LoggersGrow PROVE InvOf(l)'
<1>1. /\ new_val' = new_val /\ m_val' = m_val /\ cpc' = cpc /\ left' = left
  BY DEF configVars
<1>2. m_loggers \in [DOMAIN m_loggers -> DOMAIN logger] /\ Root \in DOMAIN logger
  BY DEF Pre, TypeOK
<1>3. (Before(l)' <=> Before(l)) /\ Renewed(l)' = Renewed(l) /\ Pending(l)' = Pending(l)
  BY <1>1 DEF Before, Renewed, Pending
<1>4. \A n \in DOMAIN m_loggers : /\ m_loggers'[n] = m_loggers[n] /\ n \in DOMAIN m_loggers'
                                  /\ SameLogger(logger'[m_loggers'[n]], logger[m_loggers[n]])
  BY <1>2 DEF LoggersGrow
<1>5. NamesFit(l)'
  <2>1. ASSUME NEW n \in Renewed(l) PROVE Defined(n)' /\ Applied(logger'[m_loggers'[n]], new_val'[l][n])
    <3>1. Defined(n) /\ Applied(logger[m_loggers[n]], new_val[l][n])
      BY DEF Pre, InvOf, NamesFit
    <3>. QED
      BY <1>1, <1>4, <3>1, SameApplied DEF Defined
  <2>2. ASSUME NEW n \in Pending(l)
        PROVE  /\ Defined(n)'
               /\ logger'[m_loggers'[n]].appenders = <<>> => m_val'[n].appenders = <<>>
               /\ Before(l) => Applied(logger'[m_loggers'[n]], m_val'[n])
    <3>1. /\ Defined(n) /\ (logger[m_loggers[n]].appenders = <<>> => m_val[n].appenders = <<>>)
          /\ Before(l) => Applied(logger[m_loggers[n]], m_val[n])
      BY DEF Pre, InvOf, NamesFit
    <3>2. SameLogger(logger'[m_loggers'[n]], logger[m_loggers[n]])
      BY <1>4, <3>1 DEF Defined
    <3>3. Defined(n)'
      BY <1>4, <3>1 DEF Defined
    <3>4. Before(l) => Applied(logger'[m_loggers'[n]], m_val'[n])
      BY <1>1, <3>1, <3>2, SameApplied
    <3>5. logger'[m_loggers'[n]].appenders = logger[m_loggers[n]].appenders
      BY <3>2 DEF SameLogger
    <3>. QED
      BY <1>1, <3>1, <3>3, <3>4, <3>5
  <2>3. ASSUME NEW n \in DOMAIN m_loggers' \ (Renewed(l) \cup Pending(l)) PROVE Unused(n)'
    <3>1. CASE n \in DOMAIN m_loggers
      <4>1. Unused(n)
        BY <3>1 DEF Pre, InvOf, NamesFit
      <4>. QED
        BY <1>4, <3>1, <4>1 DEF Unused, SameLogger
    <3>2. CASE n \notin DOMAIN m_loggers
      BY <3>2 DEF Unused, LoggersGrow
    <3>. QED
      BY <3>1, <3>2
  <2>. QED
    BY <1>3, <2>1, <2>2, <2>3 DEF NamesFit
<1>6. ListenerFits(l)'
  <2>. DEFINE n == lis[l].name
              o == lis[l].obj
  <2>1. CASE lis[l].at \in {"formatter", "appenders"}
    <3>1. /\ n \in lis[l].new /\ o \in DOMAIN logger /\ o # Root
          /\ logger[o].name = n /\ logger[o].level = new_val[l][n].level
          /\ lis[l].k \in 1..(Len(new_val[l][n].appenders) + 1)
          /\ lis[l].at = "formatter" => lis[l].k = 1
          /\ lis[l].at = "appenders" => /\ Formatted(logger[o], new_val[l][n])
                                        /\ Equipped(logger[o], new_val[l][n], lis[l].k)
      BY <2>1 DEF Pre, InvOf, ListenerFits
    <3>2. /\ n \in DOMAIN m_val => m_loggers[n] = o
          /\ n \notin DOMAIN m_val =>
                  /\ \A m \in DOMAIN m_loggers : m_loggers[m] # o
                  /\ \A u \in Users : held[u] # o
      BY <2>1 DEF Pre, InvOf, ListenerFits
    <3>3. SameLogger(logger'[o], logger[o]) /\ o \in DOMAIN logger'
      BY <3>1 DEF LoggersGrow
    <3>4. lis[l].at = "appenders" => /\ Formatted(logger'[o], new_val[l][n])
                                     /\ Equipped(logger'[o], new_val[l][n], lis[l].k)
      BY <3>1, <3>3, SameApplied
    <3>5. n \in DOMAIN m_val => m_loggers'[n] = o
      <4>1. n \in DOMAIN m_val => n \in DOMAIN m_loggers
        <5>1. n \in DOMAIN m_val => n \in Pending(l)
          BY <2>1, <3>1, WithinListener
        <5>. QED
          BY <5>1 DEF Pre, InvOf, NamesFit, Defined
      <4>. QED
        BY <1>4, <3>2, <4>1
    <3>6. n \notin DOMAIN m_val =>
                  /\ \A m \in DOMAIN m_loggers' : m_loggers'[m] # o
                  /\ \A u \in Users : held'[u] # o
      <4>1. n \notin DOMAIN m_val => \A m \in DOMAIN m_loggers' : m_loggers'[m] # o
        BY <1>4, <3>1, <3>2 DEF LoggersGrow
      <4>. QED
        BY <3>2, <4>1 DEF LoggersGrow
    <3>7. logger'[o].name = n /\ logger'[o].level = new_val[l][n].level
      BY <3>1, <3>3 DEF SameLogger
    <3>8. /\ cpc[l] = "calling" /\ Initer \in left[l]
          /\ lis[l].new \subseteq DOMAIN new_val[l] /\ lis[l].old \subseteq DOMAIN m_val \ DOMAIN new_val[l]
      BY <2>1, WithinListener DEF Pre, InvOf, ListenerFits
    <3>. QED
      BY <1>1, <2>1, <3>1, <3>3, <3>4, <3>5, <3>6, <3>7, <3>8 DEF ListenerFits, Listening
  <2>2. CASE lis[l].at = "clear"
    <3>1. /\ n \in lis[l].old /\ o = m_loggers[n] /\ logger[o].level = Off /\ lis[l].new = {}
      BY <2>2 DEF Pre, InvOf, ListenerFits
    <3>2. n \in DOMAIN m_loggers
      <4>1. n \in Pending(l)
        BY <2>2, <3>1, WithinListener
      <4>. QED
        BY <4>1 DEF Pre, InvOf, NamesFit, Defined
    <3>3. o = m_loggers'[n] /\ logger'[o].level = Off
      BY <1>4, <3>1, <3>2 DEF SameLogger
    <3>4. /\ cpc[l] = "calling" /\ Initer \in left[l]
          /\ lis[l].new \subseteq DOMAIN new_val[l] /\ lis[l].old \subseteq DOMAIN m_val \ DOMAIN new_val[l]
      BY <2>2, WithinListener DEF Pre, InvOf, ListenerFits
    <3>. QED
      BY <1>1, <2>2, <3>1, <3>3, <3>4 DEF ListenerFits, Listening
  <2>3. CASE lis[l].at \notin {"formatter", "appenders", "clear"}
    BY <1>1, <2>3 DEF Pre, InvOf, ListenerFits, Listening
  <2>. QED
    BY <2>1, <2>2, <2>3
<1>7. LoggersFit(l)'
  <2>1. \A n \in DOMAIN m_loggers' : logger'[m_loggers'[n]].name = n
    <3>1. \A n \in DOMAIN m_loggers : logger[m_loggers[n]].name = n
      BY DEF Pre, InvOf, LoggersFit
    <3>. QED
      BY <1>4, <3>1 DEF LoggersGrow, SameLogger
  <2>2. logger'[Root].appenders # <<>>
    BY <1>2 DEF Pre, InvOf, LoggersFit, LoggersGrow, SameLogger
  <2>3. ASSUME NEW p \in DOMAIN logger', logger'[p].appenders = <<>>, ~logger'[p].root
        PROVE  \/ logger'[p].level = Off
               \/ logger'[p].name \in DOMAIN m_loggers' /\ m_loggers'[logger'[p].name] = p
               \/ Unpublished(l, p)'
    <3>1. p \in DOMAIN logger /\ SameLogger(logger'[p], logger[p])
      BY <2>3 DEF LoggersGrow
    <3>2. \/ logger[p].level = Off
          \/ logger[p].name \in DOMAIN m_loggers /\ m_loggers[logger[p].name] = p
          \/ Unpublished(l, p)
      BY <2>3, <3>1 DEF Pre, InvOf, LoggersFit, SameLogger
    <3>3. Unpublished(l, p) => Unpublished(l, p)'
      BY <1>1 DEF Unpublished
    <3>. QED
      BY <1>4, <3>1, <3>2, <3>3 DEF SameLogger
  <2>4. \A u \in Users : upc'[u] # "out" => held'[u] # 0
    BY DEF LoggersGrow
  <2>. QED
    BY <2>1, <2>2, <2>3, <2>4 DEF LoggersFit
<1>. QED
  BY <1>5, <1>6, <1>7, ToldKept DEF InvOf

LEMMA UserTypes ==
    ASSUME TypeOK, UNCHANGED <<configVars, dumpVars, lis, crash>>,
           logger' \in Seq(Logger_T), DOMAIN logger \subseteq DOMAIN logger',
           m_loggers' \in [DOMAIN m_loggers' -> DOMAIN logger'],
           DOMAIN m_loggers \subseteq DOMAIN m_loggers', DOMAIN m_loggers' \subseteq AllNames,
           upc' \in [Users -> {"out", "got", "entered", "checked", "root"}],
           held' \in [Users -> DOMAIN logger' \cup {0}],
           msg' \in [Users -> MsgLevels \cup {0}], calls' \in [Users -> 0..MaxCalls],
           res' \in [Users -> {"none", "written", "filtered", "dropped"}]
    PROVE  TypeOK'
<1>1. ConfigTypeOK'
  BY DEF TypeOK, ConfigTypeOK, configVars
<1>2. lis' \in [Loaders -> Listener_T(DOMAIN logger')]
  <2>1. lis \in [Loaders -> Listener_T(DOMAIN logger)]
    BY DEF TypeOK
  <2>2. PICK D, E : D = DOMAIN logger /\ E = DOMAIN logger'
    OBVIOUS
  <2>3. \A r \in Listener_T(D) : r \in Listener_T(E)
    BY <2>2, ListenerGrows
  <2>. QED
    BY <2>1, <2>2, <2>3
<1>3. Root \in DOMAIN logger'
  BY DEF TypeOK
<1>4. todo' \subseteq DOMAIN m_loggers' /\ mgr' \in Dumpers \cup {None} /\ dumped' \subseteq Dumpers
  BY DEF TypeOK, dumpVars
<1>5. crash' \in BOOLEAN
  BY DEF TypeOK
<1>. QED
  BY <1>1, <1>2, <1>3, <1>4, <1>5 DEF TypeOK, AllNames

\* The types of what a user keeps.
LEMMA UserTyping ==
    ASSUME TypeOK
    PROVE  /\ upc \in [Users -> {"out", "got", "entered", "checked", "root"}]
           /\ held \in [Users -> DOMAIN logger \cup {0}]
           /\ msg \in [Users -> MsgLevels \cup {0}] /\ calls \in [Users -> 0..MaxCalls]
           /\ res \in [Users -> {"none", "written", "filtered", "dropped"}]
           /\ logger \in Seq(Logger_T)
           /\ m_loggers \in [DOMAIN m_loggers -> DOMAIN logger] /\ DOMAIN m_loggers \subseteq AllNames
  BY DEF TypeOK, AllNames

\* Lock and unlock.
LEMMA Locking ==
    ASSUME NEW s \in Seq(Logger_T), NEW o \in DOMAIN s, NEW x \in Users \cup {None}
    PROVE  LET t == [s EXCEPT ![o].lock = x] IN
           /\ t \in Seq(Logger_T) /\ DOMAIN t = DOMAIN s
           /\ \A p \in DOMAIN s : SameLogger(t[p], s[p])
<1>1. PICK r \in Logger_T : r = s[o]
  OBVIOUS
<1>2. PICK q : q = [r EXCEPT !.lock = x]
  OBVIOUS
<1>3. q \in Logger_T /\ SameLogger(q, r)
  BY <1>2 DEF Logger_T, SameLogger
<1>4. PICK t : t = [s EXCEPT ![o] = q]
  OBVIOUS
<1>5. /\ t \in Seq(Logger_T) /\ DOMAIN t = DOMAIN s /\ t[o] = q
      /\ \A p \in DOMAIN s \ {o} : t[p] = s[p]
  BY <1>3, <1>4, LoggerAssigned
<1>6. \A p \in DOMAIN s : SameLogger(t[p], s[p])
  BY <1>1, <1>3, <1>5 DEF SameLogger
<1>7. t = [s EXCEPT ![o].lock = x]
  BY <1>1, <1>2, <1>4
<1>. QED
  BY <1>5, <1>6, <1>7

LEMMA SameItself == ASSUME NEW o PROVE SameLogger(o, o)
  BY DEF SameLogger

LEMMA FetchKeeps ==
    ASSUME NEW l, Pre(l), NEW u \in Users, NEW n \in Names, NEW level \in MsgLevels,
           FetchLogger(u, n, level)
    PROVE  TypeOK' /\ InvOf(l)' /\ res'[u] # "dropped" /\ \A w \in Users \ {u} : res'[w] = res[w]
<1>1. /\ upc[u] = "out" /\ calls[u] < MaxCalls
      /\ logger' = Got(n) /\ m_loggers' = Registered(n)
      /\ held' = [held EXCEPT ![u] = Found(n)]
      /\ msg' = [msg EXCEPT ![u] = level]
      /\ upc' = [upc EXCEPT ![u] = "got"]
      /\ calls' = [calls EXCEPT ![u] = @ + 1]
      /\ res' = [res EXCEPT ![u] = "none"]
      /\ UNCHANGED <<configVars, dumpVars, lis, crash>>
  BY DEF FetchLogger, CanCall
<1>2. TypeOK /\ n \in AllNames
  BY DEF Pre, AllNames
<1>3. /\ logger' \in Seq(Logger_T) /\ DOMAIN logger \subseteq DOMAIN logger'
      /\ \A o \in DOMAIN logger : logger'[o] = logger[o]
      /\ Found(n) \in DOMAIN logger'
      /\ \A o \in DOMAIN logger' \ DOMAIN logger : logger'[o] = NewLogger(n, TRUE) /\ o = Found(n)
      /\ n \notin DOMAIN m_loggers => Found(n) \in DOMAIN logger' \ DOMAIN logger
      /\ DOMAIN m_loggers' = DOMAIN m_loggers \cup {n}
      /\ m_loggers' \in [DOMAIN m_loggers' -> DOMAIN logger']
      /\ \A m \in DOMAIN m_loggers : m_loggers'[m] = m_loggers[m]
      /\ m_loggers'[n] = Found(n)
  BY <1>1, <1>2, GotFacts
<1>4. NewLogger(n, TRUE).root /\ NewLogger(n, TRUE).name = n
  BY DEF NewLogger
<1>5. Found(n) # 0
  <2>1. DOMAIN logger' = 1..Len(logger') /\ Len(logger') \in Nat
    BY <1>3, LenProperties
  <2>. QED
    BY <1>3, <2>1
<1>6. PICK f : f = Found(n)
  OBVIOUS
<1>7. /\ upc' \in [Users -> {"out", "got", "entered", "checked", "root"}]
      /\ held' \in [Users -> DOMAIN logger' \cup {0}]
      /\ held'[u] = f /\ \A w \in Users \ {u} : held'[w] = held[w] /\ upc'[w] = upc[w]
  BY <1>1, <1>2, <1>3, <1>6, UserTyping
<1>8. /\ msg' \in [Users -> MsgLevels \cup {0}] /\ calls' \in [Users -> 0..MaxCalls]
      /\ res' \in [Users -> {"none", "written", "filtered", "dropped"}]
      /\ res'[u] # "dropped" /\ \A w \in Users \ {u} : res'[w] = res[w]
  <2>1. calls[u] + 1 \in 0..MaxCalls
    BY <1>1, <1>2, UserTyping, LogAssumption
  <2>. QED
    BY <1>1, <1>2, <2>1, UserTyping
<1>9. TypeOK'
  <2>1. DOMAIN m_loggers \subseteq DOMAIN m_loggers' /\ DOMAIN m_loggers' \subseteq AllNames
    BY <1>2, <1>3, UserTyping
  <2>. QED
    BY <1>1, <1>2, <1>3, <1>7, <1>8, <2>1, UserTypes
<1>10. LoggersGrow
  <2>1. \A o \in DOMAIN logger : SameLogger(logger'[o], logger[o])
    BY <1>3, SameItself
  <2>2. \A o \in DOMAIN logger' \ DOMAIN logger : logger'[o].root /\ logger'[o].name = n
    BY <1>3, <1>4
  <2>3. \A m \in DOMAIN m_loggers' \ DOMAIN m_loggers :
          /\ m_loggers'[m] \in DOMAIN logger' \ DOMAIN logger
          /\ logger'[m_loggers'[m]].name = m
    BY <1>3, <2>2
  <2>4. \A w \in Users : /\ held'[w] = held[w] \/ \E m \in DOMAIN m_loggers' : held'[w] = m_loggers'[m]
                         /\ upc'[w] # "out" => held'[w] # 0
    <3>1. \A w \in Users : upc[w] # "out" => held[w] # 0
      BY DEF Pre, InvOf, LoggersFit
    <3>. QED
      BY <1>3, <1>5, <1>6, <1>7, <3>1
  <2>. QED
    BY <1>3, <2>1, <2>2, <2>3, <2>4 DEF LoggersGrow
<1>. QED
  BY <1>1, <1>8, <1>9, <1>10, UserFrame

\* A step of a call that leaves the map and the user's logger alone.
LEMMA CallStep ==
    ASSUME NEW l, Pre(l), UNCHANGED <<configVars, dumpVars, lis, crash>>,
           UNCHANGED <<m_loggers, held>>,
           NEW u \in Users, held[u] # 0,
           logger' \in Seq(Logger_T), DOMAIN logger' = DOMAIN logger,
           \A p \in DOMAIN logger : SameLogger(logger'[p], logger[p]),
           upc' \in [Users -> {"out", "got", "entered", "checked", "root"}],
           \A w \in Users \ {u} : upc'[w] = upc[w],
           msg' \in [Users -> MsgLevels \cup {0}], calls' \in [Users -> 0..MaxCalls],
           res' \in [Users -> {"none", "written", "filtered", "dropped"}]
    PROVE  TypeOK' /\ InvOf(l)'
<1>1. TypeOK /\ held' \in [Users -> DOMAIN logger' \cup {0}]
  BY UserTyping DEF Pre
<1>2. m_loggers' \in [DOMAIN m_loggers' -> DOMAIN logger'] /\ DOMAIN m_loggers' \subseteq AllNames
  BY <1>1, UserTyping
<1>3. TypeOK'
  BY <1>1, <1>2, UserTypes
<1>4. LoggersGrow
  <2>1. \A w \in Users : upc'[w] # "out" => held'[w] # 0
    <3>1. \A w \in Users : upc[w] # "out" => held[w] # 0
      BY DEF Pre, InvOf, LoggersFit
    <3>. QED
      BY <3>1
  <2>. QED
    BY <2>1 DEF LoggersGrow
<1>. QED
  BY <1>3, <1>4, UserFrame

\* A user's step touches its own result only, and drops a message only where
\* Logger::log finds neither an appender nor a root logger.
Result(u) ==
    /\ \A w \in Users \ {u} : res'[w] = res[w]
    /\ res'[u] = "dropped" => \/ res[u] = "dropped"
                              \/ /\ upc[u] = "checked" /\ logger[held[u]].appenders = <<>>
                                 /\ ~logger[held[u]].root

LEMMA KeepKeeps ==
    ASSUME NEW l, Pre(l), NEW u \in Users, NEW level \in MsgLevels, KeepLogger(u, level)
    PROVE  TypeOK' /\ InvOf(l)' /\ Result(u)
<1>1. /\ upc[u] = "out" /\ calls[u] < MaxCalls /\ held[u] # 0
      /\ msg' = [msg EXCEPT ![u] = level]
      /\ upc' = [upc EXCEPT ![u] = "got"]
      /\ calls' = [calls EXCEPT ![u] = @ + 1]
      /\ res' = [res EXCEPT ![u] = "none"]
      /\ UNCHANGED <<configVars, logger, m_loggers, dumpVars, lis, held, crash>>
  BY DEF KeepLogger, CanCall
<1>2. TypeOK
  BY DEF Pre
<1>3. calls[u] + 1 \in 0..MaxCalls
  BY <1>1, <1>2, UserTyping, LogAssumption
<1>4. /\ upc' \in [Users -> {"out", "got", "entered", "checked", "root"}]
      /\ \A w \in Users \ {u} : upc'[w] = upc[w]
      /\ msg' \in [Users -> MsgLevels \cup {0}] /\ calls' \in [Users -> 0..MaxCalls]
      /\ res' \in [Users -> {"none", "written", "filtered", "dropped"}]
      /\ res'[u] = "none" /\ \A w \in Users \ {u} : res'[w] = res[w]
  BY <1>1, <1>2, <1>3, UserTyping
<1>5. Result(u)
  BY <1>4 DEF Result
<1>6. /\ logger' \in Seq(Logger_T) /\ DOMAIN logger' = DOMAIN logger
      /\ \A p \in DOMAIN logger : SameLogger(logger'[p], logger[p])
  BY <1>1, <1>2, UserTyping, SameItself
<1>. QED
  BY <1>1, <1>4, <1>5, <1>6, CallStep

LEMMA CheckKeeps ==
    ASSUME NEW l, Pre(l), NEW u \in Users, NEW from, NEW to, CheckLevel(u, from, to),
           from # "out", to \in {"entered", "checked"}
    PROVE  TypeOK' /\ InvOf(l)' /\ Result(u)
<1>1. /\ upc[u] = from
      /\ \/ upc' = [upc EXCEPT ![u] = to] /\ UNCHANGED res
         \/ upc' = [upc EXCEPT ![u] = "out"] /\ res' = [res EXCEPT ![u] = "filtered"]
      /\ UNCHANGED <<configVars, logger, m_loggers, dumpVars, lis, held, msg, calls, crash>>
  BY DEF CheckLevel, At, Finish
<1>2. TypeOK /\ held[u] # 0
  BY <1>1 DEF Pre, InvOf, LoggersFit
<1>4. /\ upc' \in [Users -> {"out", "got", "entered", "checked", "root"}]
      /\ \A w \in Users \ {u} : upc'[w] = upc[w]
      /\ msg' \in [Users -> MsgLevels \cup {0}] /\ calls' \in [Users -> 0..MaxCalls]
      /\ res' \in [Users -> {"none", "written", "filtered", "dropped"}]
      /\ res'[u] = "filtered" \/ res'[u] = res[u]
      /\ \A w \in Users \ {u} : res'[w] = res[w]
  <2>1. /\ upc' \in [Users -> {"out", "got", "entered", "checked", "root"}]
        /\ \A w \in Users \ {u} : upc'[w] = upc[w]
        /\ msg' \in [Users -> MsgLevels \cup {0}] /\ calls' \in [Users -> 0..MaxCalls]
    BY <1>1, <1>2, UserTyping
  <2>2. res \in [Users -> {"none", "written", "filtered", "dropped"}]
    BY <1>2, UserTyping
  <2>3. res' = res \/ res' = [res EXCEPT ![u] = "filtered"]
    BY <1>1
  <2>4. /\ res' \in [Users -> {"none", "written", "filtered", "dropped"}]
        /\ res'[u] = "filtered" \/ res'[u] = res[u]
        /\ \A w \in Users \ {u} : res'[w] = res[w]
    BY <2>2, <2>3
  <2>. QED
    BY <2>1, <2>4
<1>5. Result(u)
  BY <1>4 DEF Result
<1>6. /\ logger' \in Seq(Logger_T) /\ DOMAIN logger' = DOMAIN logger
      /\ \A p \in DOMAIN logger : SameLogger(logger'[p], logger[p])
  BY <1>1, <1>2, UserTyping, SameItself
<1>. QED
  BY <1>1, <1>2, <1>4, <1>5, <1>6, CallStep

LEMMA LogLockedKeeps ==
    ASSUME NEW l, Pre(l), NEW u \in Users, LogLocked(u)
    PROVE  TypeOK' /\ InvOf(l)' /\ Result(u)
<1>1. PICK x : x = Outcome(held[u], msg[u])
  OBVIOUS
<1>2. /\ upc[u] = "checked"
      /\ \/ /\ upc' = [upc EXCEPT ![u] = "out"] /\ res' = [res EXCEPT ![u] = x]
            /\ UNCHANGED logger
         \/ /\ logger' = [logger EXCEPT ![held[u]].lock = u]
            /\ upc' = [upc EXCEPT ![u] = "root"] /\ UNCHANGED res
         \/ /\ upc' = [upc EXCEPT ![u] = "out"] /\ res' = [res EXCEPT ![u] = "dropped"]
            /\ logger[held[u]].appenders = <<>> /\ ~logger[held[u]].root
            /\ UNCHANGED logger
      /\ UNCHANGED <<configVars, m_loggers, dumpVars, lis, held, msg, calls, crash>>
  BY <1>1 DEF LogLocked, At, Finish
<1>3. x \in {"written", "filtered"}
  BY <1>1 DEF Outcome
<1>4. TypeOK /\ held[u] # 0
  BY <1>2 DEF Pre, InvOf, LoggersFit
<1>5. PICK o \in DOMAIN logger : o = held[u]
  BY <1>4, UserTyping
<1>6. /\ upc' \in [Users -> {"out", "got", "entered", "checked", "root"}]
      /\ \A w \in Users \ {u} : upc'[w] = upc[w]
      /\ msg' \in [Users -> MsgLevels \cup {0}] /\ calls' \in [Users -> 0..MaxCalls]
      /\ res' \in [Users -> {"none", "written", "filtered", "dropped"}]
      /\ \A w \in Users \ {u} : res'[w] = res[w]
  <2>1. /\ upc' \in [Users -> {"out", "got", "entered", "checked", "root"}]
        /\ \A w \in Users \ {u} : upc'[w] = upc[w]
        /\ msg' \in [Users -> MsgLevels \cup {0}] /\ calls' \in [Users -> 0..MaxCalls]
    BY <1>2, <1>4, UserTyping
  <2>2. res \in [Users -> {"none", "written", "filtered", "dropped"}]
    BY <1>4, UserTyping
  <2>3. /\ res' \in [Users -> {"none", "written", "filtered", "dropped"}]
        /\ \A w \in Users \ {u} : res'[w] = res[w]
    BY <1>2, <1>3, <2>2
  <2>. QED
    BY <2>1, <2>2, <2>3
<1>7. Result(u)
  <2>1. res'[u] = "dropped" => \/ res[u] = "dropped"
                               \/ logger[held[u]].appenders = <<>> /\ ~logger[held[u]].root
    BY <1>2, <1>3, <1>4, UserTyping
  <2>. QED
    BY <1>2, <1>6, <2>1 DEF Result
<1>8. /\ logger' \in Seq(Logger_T) /\ DOMAIN logger' = DOMAIN logger
      /\ \A p \in DOMAIN logger : SameLogger(logger'[p], logger[p])
  <2>1. CASE UNCHANGED logger
    BY <1>4, <2>1, UserTyping, SameItself
  <2>2. CASE logger' = [logger EXCEPT ![o].lock = u]
    BY <1>4, <1>5, <2>2, UserTyping, Locking
  <2>. QED
    BY <1>2, <1>5, <2>1, <2>2
<1>. QED
  BY <1>2, <1>4, <1>6, <1>7, <1>8, CallStep

LEMMA LogToRootKeeps ==
    ASSUME NEW l, Pre(l), NEW u \in Users, LogToRoot(u)
    PROVE  TypeOK' /\ InvOf(l)' /\ Result(u)
<1>1. PICK x : x = IF msg[u] >= logger[Root].level THEN Outcome(Root, msg[u]) ELSE "filtered"
  OBVIOUS
<1>2. /\ upc[u] = "root"
      /\ upc' = [upc EXCEPT ![u] = "out"] /\ res' = [res EXCEPT ![u] = x]
      /\ logger' = [logger EXCEPT ![held[u]].lock = None]
      /\ UNCHANGED <<configVars, m_loggers, dumpVars, lis, held, msg, calls, crash>>
  BY <1>1 DEF LogToRoot, At, Finish
<1>3. x \in {"written", "filtered"}
  <2>1. Outcome(Root, msg[u]) \in {"written", "filtered"}
    BY DEF Outcome
  <2>. QED
    BY <1>1, <2>1
<1>4. TypeOK /\ held[u] # 0
  BY <1>2 DEF Pre, InvOf, LoggersFit
<1>5. PICK o \in DOMAIN logger : o = held[u]
  BY <1>4, UserTyping
<1>6. /\ upc' \in [Users -> {"out", "got", "entered", "checked", "root"}]
      /\ \A w \in Users \ {u} : upc'[w] = upc[w]
      /\ msg' \in [Users -> MsgLevels \cup {0}] /\ calls' \in [Users -> 0..MaxCalls]
      /\ res' \in [Users -> {"none", "written", "filtered", "dropped"}]
      /\ res'[u] = x /\ \A w \in Users \ {u} : res'[w] = res[w]
  BY <1>2, <1>3, <1>4, UserTyping
<1>7. Result(u)
  BY <1>3, <1>6 DEF Result
<1>8. /\ logger' \in Seq(Logger_T) /\ DOMAIN logger' = DOMAIN logger
      /\ \A p \in DOMAIN logger : SameLogger(logger'[p], logger[p])
  <2>1. None \in Users \cup {None} /\ logger \in Seq(Logger_T)
    BY <1>4, UserTyping
  <2>2. logger' = [logger EXCEPT ![o].lock = None]
    BY <1>2, <1>5
  <2>. QED
    BY <1>5, <2>1, <2>2, Locking
<1>. QED
  BY <1>2, <1>4, <1>6, <1>7, <1>8, CallStep

\* toYamlString changes no logger.
LEMMA DumpKeeps ==
    ASSUME NEW l, Pre(l), NEW d \in Dumpers, DumpAll(d) \/ DumpLogger(d)
    PROVE  TypeOK' /\ InvOf(l)' /\ UNCHANGED res
<1>1. /\ UNCHANGED <<configVars, lis, userVars, crash>>
      /\ UNCHANGED <<logger, m_loggers>>
      /\ mgr' \in {d, None, mgr} /\ todo' \subseteq todo \cup DOMAIN m_loggers
      /\ dumped' \subseteq dumped \cup {d}
  <2>1. CASE DumpAll(d)
    BY <2>1 DEF DumpAll
  <2>2. CASE DumpLogger(d)
    BY <2>2 DEF DumpLogger
  <2>. QED
    BY <2>1, <2>2
<1>2. TypeOK'
  <2>1. ConfigTypeOK'
    BY <1>1 DEF Pre, TypeOK, ConfigTypeOK, configVars
  <2>2. /\ mgr' \in Dumpers \cup {None} /\ todo' \subseteq DOMAIN m_loggers' /\ dumped' \subseteq Dumpers
    BY <1>1 DEF Pre, TypeOK
  <2>. QED
    BY <1>1, <2>1, <2>2 DEF Pre, TypeOK, userVars
<1>3. LoggersGrow
  <2>1. \A o \in DOMAIN logger : SameLogger(logger'[o], logger[o])
    BY <1>1, SameItself
  <2>2. \A u \in Users : held'[u] = held[u] /\ (upc'[u] # "out" => held'[u] # 0)
    BY <1>1 DEF Pre, InvOf, LoggersFit, userVars
  <2>. QED
    BY <1>1, <2>1, <2>2 DEF LoggersGrow
<1>. QED
  BY <1>1, <1>2, <1>3, UserFrame DEF userVars

-----------------------------------------------------------------------------
(* The invariant, and what follows from it *)

LEMMA InitInv == ASSUME NEW l, Loaders = {l}, Init PROVE TypeOK /\ InvOf(l)
<1>1. /\ logger = <<RootLogger>> /\ m_loggers = [n \in {RootName} |-> Root]
      /\ lis = [m \in Loaders |-> NoListener]
      /\ upc = [u \in Users |-> "out"] /\ held = [u \in Users |-> 0]
      /\ m_val = DefaultVal /\ m_cbs = Static /\ cpc = [m \in Loaders |-> "out"]
      /\ new_val = [m \in Loaders |-> DefaultVal]
      /\ told = [k \in Listeners |-> DefaultVal]
  BY DEF Init, LogInit, ConfigInit
<1>2. PICK r \in Logger_T : r = RootLogger /\ r.appenders # <<>> /\ r.name = RootName
  BY RootFacts
<1>3. logger \in Seq(Logger_T) /\ DOMAIN logger = {Root} /\ logger[Root] = r
  <2>1. logger = <<r>>
    BY <1>1, <1>2
  <2>. QED
    BY <2>1 DEF Root
<1>4. m_loggers \in [DOMAIN m_loggers -> DOMAIN logger] /\ DOMAIN m_loggers = {RootName} /\ m_loggers[RootName] = Root
  BY <1>1, <1>3
<1>5. ConfigTypeOK
  BY ConfigAssumption, FromStrFacts DEF Init, ConfigInit, ConfigTypeOK
<1>6. lis \in [Loaders -> Listener_T(DOMAIN logger)] /\ lis[l] = NoListener
  BY <1>1, NoListenerFacts
<1>7. TypeOK
  <2>1. /\ mgr \in Dumpers \cup {None} /\ todo \subseteq DOMAIN m_loggers /\ dumped \subseteq Dumpers
        /\ upc \in [Users -> {"out", "got", "entered", "checked", "root"}]
        /\ held \in [Users -> DOMAIN logger \cup {0}]
        /\ msg \in [Users -> MsgLevels \cup {0}]
        /\ res \in [Users -> {"none", "written", "filtered", "dropped"}]
        /\ crash \in BOOLEAN
    BY DEF Init, LogInit
  <2>2. calls \in [Users -> 0..MaxCalls]
    BY LogAssumption DEF Init, LogInit
  <2>. QED
    BY <1>3, <1>4, <1>5, <1>6, <2>1, <2>2 DEF TypeOK
<1>8. Before(l) /\ Renewed(l) = {} /\ Pending(l) = {}
  BY <1>1, LogAssumption DEF Before, Renewed, Pending
<1>9. NamesFit(l)
  BY <1>4, <1>8 DEF NamesFit, Unused
<1>10. ListenerFits(l)
  <2>1. lis[l].at = "out" /\ lis[l].new = {} /\ lis[l].old = {}
    BY <1>6, NoListenerFacts
  <2>. QED
    BY <2>1 DEF ListenerFits, Listening
<1>11. LoggersFit(l)
  BY <1>1, <1>2, <1>3, <1>4 DEF LoggersFit
<1>12. Told(l)
  BY <1>1, LogAssumption, ConfigAssumption DEF Told
<1>. QED
  BY <1>7, <1>9, <1>10, <1>11, <1>12 DEF InvOf

\* A message is given up for want of an appender only by Logger::log.
Drops ==
    \A u \in Users : res'[u] = "dropped" =>
        \/ res[u] = "dropped"
        \/ /\ upc[u] = "checked" /\ logger[held[u]].appenders = <<>>
           /\ ~logger[held[u]].root

LEMMA ResultDrops == ASSUME NEW u \in Users, Result(u) PROVE Drops
  BY DEF Result, Drops

LEMMA NextKeeps ==
    ASSUME NEW l, Pre(l), [Next]_vars PROVE TypeOK' /\ InvOf(l)' /\ Drops
<1>1. Loaders = {l}
  BY DEF Pre
<1>2. CASE ConfigCall
  <2>1. UNCHANGED logVars
    BY <1>2 DEF ConfigCall
  <2>2. Drops
    BY <2>1 DEF Drops, logVars, userVars
  <2>3. CASE \E key \in Keys, t \in Texts : Load(l, key, t)
    BY <2>1, <2>2, <2>3, LoadKeeps
  <2>4. CASE \E k \in Listeners \ Static : AddListener(k) \/ DelListener(k)
    BY <2>1, <2>2, <2>4, AddListenerKeeps, DelListenerKeeps
  <2>. QED
    BY <1>1, <1>2, <2>3, <2>4 DEF ConfigCall
<1>3. CASE ListenerStep(l)
  <2>1. UNCHANGED userVars
    BY <1>3 DEF ListenerStep, EnterListener, PickDefine, SetFormatter, AddAppender, Publish,
                Silence, Clear, LeaveListener
  <2>2. Drops
    BY <2>1 DEF Drops, userVars
  <2>. QED
    BY <1>3, <2>2, ListenerKeeps
<1>4. CASE /\ UNCHANGED logVars
           /\ \/ CompareValue(l) \/ EndCalls(l) \/ Store(l)
              \/ \E k \in Listeners \ {Initer} : Called(l, k) /\ lis[l].at = "out"
  <2>1. Drops
    BY <1>4 DEF Drops, logVars, userVars
  <2>. QED
    BY <1>4, <2>1, CompareKeeps, EndCallsKeeps, StoreKeeps, CalledKeeps
<1>5. ASSUME NEW u \in Users, StartCall(u) PROVE TypeOK' /\ InvOf(l)' /\ Drops
  <2>1. PICK level \in MsgLevels : KeepLogger(u, level) \/ \E n \in Names : FetchLogger(u, n, level)
    BY <1>5 DEF StartCall
  <2>2. CASE KeepLogger(u, level)
    BY <2>2, KeepKeeps, ResultDrops
  <2>3. CASE \E n \in Names : FetchLogger(u, n, level)
    <3>1. /\ TypeOK' /\ InvOf(l)' /\ res'[u] # "dropped"
          /\ \A w \in Users \ {u} : res'[w] = res[w]
      BY <2>3, FetchKeeps
    <3>2. Drops
      BY <3>1 DEF Drops
    <3>. QED
      BY <3>1, <3>2
  <2>. QED
    BY <2>1, <2>2, <2>3
<1>6. ASSUME NEW u \in Users, InCall(u) PROVE TypeOK' /\ InvOf(l)' /\ Drops
  <2>1. CASE CheckLevel(u, "got", "entered")
    BY <2>1, CheckKeeps, ResultDrops
  <2>2. CASE CheckLevel(u, "entered", "checked")
    BY <2>2, CheckKeeps, ResultDrops
  <2>3. CASE LogLocked(u)
    BY <2>3, LogLockedKeeps, ResultDrops
  <2>4. CASE LogToRoot(u)
    BY <2>4, LogToRootKeeps, ResultDrops
  <2>. QED
    BY <1>6, <2>1, <2>2, <2>3, <2>4 DEF InCall
<1>7. ASSUME NEW d \in Dumpers, DumpAll(d) \/ DumpLogger(d) PROVE TypeOK' /\ InvOf(l)' /\ Drops
  BY <1>7, DumpKeeps DEF Drops
<1>8. CASE UNCHANGED vars
  <2>1. /\ UNCHANGED <<configVars, dumpVars, userVars>> /\ UNCHANGED <<logger, m_loggers, lis, crash>>
    BY <1>8 DEF vars, logVars
  <2>2. TypeOK'
    <3>1. ConfigTypeOK'
      BY <2>1 DEF Pre, TypeOK, ConfigTypeOK, configVars
    <3>. QED
      BY <2>1, <3>1 DEF Pre, TypeOK, dumpVars, userVars
  <2>3. LoggersGrow
    <3>1. \A o \in DOMAIN logger : SameLogger(logger'[o], logger[o])
      BY <2>1, SameItself
    <3>2. \A u \in Users : held'[u] = held[u] /\ (upc'[u] # "out" => held'[u] # 0)
      BY <2>1 DEF Pre, InvOf, LoggersFit, userVars
    <3>. QED
      BY <2>1, <3>1, <3>2 DEF LoggersGrow
  <2>4. Drops
    BY <2>1 DEF Drops, userVars
  <2>. QED
    BY <2>1, <2>2, <2>3, <2>4, UserFrame
<1>9. \A m \in Loaders : LoaderStep(m) =>
        \/ ListenerStep(l)
        \/ /\ UNCHANGED logVars
           /\ \/ CompareValue(l) \/ EndCalls(l) \/ Store(l)
              \/ \E k \in Listeners \ {Initer} : Called(l, k) /\ lis[l].at = "out"
  BY <1>1 DEF LoaderStep
<1>. QED
  BY <1>2, <1>3, <1>4, <1>5, <1>6, <1>7, <1>8, <1>9 DEF Next

\* A logger that has nowhere to write is off, or its define is bare.
LEMMA NowhereToWrite ==
    ASSUME NEW l, Pre(l), NEW u \in Users, upc[u] = "checked",
           logger[held[u]].appenders = <<>>, ~logger[held[u]].root
    PROVE  MayDrop(logger[held[u]])
<1>1. PICK o \in DOMAIN logger : o = held[u]
  <2>1. held[u] # 0
    BY DEF Pre, InvOf, LoggersFit
  <2>. QED
    BY <2>1 DEF Pre, TypeOK
<1>2. PICK n : n = logger[o].name
  OBVIOUS
<1>3. \/ logger[o].level = Off
      \/ n \in DOMAIN m_loggers /\ m_loggers[n] = o
      \/ Unpublished(l, o)
  BY <1>1, <1>2 DEF Pre, InvOf, LoggersFit
<1>4. ~Unpublished(l, o)
  BY <1>1 DEF Unpublished, Pre, InvOf, ListenerFits
<1>5. ASSUME n \in DOMAIN m_loggers, m_loggers[n] = o
      PROVE  \/ logger[o].level = Off
             \/ n \in DOMAIN m_val /\ m_val[n].appenders = <<>>
             \/ n \in DOMAIN new_val[l] /\ new_val[l][n].appenders = <<>>
  <2>1. CASE n \in Renewed(l)
    <3>1. n \in DOMAIN new_val[l]
      BY <2>1 DEF Renewed
    <3>2. Applied(logger[o], new_val[l][n])
      BY <1>5, <2>1 DEF Pre, InvOf, NamesFit
    <3>3. logger[o] \in Logger_T /\ new_val[l][n] \in Define_T
      BY <3>1, Typing
    <3>. QED
      BY <1>1, <3>1, <3>2, <3>3, AppliedAppenders
  <2>2. CASE n \in Pending(l)
    <3>1. n \in DOMAIN m_val
      BY <2>2 DEF Pending, Pre, InvOf, ListenerFits
    <3>. QED
      BY <1>1, <1>5, <2>2, <3>1 DEF Pre, InvOf, NamesFit
  <2>3. CASE n \notin Renewed(l) \cup Pending(l)
    <3>1. Unused(n)
      BY <1>5, <2>3 DEF Pre, InvOf, NamesFit
    <3>2. o # Root
      BY <1>1 DEF Pre, InvOf, LoggersFit
    <3>. QED
      BY <1>1, <1>5, <3>1, <3>2 DEF Unused
  <2>. QED
    BY <2>1, <2>2, <2>3
<1>. QED
  BY <1>1, <1>2, <1>3, <1>4, <1>5, Typing DEF MayDrop, Bare

LEMMA InvApplied == ASSUME NEW l, Pre(l) PROVE ConfigApplied
<1>. SUFFICES ASSUME \A m \in Loaders : cpc[m] = "out" PROVE
        /\ \A n \in DOMAIN m_val :
            /\ n \in DOMAIN m_loggers
            /\ LET o == logger[m_loggers[n]]
                   d == m_val[n]
                   before == Len(o.appenders) - Len(d.appenders)
               IN  /\ o.level = d.level
                   /\ (d.formatter # <<>> /\ d.formatter \notin Rejected) =>
                            o.formatter = d.formatter
                   /\ before >= 0
                   /\ \A x \in DOMAIN d.appenders :
                        /\ o.appenders[before + x].type = d.appenders[x].type
                        /\ o.appenders[before + x].file = d.appenders[x].file
                        /\ o.appenders[before + x].formatter = o.formatter
        /\ \A n \in DOMAIN m_loggers \ DOMAIN m_val : Unused(n)
        /\ \A k \in m_cbs \ late : told[k] = m_val
  BY DEF ConfigApplied, Unused
<1>1. Before(l) /\ cpc[l] = "out" /\ Renewed(l) = {} /\ Pending(l) = DOMAIN m_val
  BY Typing DEF Before, Renewed, Pending
<1>2. ASSUME NEW n \in DOMAIN m_val
      PROVE  /\ n \in DOMAIN m_loggers
             /\ LET o == logger[m_loggers[n]]
                    d == m_val[n]
                    before == Len(o.appenders) - Len(d.appenders)
                IN  /\ o.level = d.level
                    /\ (d.formatter # <<>> /\ d.formatter \notin Rejected) =>
                             o.formatter = d.formatter
                    /\ before >= 0
                    /\ \A x \in DOMAIN d.appenders :
                         /\ o.appenders[before + x].type = d.appenders[x].type
                         /\ o.appenders[before + x].file = d.appenders[x].file
                         /\ o.appenders[before + x].formatter = o.formatter
  <2>1. PICK o, d : o = logger[m_loggers[n]] /\ d = m_val[n]
    OBVIOUS
  <2>2. n \in DOMAIN m_loggers /\ Applied(o, d)
    BY <1>1, <2>1 DEF Pre, InvOf, NamesFit, Defined
  <2>3. d \in Define_T
    BY <2>1, Typing
  <2>3a. o \in Logger_T
    BY <2>1, <2>2, MapTyped, Typing
  <2>4. d.appenders \in Seq(Appender_T) /\ o.appenders \in Seq(Appender_T)
    BY <2>3, <2>3a DEF Define_T, Logger_T
  <2>5. /\ Len(d.appenders) \in Nat /\ DOMAIN d.appenders = 1..Len(d.appenders)
        /\ Len(o.appenders) \in Nat
    BY <2>4, LenProperties
  <2>6. PICK b : b = Len(o.appenders) - Len(d.appenders)
    OBVIOUS
  <2>7. b = Len(o.appenders) - ((Len(d.appenders) + 1) - 1)
    BY <2>5, <2>6
  <2>8. 1..((Len(d.appenders) + 1) - 1) = DOMAIN d.appenders
    BY <2>5
  <2>9. /\ b >= 0
        /\ \A x \in DOMAIN d.appenders :
             /\ o.appenders[b + x].type = d.appenders[x].type
             /\ o.appenders[b + x].file = d.appenders[x].file
             /\ o.appenders[b + x].formatter = o.formatter
    BY <2>2, <2>7, <2>8 DEF Applied, Equipped
  <2>10. o.level = d.level /\ ((d.formatter # <<>> /\ d.formatter \notin Rejected) => o.formatter = d.formatter)
    BY <2>2 DEF Applied, Formatted
  <2>. QED
    BY <2>1, <2>2, <2>6, <2>9, <2>10
<1>3. \A n \in DOMAIN m_loggers \ DOMAIN m_val : Unused(n)
  BY <1>1 DEF Pre, InvOf, NamesFit
<1>4. \A k \in m_cbs \ late : told[k] = m_val
  BY <1>1 DEF Pre, InvOf, Told
<1>. QED
  BY <1>2, <1>3, <1>4

-----------------------------------------------------------------------------
\* The registered loggers, the listeners' locals and the values are of the
\* types the code declares.
THEOREM TypeCorrect == ASSUME OneLoader PROVE Spec => []TypeOK
<1>1. PICK l : Loaders = {l}
  BY DEF OneLoader
<1>2. Init => TypeOK /\ InvOf(l)
  BY <1>1, InitInv
<1>3. TypeOK /\ InvOf(l) /\ [Next]_vars => TypeOK' /\ InvOf(l)'
  BY <1>1, NextKeeps DEF Pre
<1>. QED
  BY <1>2, <1>3, PTL DEF Spec

\* When no load is under way, every logger is what the stored value says and
\* every listener was told that value: after any sequence of loads, whatever
\* users and dumpers do between the steps of LogIniter's listener.
THEOREM ConfigAppliedCorrect == ASSUME OneLoader PROVE Spec => []ConfigApplied
<1>1. PICK l : Loaders = {l}
  BY DEF OneLoader
<1>2. Init => TypeOK /\ InvOf(l)
  BY <1>1, InitInv
<1>3. TypeOK /\ InvOf(l) /\ [Next]_vars => TypeOK' /\ InvOf(l)'
  BY <1>1, NextKeeps DEF Pre
<1>4. TypeOK /\ InvOf(l) => ConfigApplied
  BY <1>1, InvApplied DEF Pre
<1>. QED
  BY <1>2, <1>3, <1>4, PTL DEF Spec

\* Logger::log finds neither an appender nor a root logger only in a logger that
\* was removed, or that is defined without appenders: never in one the listener
\* is still building.
THEOREM NothingDroppedCorrect == ASSUME OneLoader PROVE Spec => NothingDropped
<1>1. PICK l : Loaders = {l}
  BY DEF OneLoader
<1>2. Init => TypeOK /\ InvOf(l)
  BY <1>1, InitInv
<1>3. TypeOK /\ InvOf(l) /\ [Next]_vars => TypeOK' /\ InvOf(l)'
  BY <1>1, NextKeeps DEF Pre
<1>. DEFINE Step == \A u \in Users : (res[u] # "dropped" /\ res'[u] = "dropped") =>
                                         MayDrop(logger[held[u]])
<1>4. TypeOK /\ InvOf(l) /\ [Next]_vars => [Step]_vars
  <2>1. ASSUME TypeOK, InvOf(l), [Next]_vars PROVE Step
    <3>1. Pre(l) /\ Drops
      BY <1>1, <2>1, NextKeeps DEF Pre
    <3>. QED
      BY <3>1, NowhereToWrite DEF Drops
  <2>. QED
    BY <2>1
<1>. QED
  BY <1>2, <1>3, <1>4, PTL DEF Spec, NothingDropped
=============================================================================
