------------------------------- MODULE Config -------------------------------
(***************************************************************************)
(* sylar::ConfigVar and sylar::Config (src/sylar/config.h, config.cc): one *)
(* registered variable, its reader-writer lock and its listeners, and the  *)
(* threads that load YAML into it.                                         *)
(*                                                                         *)
(* setValue calls the listeners under the read lock and stores the value   *)
(* under the write lock, which it takes after giving the read lock back.   *)
(* A write section is one action; the read lock is held in state "calling".*)
(***************************************************************************)
EXTENDS Naturals, FiniteSets

CONSTANTS
    Loaders,       \* threads that call Config::LoadFromYaml
    Keys,          \* spellings of the variable's key in a document
    LowerKeys,     \* those in lower case
    Texts,         \* what stands under the key
    FromStr,       \* the conversion: a function on the texts it accepts
    DefaultVal,    \* the value Lookup registered the variable with
    Listeners,     \* ids of listeners
    Static,        \* listeners registered before main
    MaxLoads       \* bound on the documents loaded

ASSUME ConfigAssumption ==
    /\ LowerKeys \subseteq Keys
    /\ Static \subseteq Listeners
    /\ MaxLoads \in Nat

VARIABLES
    m_val,
    m_cbs,      \* ids in m_cbs
    cpc,        \* a loader's place in setValue
    new_val,    \* its argument
    left,       \* listeners the loop has still to call
    ids,        \* ids addListener has not given out yet
    told,       \* history: the value a listener was last told, or found
    late,       \* history: listeners registered between the loop and the store
    loads

configVars == <<m_val, m_cbs, cpc, new_val, left, ids, told, late, loads>>

Values == {DefaultVal} \cup {FromStr[t] : t \in DOMAIN FromStr}

\* The type invariant.
ConfigTypeOK ==
    /\ m_val \in Values
    /\ m_cbs \subseteq Listeners \ ids /\ late \subseteq Listeners
    /\ ids \subseteq Listeners
    /\ cpc \in [Loaders -> {"out", "found", "calling", "storing"}]
    /\ new_val \in [Loaders -> Values]
    /\ left \in [Loaders -> SUBSET Listeners]
    /\ told \in [Listeners -> Values]
    /\ loads \in 0..MaxLoads

ConfigInit ==
    /\ m_val = DefaultVal
    /\ m_cbs = Static
    /\ ids = Listeners \ Static
    /\ cpc = [l \in Loaders |-> "out"]
    /\ new_val = [l \in Loaders |-> DefaultVal]
    /\ left = [l \in Loaders |-> {}]
    /\ told = [k \in Listeners |-> DefaultVal]
    /\ late = {}
    /\ loads = 0

-----------------------------------------------------------------------------
\* ListAllMember drops a key with a capital letter, before LoadFromYaml would
\* have made it lower case.
Listed(key) == key \in LowerKeys

\* LoadFromYaml: the variable is looked up under the read lock of the registry
\* and the text converted; fromString catches what the conversion throws.
Load(l, key, t) ==
    /\ cpc[l] = "out" /\ loads < MaxLoads
    /\ loads' = loads + 1
    /\ IF Listed(key) /\ t \in DOMAIN FromStr
       THEN /\ cpc' = [cpc EXCEPT ![l] = "found"]
            /\ new_val' = [new_val EXCEPT ![l] = FromStr[t]]
       ELSE UNCHANGED <<cpc, new_val>>
    /\ UNCHANGED <<m_val, m_cbs, left, ids, told, late>>

\* setValue returns and its argument is gone.
Return(l) ==
    /\ cpc' = [cpc EXCEPT ![l] = "out"]
    /\ new_val' = [new_val EXCEPT ![l] = DefaultVal]

\* setValue under the read lock: nothing to do for the same value.
CompareValue(l) ==
    /\ cpc[l] = "found"
    /\ IF new_val[l] = m_val
       THEN Return(l) /\ UNCHANGED left
       ELSE /\ cpc' = [cpc EXCEPT ![l] = "calling"]
            /\ left' = [left EXCEPT ![l] = m_cbs]
            /\ UNCHANGED new_val
    /\ UNCHANGED <<m_val, m_cbs, ids, told, late, loads>>

\* A listener returns.
Called(l, k) ==
    /\ cpc[l] = "calling" /\ k \in left[l]
    /\ left' = [left EXCEPT ![l] = @ \ {k}]
    /\ told' = [told EXCEPT ![k] = new_val[l]]
    /\ UNCHANGED <<m_val, m_cbs, cpc, new_val, ids, late, loads>>

\* The read lock is given back.
EndCalls(l) ==
    /\ cpc[l] = "calling" /\ left[l] = {}
    /\ cpc' = [cpc EXCEPT ![l] = "storing"]
    /\ UNCHANGED <<m_val, m_cbs, new_val, left, ids, told, late, loads>>

\* ReadLock: who is in the listener loop.
Readers == {l \in Loaders : cpc[l] = "calling"}

\* WriteLock: no one reads.
CanWrite == Readers = {}

\* Mutant: the assignment is forgotten.
StoresOld(l) == m_val

\* m_val = new_val.
Stores(l) == new_val[l]

Store(l) ==
    /\ cpc[l] = "storing" /\ CanWrite
    /\ m_val' = Stores(l)
    /\ Return(l)
    /\ UNCHANGED <<m_cbs, left, ids, told, late, loads>>

-----------------------------------------------------------------------------
\* addListener, which gives out a new id.  The listener knows the value it can
\* read when it is registered.
AddListener(k) ==
    /\ k \in ids /\ CanWrite
    /\ ids' = ids \ {k}
    /\ m_cbs' = m_cbs \cup {k}
    /\ told' = [told EXCEPT ![k] = m_val]
    /\ late' = IF \E l \in Loaders : cpc[l] = "storing"
               THEN late \cup {k} ELSE late
    /\ UNCHANGED <<m_val, cpc, new_val, left, loads>>

DelListener(k) ==
    /\ k \in m_cbs /\ CanWrite
    /\ m_cbs' = m_cbs \ {k}
    /\ told' = [told EXCEPT ![k] = DefaultVal]
    /\ late' = late \ {k}
    /\ UNCHANGED <<m_val, cpc, new_val, left, ids, loads>>
=============================================================================
