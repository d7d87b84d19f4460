---------------------------- MODULE SemanticStore ----------------------------
(***************************************************************************)
(* What the semantic cache promises, without its index: a set of entries,  *)
(* and lookups that answer with a best admissible entry of the caller's    *)
(* namespace.  A lookup may only come back empty-handed when there is none *)
(* or when Neighbours entries, of any namespace, are at least as similar   *)
(* to the prompt as all of them.                                           *)
(***************************************************************************)
EXTENDS SemanticLookup

CONSTANTS
    Ids,           \* entry ids
    Namespaces,    \* namespace hashes
    Ttls,          \* bound: time-to-live values of admitted entries
    Ages,          \* bound: ages that simulate-age asks for
    Taus,          \* bound: thresholds that a pipeline request asks for
    BaseThreshold, \* the threshold the cache is constructed with
    MaxTime        \* bound on the clock

Entry == [id : Ids, ns : Namespaces, prompt : Prompts, created : Int,
          ttl : Int]

VARIABLES
    entries,  \* the set of entries
    tau,      \* the base similarity threshold
    now,      \* the clock
    result    \* what the last call returned

vars == <<entries, tau, now, result>>

Lookup(ns, q) ==
    /\ \/ \E e \in Best(entries, ns, q, now, tau) : result' = Hit(ns, q, e)
       \/ MayMiss(entries, ns, q, now, tau) /\ result' = Miss(ns, q)
    /\ UNCHANGED <<entries, tau, now>>

Admit(id, ns, q, ttl) ==
    /\ \A e \in entries : e.id # id
    /\ entries' = entries \cup {[id |-> id, ns |-> ns, prompt |-> q,
                                 created |-> now, ttl |-> ttl]}
    /\ result' = Admitted(id)
    /\ UNCHANGED <<tau, now>>

Evict(id) ==
    /\ entries' = {e \in entries : e.id # id}
    /\ result' = Evicted(entries' # entries)
    /\ UNCHANGED <<tau, now>>

SimulateAge(id, age) ==
    /\ entries' = {IF e.id = id THEN [e EXCEPT !.created = now - age] ELSE e :
                      e \in entries}
    /\ result' = NoResult
    /\ UNCHANGED <<tau, now>>

PurgeExpired ==
    /\ entries' = {e \in entries : ~Expired(e, now)}
    /\ result' = Removed(Cardinality(entries) - Cardinality(entries'))
    /\ UNCHANGED <<tau, now>>

Clear == entries' = {} /\ result' = NoResult /\ UNCHANGED <<tau, now>>

\* A request that asks for no threshold (0) leaves the last one.
SetTau(t) ==
    /\ tau' = IF t = 0 THEN tau ELSE t
    /\ result' = NoResult
    /\ UNCHANGED <<entries, now>>

Tick == now' = now + 1 /\ result' = NoResult /\ UNCHANGED <<entries, tau>>

Init == entries = {} /\ tau = BaseThreshold /\ now = 0 /\ result = NoResult

Next ==
    \/ \E ns \in Namespaces, q \in Prompts :
          \/ Lookup(ns, q)
          \/ \E id \in Ids, ttl \in Ttls : Admit(id, ns, q, ttl)
    \/ \E id \in Ids : Evict(id) \/ \E age \in Ages : SimulateAge(id, age)
    \/ PurgeExpired
    \/ Clear
    \/ \E t \in Taus : SetTau(t)
    \/ Tick

Spec == Init /\ [][Next]_vars
=============================================================================
