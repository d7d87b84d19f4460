---------------------------- MODULE SemanticCache ----------------------------
(***************************************************************************)
(* The semantic cache as it is built (semantic_cache.py): a FAISS index of *)
(* vectors whose row numbers are resolved through _id_map, with _entries   *)
(* and _vectors by entry id; without FAISS the vectors themselves are      *)
(* searched in the order of _id_map.  A vector is named by the prompt it   *)
(* encodes.  Its endpoints and the gateway run on one event loop and none  *)
(* of its methods awaits, so every call is one step.                       *)
(***************************************************************************)
EXTENDS SemanticLookup, SequencesExt, FiniteSetsExt

CONSTANTS
    Ids, Namespaces, Ttls, Ages, Taus, BaseThreshold, MaxTime

ASSUME SettingsAssumption ==
    /\ BaseThreshold \in 0..(Scale - 1)
    /\ Ttls \subseteq Int /\ Ages \subseteq Int /\ Taus \subseteq Int
    /\ MaxTime \in Nat

VARIABLES
    faiss,    \* whether the faiss library could be imported
    index,    \* the rows of the FAISS index
    id_map,   \* _id_map: the entry id of each row
    entries,  \* _entries: entry by id
    vectors,  \* _vectors: vector by id
    tau,      \* base threshold
    now,
    result

tables == <<index, id_map, entries, vectors>>
vars == <<faiss, tables, tau, now, result>>

Stored == DOMAIN entries

(***************************************************************************)
(* Search.                                                                 *)
(***************************************************************************)
\* The rows that are searched: the index, or the vectors in id_map order.
Rows == IF faiss THEN index ELSE [i \in 1..Len(id_map) |-> vectors[id_map[i]]]

\* The possible results of a search for q: the k best rows, ties either way.
Search(q) ==
    LET k == Min({Neighbours, Len(id_map), Len(Rows)})
        score(i) == Similarity[q][Rows[i]]
    IN  {S \in kSubset(k, 1..Len(Rows)) :
            \A i \in S, j \in (1..Len(Rows)) \ S : score(i) >= score(j)}

\* Rows of a search result that survive the loop of lookup().
Hits(S, ns, q) ==
    {i \in S : /\ i <= Len(id_map)
               /\ id_map[i] \in Stored
               /\ Keeps(entries[id_map[i]], Similarity[q][Rows[i]], ns, now, tau)}

BestHits(S, ns, q) ==
    {i \in Hits(S, ns, q) : \A j \in Hits(S, ns, q) :
        Similarity[q][Rows[i]] >= Similarity[q][Rows[j]]}

Found(i) == entries[id_map[i]]

Lookup(ns, q) ==
    /\ \E S \in Search(q) :
          \/ BestHits(S, ns, q) = {} /\ result' = Miss(ns, q)
          \/ \E i \in BestHits(S, ns, q) : result' = Hit(ns, q, Found(i))
    /\ UNCHANGED <<faiss, tables, tau, now>>

(***************************************************************************)
(* Updates.                                                                *)
(***************************************************************************)
\* Seeded bug: the vector is added to the index at the front.
Admit_RowFirst(id, ns, q, ttl) ==
    /\ id \notin Stored
    /\ index' = IF faiss THEN <<q>> \o index ELSE index
    /\ id_map' = Append(id_map, id)
    /\ entries' = [i \in Stored \cup {id} |->
                      IF i = id THEN [id |-> id, ns |-> ns, prompt |-> q,
                                      created |-> now, ttl |-> ttl]
                                ELSE entries[i]]
    /\ vectors' = [i \in DOMAIN vectors \cup {id} |->
                      IF i = id THEN q ELSE vectors[i]]
    /\ result' = Admitted(id)
    /\ UNCHANGED <<faiss, tau, now>>

Admit(id, ns, q, ttl) ==
    /\ id \notin Stored
    /\ index' = IF faiss THEN Append(index, q) ELSE index
    /\ id_map' = Append(id_map, id)
    /\ entries' = [i \in Stored \cup {id} |->
                      IF i = id THEN [id |-> id, ns |-> ns, prompt |-> q,
                                      created |-> now, ttl |-> ttl]
                                ELSE entries[i]]
    /\ vectors' = [i \in DOMAIN vectors \cup {id} |->
                      IF i = id THEN q ELSE vectors[i]]
    /\ result' = Admitted(id)
    /\ UNCHANGED <<faiss, tau, now>>

\* Seeded bug: the index keeps the rows of entries that are gone.
RebuildIndex_KeepsRows(keep) ==
    /\ id_map' = keep
    /\ entries' = [i \in ToSet(keep) |-> entries[i]]
    /\ vectors' = [i \in ToSet(keep) |-> vectors[i]]
    /\ UNCHANGED index

\* _rebuild_index: everything from the ids to keep, in their order.
RebuildIndex(keep) ==
    /\ index' = IF faiss THEN [i \in 1..Len(keep) |-> vectors[keep[i]]]
                         ELSE index
    /\ id_map' = keep
    /\ entries' = [i \in ToSet(keep) |-> entries[i]]
    /\ vectors' = [i \in ToSet(keep) |-> vectors[i]]

\* The id_map without the rows of ids outside K, in its order.
Keeping(K) ==
    LET kept[n \in 0..Len(id_map)] ==
            IF n = 0 THEN <<>>
            ELSE IF id_map[n] \in K THEN Append(kept[n - 1], id_map[n])
                                    ELSE kept[n - 1]
    IN  kept[Len(id_map)]

Evict(id) ==
    /\ IF id \in Stored THEN RebuildIndex(Keeping(Stored \ {id}))
                        ELSE UNCHANGED tables
    /\ result' = Evicted(id \in Stored)
    /\ UNCHANGED <<faiss, tau, now>>

\* Seeded bug: ageing an unknown id leaves a partial entry behind.
SimulateAge_Unchecked(id, age) ==
    /\ entries' = [i \in Stored \cup {id} |->
                      IF i # id THEN entries[i]
                      ELSE IF id \in Stored
                           THEN [entries[i] EXCEPT !.created = now - age]
                           ELSE [created |-> now - age]]
    /\ result' = NoResult
    /\ UNCHANGED <<faiss, index, id_map, vectors, tau, now>>

SimulateAge(id, age) ==
    /\ entries' = IF id \in Stored THEN [entries EXCEPT ![id].created = now - age]
                                   ELSE entries
    /\ result' = NoResult
    /\ UNCHANGED <<faiss, index, id_map, vectors, tau, now>>

Fresh == {i \in Stored : ~Expired(entries[i], now)}

PurgeExpired ==
    /\ RebuildIndex(Keeping(Fresh))
    /\ result' = Removed(Cardinality(Stored) - Len(Keeping(Fresh)))
    /\ UNCHANGED <<faiss, tau, now>>

Clear ==
    /\ index' = <<>> /\ id_map' = <<>> /\ entries' = <<>> /\ vectors' = <<>>
    /\ result' = NoResult
    /\ UNCHANGED <<faiss, tau, now>>

\* POST /api/chat/pipeline sets the threshold of everybody.
SetTau(t) ==
    /\ tau' = IF t = 0 THEN tau ELSE t
    /\ result' = NoResult
    /\ UNCHANGED <<faiss, tables, now>>

Tick ==
    /\ now < MaxTime
    /\ now' = now + 1
    /\ result' = NoResult
    /\ UNCHANGED <<faiss, tables, tau>>

Init ==
    /\ faiss \in BOOLEAN
    /\ index = <<>> /\ id_map = <<>> /\ entries = <<>> /\ vectors = <<>>
    /\ tau = BaseThreshold
    /\ now = 0
    /\ result = NoResult

Next ==
    \/ \E ns \in Namespaces, q \in Prompts :
          \/ Lookup(ns, q)
          \/ \E id \in Ids, ttl \in Ttls : Admit(id, ns, q, ttl)
    \/ \E id \in Ids : Evict(id) \/ \E age \in Ages : SimulateAge(id, age)
    \/ PurgeExpired
    \/ Clear
    \/ \E t \in Taus : SetTau(t)
    \/ Tick

Spec == Init /\ [][Next]_vars

(***************************************************************************)
(* Properties.                                                             *)
(***************************************************************************)
Entry == [id : Ids, ns : Namespaces, prompt : Prompts, created : Int,
          ttl : Int]

\* The values of the four tables, the threshold and the clock.
TypeOK ==
    /\ faiss \in BOOLEAN
    /\ index \in Seq(Prompts) /\ id_map \in Seq(Ids)
    /\ Stored \subseteq Ids /\ entries \in [Stored -> Entry]
    /\ vectors \in [DOMAIN vectors -> Prompts]
    /\ tau \in Int /\ now \in Nat

\* Row i of the index is the vector of the entry whose id is in place i of
\* _id_map, each entry has one row, and the three tables know the same ids:
\* what lookup() needs for a row number to lead to the right response.
RowsMatchEntries ==
    /\ faiss => Len(index) = Len(id_map)
    /\ ToSet(id_map) = Stored /\ DOMAIN vectors = Stored
    /\ \A i, j \in 1..Len(id_map) : id_map[i] = id_map[j] => i = j
    /\ \A i \in 1..Len(id_map) :
          Rows[i] = entries[id_map[i]].prompt /\ Found(i).id = id_map[i]

\* The cache with its index implements the set of entries of SemanticStore:
\* whatever was admitted, evicted, purged or aged, a lookup answers with a
\* best admissible entry and misses only when there is none or when the
\* search was crowded out.
Abstract == INSTANCE SemanticStore WITH entries <- {entries[i] : i \in Stored}
ImplementsStore == Abstract!Spec
=============================================================================
