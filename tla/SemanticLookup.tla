--------------------------- MODULE SemanticLookup ---------------------------
(***************************************************************************)
(* What one lookup of the semantic (L2) cache may answer, as operators on  *)
(* a set of cache entries (semantic_cache.py, SemanticCache.lookup).       *)
(* Similarities and thresholds are integers 0..Scale, Scale standing for a *)
(* cosine of 1.0; the comparison with the age-aware threshold is made      *)
(* without division.                                                       *)
(***************************************************************************)
EXTENDS Integers, FiniteSets

CONSTANTS
    Prompts,       \* request bodies that a cache can tell apart
    Similarity,    \* Similarity[p][q]: inner product of the two embeddings
    Scale,         \* the similarity of identical prompts
    Neighbours,    \* k_neighbors: rows the index search returns
    Nothing        \* the lookup found nothing

ASSUME SimilarityAssumption ==
    /\ Scale \in Nat \ {0}
    /\ Neighbours \in Nat \ {0}
    /\ Similarity \in [Prompts -> [Prompts -> 0..Scale]]

\* What the methods of the cache return, a lookup with what it was asked.
Hit(ns, q, e) == <<"hit", ns, q, e>>
Miss(ns, q) == <<"miss", ns, q>>
Admitted(id) == <<"admitted", id>>
Evicted(yes) == <<"evicted", yes>>
Removed(n) == <<"removed", n>>
NoResult == <<>>

AgeOf(e, now) == IF now > e.created THEN now - e.created ELSE 0

Expired(e, now) == AgeOf(e, now) > e.ttl

\* similarity >= tau + (1 - tau) * min(1, age / ttl); a ttl <= 0 demands 1.0.
ReachesThreshold(s, tau, age, ttl) ==
    IF ttl <= 0 THEN s >= Scale
    ELSE LET a == IF age < ttl THEN age ELSE ttl
         IN  (s - tau) * ttl >= (Scale - tau) * a

\* Seeded bug: the namespace of the entry is not compared.
Keeps_AnyNamespace(e, score, ns, now, tau) ==
    /\ ~Expired(e, now)
    /\ ReachesThreshold(score, tau, AgeOf(e, now), e.ttl)

\* The test the loop over the search results applies to an entry.
Keeps(e, score, ns, now, tau) ==
    /\ e.ns = ns
    /\ ~Expired(e, now)
    /\ ReachesThreshold(score, tau, AgeOf(e, now), e.ttl)

\* An entry that may answer prompt q in namespace ns.
Admissible(e, ns, q, now, tau) ==
    Keeps(e, Similarity[q][e.prompt], ns, now, tau)

\* The possible results of index.search over all namespaces at once: any k
\* entries none of which is less similar than one left out.
TopK(entries, q) ==
    LET n == Cardinality(entries)
        k == IF Neighbours < n THEN Neighbours ELSE n
    IN  {S \in SUBSET entries :
            /\ Cardinality(S) = k
            /\ \A e \in S, f \in entries \ S :
                  Similarity[q][e.prompt] >= Similarity[q][f.prompt]}

Candidates(S, ns, q, now, tau) == {e \in S : Admissible(e, ns, q, now, tau)}

\* The most similar candidates of one search result; ties may go either way.
Best(S, ns, q, now, tau) ==
    {e \in Candidates(S, ns, q, now, tau) :
        \A f \in Candidates(S, ns, q, now, tau) :
            Similarity[q][e.prompt] >= Similarity[q][f.prompt]}

Answers(entries, ns, q, now, tau) ==
    UNION {LET best == Best(S, ns, q, now, tau)
           IN  IF best = {} THEN {Nothing} ELSE best : S \in TopK(entries, q)}

\* Entries, of any namespace, that crowd out every candidate.
Crowd(entries, ns, q, now, tau) ==
    {f \in entries : \A e \in Candidates(entries, ns, q, now, tau) :
        Similarity[q][f.prompt] >= Similarity[q][e.prompt]}

\* When a lookup is excused from an answer.
MayMiss(entries, ns, q, now, tau) ==
    \/ Candidates(entries, ns, q, now, tau) = {}
    \/ Cardinality(Crowd(entries, ns, q, now, tau)) >= Neighbours
=============================================================================
