------------------------- MODULE SemanticCache_proofs -------------------------
(***************************************************************************)
(* Proofs about the semantic cache: its tables agree whatever is called,   *)
(* one bounded search over all namespaces keeps the promise of             *)
(* SemanticStore, and the cache with its index implements SemanticStore.   *)
(***************************************************************************)
EXTENDS SemanticCache, SequenceTheorems, Totals_proofs, TLAPS

(***************************************************************************)
(* The ids to keep.                                                        *)
(*                                                                         *)
(* Keeping is a recursive function on the places of id_map.  That it       *)
(* exists, and what it keeps, is shown for the least place where it fails. *)
(***************************************************************************)
\* f[n] is what is kept of the first n places.
Kept(f, n, K) ==
    f = [m \in 0..n |->
            IF m = 0 THEN <<>>
            ELSE IF id_map[m] \in K THEN Append(f[m - 1], id_map[m])
                                    ELSE f[m - 1]]

LEMMA KeptExists ==
    ASSUME NEW n \in Nat, NEW K
    PROVE  \E f : Kept(f, n, K)
<1> DEFINE Bad == {m \in Nat : ~\E f : Kept(f, m, K)}
<1>1. SUFFICES ASSUME Bad # {} PROVE FALSE
    OBVIOUS
<1>2. PICK m \in Bad : \A k \in Bad : m <= k
  <2>1. Bad \in SUBSET Nat
      OBVIOUS
  <2> HIDE DEF Bad
  <2> QED BY <1>1, <2>1, LeastNat
<1>3. m \in Nat /\ ~\E f : Kept(f, m, K)
    OBVIOUS
<1>4. CASE m = 0
  <2> DEFINE f == [k \in 0..m |-> <<>>]
  <2>1. Kept(f, m, K)
      BY <1>3, <1>4 DEF Kept
  <2> QED BY <1>3, <2>1
<1>5. CASE m # 0
  <2>1. m - 1 \in Nat /\ m - 1 \notin Bad
      BY <1>2, <1>3, <1>5
  <2>2. PICK g : Kept(g, m - 1, K)
      BY <2>1
  <2> DEFINE f == [k \in 0..m |->
                      IF k = m THEN IF id_map[m] \in K
                                    THEN Append(g[m - 1], id_map[m])
                                    ELSE g[m - 1]
                               ELSE g[k]]
  <2>3. ASSUME NEW k \in 0..m
        PROVE  f[k] = IF k = 0 THEN <<>>
                      ELSE IF id_map[k] \in K THEN Append(f[k - 1], id_map[k])
                                              ELSE f[k - 1]
    <3>1. CASE k = m
        BY <1>3, <1>5, <3>1
    <3>2. CASE k # m
      <4>1. k \in 0..m - 1 /\ (k # 0 => k - 1 \in 0..m - 1)
          BY <1>3, <3>2
      <4>2. g[k] = IF k = 0 THEN <<>>
                   ELSE IF id_map[k] \in K THEN Append(g[k - 1], id_map[k])
                                           ELSE g[k - 1]
          BY <2>2, <4>1 DEF Kept
      <4>3. f[k] = g[k] /\ (k # 0 => f[k - 1] = g[k - 1])
          BY <1>3, <3>2, <4>1
      <4> QED BY <4>2, <4>3
    <3> QED BY <3>1, <3>2
  <2>4. Kept(f, m, K)
    <3> HIDE DEF f
    <3>1. f = [k \in 0..m |-> f[k]]
        BY DEF f
    <3> QED BY <2>3, <3>1 DEF Kept
  <2> QED BY <1>3, <2>4
<1> QED BY <1>4, <1>5

LEMMA KeepingDef ==
    ASSUME NEW K, Len(id_map) \in Nat
    PROVE  \E f : Kept(f, Len(id_map), K) /\ Keeping(K) = f[Len(id_map)]
<1> DEFINE f == CHOOSE g : Kept(g, Len(id_map), K)
<1>1. Kept(f, Len(id_map), K)
    BY KeptExists
<1>2. Keeping(K) = f[Len(id_map)]
    BY DEF Keeping, Kept
<1> QED BY <1>1, <1>2

\* The ids of the first n places, and a sequence of those in K.
Before(n) == {id_map[i] : i \in 1..n}

Once(s) == \A i, j \in 1..Len(s) : s[i] = s[j] => i = j

Picks(s, n, K) ==
    /\ s \in Seq(Ids)
    /\ \A x : x \in Before(n) \cap K <=> \E i \in 1..Len(s) : s[i] = x
    /\ Once(s)

LEMMA PicksAppend ==
    ASSUME NEW n \in Nat, n # 0, n <= Len(id_map), id_map \in Seq(Ids),
           Once(id_map), NEW K, NEW s, Picks(s, n - 1, K)
    PROVE  Picks(IF id_map[n] \in K THEN Append(s, id_map[n]) ELSE s, n, K)
<1>1. Len(id_map) \in Nat /\ n \in 1..Len(id_map) /\ id_map[n] \in Ids
    BY LenProperties, ElementOfSeq
<1>2. PICK y \in Ids : y = id_map[n]
    BY <1>1
<1>3. Before(n) = Before(n - 1) \cup {y}
    BY <1>1, <1>2 DEF Before
<1>4. y \notin Before(n - 1)
    BY <1>1, <1>2 DEF Before, Once
<1>5. s \in Seq(Ids) /\ Len(s) \in Nat
    BY LenProperties DEF Picks
<1>6. CASE y \in K
  <2>1. PICK t : t = Append(s, y)
      OBVIOUS
  <2>2. /\ t \in Seq(Ids) /\ Len(t) = Len(s) + 1 /\ t[Len(s) + 1] = y
        /\ \A i \in 1..Len(s) : t[i] = s[i]
      BY <1>5, <2>1
  <2>3. ASSUME NEW x
        PROVE  x \in Before(n) \cap K <=> \E i \in 1..Len(t) : t[i] = x
    <3>1. x \in Before(n - 1) \cap K <=> \E i \in 1..Len(s) : s[i] = x
        BY DEF Picks
    <3>2. (\E i \in 1..Len(t) : t[i] = x)
             <=> x = y \/ \E i \in 1..Len(s) : s[i] = x
        BY <1>5, <2>2
    <3> QED BY <1>3, <1>6, <3>1, <3>2
  <2>4. Once(t)
    <3>1. \A i \in 1..Len(s) : s[i] # y
        BY <1>4 DEF Picks
    <3>2. Once(s)
        BY DEF Picks
    <3> QED BY <1>5, <2>2, <3>1, <3>2 DEF Once
  <2>5. Picks(t, n, K)
      BY <2>2, <2>3, <2>4 DEF Picks
  <2> QED BY <1>2, <1>6, <2>1, <2>5
<1>7. CASE y \notin K
  <2>1. Before(n) \cap K = Before(n - 1) \cap K
      BY <1>3, <1>7
  <2> QED BY <1>2, <1>7, <2>1 DEF Picks
<1> QED BY <1>6, <1>7

LEMMA KeepingPicks ==
    ASSUME id_map \in Seq(Ids), Once(id_map), NEW K
    PROVE  Picks(Keeping(K), Len(id_map), K)
<1> DEFINE n == Len(id_map)
<1>1. n \in Nat
    BY LenProperties
<1>2. PICK f : Kept(f, n, K) /\ Keeping(K) = f[n]
    BY <1>1, KeepingDef
<1> DEFINE Bad == {m \in 0..n : ~Picks(f[m], m, K)}
<1>3. SUFFICES ASSUME Bad # {} PROVE FALSE
    BY <1>1, <1>2
<1>4. PICK m \in Bad : \A k \in Bad : m <= k
  <2>1. Bad \in SUBSET Nat
      BY <1>1
  <2> HIDE DEF Bad
  <2> QED BY <1>3, <2>1, LeastNat
<1>5. m \in 0..n /\ m \in Nat /\ ~Picks(f[m], m, K)
    BY <1>1
<1>6. f[m] = IF m = 0 THEN <<>>
             ELSE IF id_map[m] \in K THEN Append(f[m - 1], id_map[m])
                                     ELSE f[m - 1]
    BY <1>2, <1>5 DEF Kept
<1>7. CASE m = 0
  <2>1. Before(0) = {}
      BY DEF Before
  <2>2. Picks(<<>>, 0, K)
      BY <2>1 DEF Picks, Once
  <2> QED BY <1>5, <1>6, <1>7, <2>2
<1>8. CASE m # 0
  <2>1. PICK s : s = f[m - 1]
      OBVIOUS
  <2>2. Picks(s, m - 1, K)
      BY <1>1, <1>4, <1>5, <1>8, <2>1
  <2>3. Picks(IF id_map[m] \in K THEN Append(s, id_map[m]) ELSE s, m, K)
      BY <1>1, <1>5, <1>8, <2>2, PicksAppend
  <2> QED BY <1>5, <1>6, <1>8, <2>1, <2>3
<1> QED BY <1>7, <1>8

(***************************************************************************)
(* The tables.                                                             *)
(*                                                                         *)
(* RowsMatchEntries is not inductive where faiss is there: it says nothing *)
(* of the vectors then, which _rebuild_index makes the next index from.    *)
(***************************************************************************)
Aligned ==
    /\ Once(id_map)
    /\ \A x : x \in Stored <=> \E i \in 1..Len(id_map) : id_map[i] = x
    /\ DOMAIN vectors = Stored
    /\ \A id \in Stored :
          entries[id].id = id /\ entries[id].prompt = vectors[id]
    /\ faiss => /\ Len(index) = Len(id_map)
                /\ \A i \in 1..Len(id_map) : index[i] = vectors[id_map[i]]

IInv == TypeOK /\ Aligned

LEMMA TableFacts ==
    ASSUME IInv
    PROVE  /\ id_map \in Seq(Ids) /\ Len(id_map) \in Nat
           /\ DOMAIN id_map = 1..Len(id_map)
           /\ index \in Seq(Prompts) /\ Len(index) \in Nat
           /\ DOMAIN index = 1..Len(index)
           /\ \A i \in 1..Len(id_map) : id_map[i] \in Stored
           /\ \A id \in Stored : /\ id \in Ids /\ entries[id] \in Entry
                                 /\ vectors[id] \in Prompts
BY LenProperties DEF IInv, TypeOK, Aligned

LEMMA IInvMatches ==
    ASSUME IInv
    PROVE  RowsMatchEntries
<1>1. ToSet(id_map) = Stored
    BY TableFacts DEF IInv, Aligned, ToSet
<1>2. \A i \in 1..Len(id_map) : id_map[i] \in Stored
    BY TableFacts
<1>3. ASSUME NEW i \in 1..Len(id_map)
      PROVE  Rows[i] = entries[id_map[i]].prompt /\ Found(i).id = id_map[i]
  <2>1. Rows[i] = vectors[id_map[i]]
      BY TableFacts DEF IInv, Aligned, Rows
  <2> QED BY <1>2, <2>1 DEF IInv, Aligned, Found
<1> QED BY <1>1, <1>3 DEF IInv, Aligned, RowsMatchEntries, Once

LEMMA InitOK ==
    ASSUME Init
    PROVE  IInv
<1>1. TypeOK
    BY SettingsAssumption DEF Init, TypeOK, Stored
<1>2. Aligned
    BY DEF Init, Aligned, Once, Stored
<1> QED BY <1>1, <1>2 DEF IInv

LEMMA AdmitOK ==
    ASSUME IInv, NEW id \in Ids, NEW ns \in Namespaces, NEW q \in Prompts,
           NEW ttl \in Ttls, Admit(id, ns, q, ttl)
    PROVE  IInv'
<1> DEFINE n == Len(id_map)
<1>1. PICK e \in Entry : /\ e = [id |-> id, ns |-> ns, prompt |-> q,
                                 created |-> now, ttl |-> ttl]
                         /\ e.id = id /\ e.prompt = q
  <2>1. now \in Int /\ ttl \in Int
      BY SettingsAssumption DEF IInv, TypeOK
  <2> DEFINE x == [id |-> id, ns |-> ns, prompt |-> q,
                   created |-> now, ttl |-> ttl]
  <2>2. x \in Entry
      BY <2>1 DEF Entry
  <2>3. x.id = id /\ x.prompt = q
      OBVIOUS
  <2> QED BY <2>2, <2>3
<1>2. /\ Stored' = Stored \cup {id} /\ id \notin Stored /\ entries'[id] = e
      /\ \A i \in Stored : entries'[i] = entries[i]
      /\ entries' \in [Stored' -> Entry]
    BY <1>1, TableFacts DEF Admit, Stored
<1>3. /\ DOMAIN vectors' = Stored' /\ vectors'[id] = q
      /\ \A i \in Stored : vectors'[i] = vectors[i]
      /\ vectors' \in [DOMAIN vectors' -> Prompts]
    BY <1>2, TableFacts DEF Admit, IInv, Aligned
<1>4. /\ id_map' \in Seq(Ids) /\ Len(id_map') = n + 1 /\ id_map'[n + 1] = id
      /\ \A i \in 1..n : id_map'[i] = id_map[i]
    BY TableFacts DEF Admit
<1>5. /\ index' \in Seq(Prompts)
      /\ faiss => /\ Len(index') = Len(index) + 1 /\ index'[Len(index) + 1] = q
                  /\ \A i \in 1..Len(index) : index'[i] = index[i]
    BY TableFacts DEF Admit
<1>6. UNCHANGED <<faiss, tau, now>>
    BY DEF Admit
<1>7. TypeOK'
    BY <1>2, <1>3, <1>4, <1>5, <1>6 DEF IInv, TypeOK
<1>8. Once(id_map)'
    BY <1>2, <1>4, TableFacts DEF IInv, Aligned, Once
<1>9. ASSUME NEW x
      PROVE  x \in Stored' <=> \E i \in 1..Len(id_map') : id_map'[i] = x
  <2>1. x \in Stored <=> \E i \in 1..n : id_map[i] = x
      BY DEF IInv, Aligned
  <2> QED BY <1>2, <1>4, <2>1, TableFacts
<1>10. \A i \in Stored' : /\ entries'[i].id = i
                          /\ entries'[i].prompt = vectors'[i]
    BY <1>1, <1>2, <1>3 DEF IInv, Aligned
<1>11. faiss' => /\ Len(index') = Len(id_map')
                 /\ \A i \in 1..Len(id_map') : index'[i] = vectors'[id_map'[i]]
  <2> SUFFICES ASSUME faiss
               PROVE  /\ Len(index') = Len(id_map')
                      /\ \A i \in 1..Len(id_map') :
                            index'[i] = vectors'[id_map'[i]]
      BY <1>6
  <2>1. Len(index) = n /\ \A i \in 1..n : index[i] = vectors[id_map[i]]
      BY DEF IInv, Aligned
  <2> QED BY <1>3, <1>4, <1>5, <2>1, TableFacts
<1> QED BY <1>3, <1>7, <1>8, <1>9, <1>10, <1>11 DEF IInv, Aligned

LEMMA RebuildKeeps ==
    ASSUME IInv, NEW K \in SUBSET Stored, RebuildIndex(Keeping(K)),
           UNCHANGED <<faiss, tau, now>>
    PROVE  /\ IInv'
           /\ Stored' = K /\ \A id \in K : entries'[id] = entries[id]
<1>1. PICK keep : keep = Keeping(K)
    OBVIOUS
<1>2. Picks(keep, Len(id_map), K)
  <2>1. id_map \in Seq(Ids) /\ Once(id_map)
      BY TableFacts DEF IInv, Aligned
  <2> QED BY <1>1, <2>1, KeepingPicks
<1>3. /\ keep \in Seq(Ids) /\ Len(keep) \in Nat /\ DOMAIN keep = 1..Len(keep)
      /\ Once(keep)
    BY <1>2, LenProperties DEF Picks
<1>4. \A x : x \in K <=> \E i \in 1..Len(keep) : keep[i] = x
  <2>1. Before(Len(id_map)) = Stored
      BY TableFacts DEF Before, IInv, Aligned
  <2> QED BY <1>2, <2>1 DEF Picks
<1>5. ToSet(keep) = K
    BY <1>3, <1>4 DEF ToSet
<1>6. /\ id_map' = keep
      /\ entries' = [i \in K |-> entries[i]] /\ vectors' = [i \in K |-> vectors[i]]
      /\ index' = IF faiss THEN [i \in 1..Len(keep) |-> vectors[keep[i]]]
                           ELSE index
    BY <1>1, <1>5 DEF RebuildIndex
<1>7. Stored' = K
    BY <1>6 DEF Stored
<1>8. \A i \in 1..Len(keep) : keep[i] \in K /\ vectors[keep[i]] \in Prompts
    BY <1>4, TableFacts
<1>9. index' \in Seq(Prompts) /\ (faiss => Len(index') = Len(keep))
  <2>1. CASE faiss
    <3>1. index' \in [1..Len(keep) -> Prompts]
        BY <1>6, <1>8, <2>1
    <3> QED BY <1>3, <3>1, SeqDef, LenProperties
  <2>2. CASE ~faiss
      BY <1>6, <2>2, TableFacts
  <2> QED BY <2>1, <2>2
<1>10. TypeOK'
  <2>1. entries' \in [Stored' -> Entry] /\ vectors' \in [DOMAIN vectors' -> Prompts]
      BY <1>6, <1>7, TableFacts
  <2>2. Stored' \subseteq Ids
      BY <1>7, TableFacts
  <2> QED BY <1>3, <1>6, <1>9, <2>1, <2>2 DEF IInv, TypeOK
<1>11. Aligned'
  <2>1. \A i \in Stored' : /\ entries'[i].id = i
                           /\ entries'[i].prompt = vectors'[i]
      BY <1>6, <1>7 DEF IInv, Aligned
  <2>2. faiss' => \A i \in 1..Len(keep) : index'[i] = vectors'[keep[i]]
      BY <1>6, <1>8
  <2> QED BY <1>3, <1>4, <1>6, <1>7, <1>9, <2>1, <2>2 DEF Aligned
<1> QED BY <1>6, <1>7, <1>10, <1>11 DEF IInv

LEMMA EvictOK ==
    ASSUME IInv, NEW id, Evict(id)
    PROVE  IInv'
<1>1. CASE id \in Stored
  <2>1. PICK K \in SUBSET Stored : K = Stored \ {id}
      OBVIOUS
  <2>2. RebuildIndex(Keeping(K)) /\ UNCHANGED <<faiss, tau, now>>
      BY <1>1, <2>1 DEF Evict
  <2> QED BY <2>2, RebuildKeeps
<1>2. CASE id \notin Stored
    BY <1>2 DEF Evict, tables, IInv, TypeOK, Aligned, Stored, Once
<1> QED BY <1>1, <1>2

LEMMA PurgeOK ==
    ASSUME IInv, PurgeExpired
    PROVE  IInv'
<1>1. PICK K \in SUBSET Stored : K = Fresh
    BY DEF Fresh
<1>2. RebuildIndex(Keeping(K)) /\ UNCHANGED <<faiss, tau, now>>
    BY <1>1 DEF PurgeExpired
<1> QED BY <1>2, RebuildKeeps

\* Ageing an entry changes nothing but its age.
LEMMA SimulateAgeSets ==
    ASSUME IInv, NEW id, NEW age \in Ages, SimulateAge(id, age)
    PROVE  /\ Stored' = Stored /\ entries' \in [Stored -> Entry]
           /\ \A i \in Stored :
                 entries'[i] = IF i = id THEN [entries[i] EXCEPT !.created = now - age]
                                         ELSE entries[i]
<1>1. CASE id \in Stored
  <2>1. \A i \in Stored : [entries[i] EXCEPT !.created = now - age] \in Entry
    <3>1. now - age \in Int
        BY SettingsAssumption DEF IInv, TypeOK
    <3>2. \A i \in Stored : entries[i] \in Entry
        BY TableFacts
    <3> QED BY <3>1, <3>2 DEF Entry
  <2>2. entries' = [entries EXCEPT ![id] = [entries[id] EXCEPT !.created = now - age]]
      BY <1>1 DEF SimulateAge
  <2>3. entries \in [Stored -> Entry]
      BY DEF IInv, TypeOK
  <2> QED BY <1>1, <2>1, <2>2, <2>3 DEF Stored
<1>2. CASE id \notin Stored
    BY <1>2 DEF SimulateAge, Stored, IInv, TypeOK
<1> QED BY <1>1, <1>2

LEMMA SimulateAgeOK ==
    ASSUME IInv, NEW id, NEW age \in Ages, SimulateAge(id, age)
    PROVE  IInv'
<1>1. /\ Stored' = Stored /\ entries' \in [Stored -> Entry]
      /\ \A i \in Stored :
            entries'[i] = IF i = id THEN [entries[i] EXCEPT !.created = now - age]
                                    ELSE entries[i]
    BY SimulateAgeSets
<1>2. UNCHANGED <<faiss, index, id_map, vectors, tau, now>>
    BY DEF SimulateAge
<1>3. \A i \in Stored : /\ entries'[i].id = entries[i].id
                        /\ entries'[i].prompt = entries[i].prompt
    BY <1>1, TableFacts DEF Entry
<1>4. TypeOK'
    BY <1>1, <1>2 DEF IInv, TypeOK
<1>5. Aligned'
    BY <1>1, <1>2, <1>3 DEF IInv, Aligned, Once
<1> QED BY <1>4, <1>5 DEF IInv

LEMMA ClearOK ==
    ASSUME IInv, Clear
    PROVE  IInv'
<1>1. TypeOK'
    BY DEF Clear, IInv, TypeOK, Stored
<1>2. Aligned'
    BY DEF Clear, Aligned, Once, Stored
<1> QED BY <1>1, <1>2 DEF IInv

LEMMA StepOK ==
    ASSUME IInv, [Next]_vars
    PROVE  IInv'
<1>1. ASSUME UNCHANGED <<faiss, tables>>, tau' \in Int, now' \in Nat
      PROVE  IInv'
    BY <1>1 DEF tables, IInv, TypeOK, Aligned, Stored, Once
<1>2. tau \in Int /\ now \in Nat
    BY DEF IInv, TypeOK
<1>3. ASSUME NEW ns \in Namespaces, NEW q \in Prompts, Lookup(ns, q)
      PROVE  IInv'
    BY <1>1, <1>2, <1>3 DEF Lookup
<1>4. ASSUME NEW ns \in Namespaces, NEW q \in Prompts, NEW id \in Ids,
             NEW ttl \in Ttls, Admit(id, ns, q, ttl)
      PROVE  IInv'
    BY <1>4, AdmitOK
<1>5. ASSUME NEW id \in Ids, Evict(id)
      PROVE  IInv'
    BY <1>5, EvictOK
<1>6. ASSUME NEW id \in Ids, NEW age \in Ages, SimulateAge(id, age)
      PROVE  IInv'
    BY <1>6, SimulateAgeOK
<1>7. CASE PurgeExpired
    BY <1>7, PurgeOK
<1>8. CASE Clear
    BY <1>8, ClearOK
<1>9. ASSUME NEW t \in Taus, SetTau(t)
      PROVE  IInv'
    BY <1>1, <1>2, <1>9, SettingsAssumption DEF SetTau
<1>10. CASE Tick
    BY <1>1, <1>2, <1>10 DEF Tick
<1>11. CASE UNCHANGED vars
    BY <1>1, <1>2, <1>11 DEF vars
<1> QED BY <1>3, <1>4, <1>5, <1>6, <1>7, <1>8, <1>9, <1>10, <1>11 DEF Next

LEMMA Invariant == Spec => []IInv
<1>1. Init => IInv
    BY InitOK
<1>2. IInv /\ [Next]_vars => IInv'
    BY StepOK
<1> QED BY <1>1, <1>2, PTL DEF Spec

\* The four tables, the threshold and the clock keep their types.
THEOREM CacheTyped == Spec => []TypeOK
<1>1. IInv => TypeOK
    BY DEF IInv
<1> QED BY <1>1, Invariant, PTL

\* Whatever is admitted, evicted, aged, purged or cleared, with faiss or
\* without, a row number leads to the entry whose vector is in that row.
THEOREM RowsLeadToEntries == Spec => []RowsMatchEntries
<1>1. IInv => RowsMatchEntries
    BY IInvMatches
<1> QED BY <1>1, Invariant, PTL

(***************************************************************************)
(* One search.                                                             *)
(***************************************************************************)
\* A nonempty set of numbers up to n has a greatest element.
LEMMA GreatestExists ==
    ASSUME NEW n \in Nat, NEW V, V \subseteq 0..n, V # {}
    PROVE  \E v \in V : \A w \in V : w <= v
<1> DEFINE T == {n - v : v \in V}
<1>1. T \in SUBSET Nat /\ T # {}
  <2>1. \A v \in V : n - v \in Nat
    BY SMT
  <2> QED BY <2>1
<1>2. PICK x \in T : \A y \in T : x <= y
  <2> HIDE DEF T
  <2> QED BY <1>1, LeastNat
<1>3. PICK v \in V : x = n - v
    OBVIOUS
<1>4. ASSUME NEW w \in V PROVE w <= v
  <2>1. n - v <= n - w
    BY <1>2, <1>3
  <2>2. n \in Int /\ v \in Int /\ w \in Int
    OBVIOUS
  <2> QED BY <2>1, <2>2
<1> QED BY <1>4

\* One search result, seen from a candidate of the caller's namespace.
LEMMA SearchRanks ==
    ASSUME NEW E, NEW q \in Prompts, NEW S \in TopK(E, q), NEW e \in S,
           NEW f \in E, f \notin S
    PROVE  Similarity[q][e.prompt] >= Similarity[q][f.prompt]
BY DEF TopK

LEMMA SearchSize ==
    ASSUME NEW E, IsFiniteSet(E), NEW q \in Prompts, NEW S \in TopK(E, q),
           S # E
    PROVE  IsFiniteSet(S) /\ Cardinality(S) = Neighbours
<1>1. S \subseteq E
    BY DEF TopK
<1>2. S \subseteq E /\ IsFiniteSet(S)
    BY <1>1, FS_Subset
<1>3. /\ Cardinality(S) # Cardinality(E)
      /\ Cardinality(S) <= Cardinality(E)
    BY <1>2, FS_Subset
<1>4. Cardinality(S) \in Nat /\ Cardinality(E) \in Nat
    BY <1>2, FS_CardinalityType
<1>5. Cardinality(S) = IF Neighbours < Cardinality(E) THEN Neighbours
                       ELSE Cardinality(E)
    BY DEF TopK
<1> QED BY <1>2, <1>3, <1>4, <1>5

\* The best of a search is the best of the cache.
LEMMA BestIsBest ==
    ASSUME NEW E, \A e \in E : e.prompt \in Prompts, NEW ns, NEW q \in Prompts,
           NEW t, NEW th, NEW S \in TopK(E, q), NEW x \in Best(S, ns, q, t, th)
    PROVE  x \in Best(E, ns, q, t, th)
<1>1. S \subseteq E
    BY DEF TopK
<1>2. \A e, f \in E :
         Similarity[q][e.prompt] \in Int /\ Similarity[q][f.prompt] \in Int
    BY SimilarityAssumption
<1>3. x \in S /\ x \in Candidates(E, ns, q, t, th)
    BY <1>1 DEF Best, Candidates
<1>4. ASSUME NEW f \in Candidates(E, ns, q, t, th)
      PROVE  Similarity[q][x.prompt] >= Similarity[q][f.prompt]
  <2>1. CASE f \in S
      BY <1>4, <2>1 DEF Best, Candidates
  <2>2. CASE f \notin S
      BY <1>3, <1>4, <2>2, SearchRanks DEF Candidates
  <2> QED BY <2>1, <2>2
<1> QED BY <1>3, <1>4 DEF Best

\* A search without a candidate found none, or was crowded out.
LEMMA MissIsExcused ==
    ASSUME NEW E, IsFiniteSet(E), \A e \in E : e.prompt \in Prompts,
           NEW ns, NEW q \in Prompts, NEW t, NEW th, NEW S \in TopK(E, q),
           Best(S, ns, q, t, th) = {}
    PROVE  MayMiss(E, ns, q, t, th)
<1> DEFINE C == Candidates(E, ns, q, t, th)
<1>1. S \subseteq E
    BY DEF TopK
<1>2. \A e, f \in E :
         Similarity[q][e.prompt] \in Int /\ Similarity[q][f.prompt] \in Int
    BY SimilarityAssumption
<1>3. CASE C = {}
    BY <1>3 DEF MayMiss
<1>4. CASE C # {} /\ S \cap C = {}
  <2>1. S # E
      BY <1>4 DEF Candidates
  <2>2. IsFiniteSet(S) /\ Cardinality(S) = Neighbours
      BY <2>1, SearchSize
  <2>3. S \subseteq Crowd(E, ns, q, t, th)
      BY <1>1, <1>4, SearchRanks DEF Crowd, Candidates
  <2>4. IsFiniteSet(Crowd(E, ns, q, t, th))
      BY FS_Subset DEF Crowd
  <2>5. Cardinality(S) <= Cardinality(Crowd(E, ns, q, t, th))
      BY <2>3, <2>4, FS_Subset
  <2>6. Cardinality(Crowd(E, ns, q, t, th)) >= Neighbours
      BY <2>2, <2>4, <2>5, FS_CardinalityType, SimilarityAssumption
  <2> QED BY <2>6 DEF MayMiss
<1>5. CASE S \cap C # {}
  <2> DEFINE D == S \cap C
             V == {Similarity[q][e.prompt] : e \in D}
  <2>1. V \subseteq 0..Scale /\ V # {} /\ Scale \in Nat
      BY <1>1, <1>5, SimilarityAssumption
  <2>2. PICK v \in V : \A w \in V : w <= v
      <3> HIDE DEF V
      <3> QED BY <2>1, GreatestExists
  <2>3. D = Candidates(S, ns, q, t, th)
      BY <1>1 DEF Candidates
  <2>4. \E e \in D : \A f \in D :
           Similarity[q][e.prompt] >= Similarity[q][f.prompt]
      BY <2>1, <2>2
  <2> QED BY <2>3, <2>4 DEF Best
<1> QED BY <1>3, <1>4, <1>5

(***************************************************************************)
(* A lookup answers with a best admissible entry of the caller's namespace,*)
(* or with nothing, which it may only do when no entry is admissible or    *)
(* when Neighbours entries of any namespace are at least as similar to the *)
(* prompt as every admissible one: for every set of entries, every clock   *)
(* and every threshold (semantic_cache.py: lookup filters the namespace    *)
(* after a search for k_neighbors rows of all namespaces).                 *)
(***************************************************************************)
THEOREM LookupKeepsPromise ==
    ASSUME NEW E, IsFiniteSet(E), \A e \in E : e.prompt \in Prompts,
           NEW ns, NEW q \in Prompts, NEW t, NEW th,
           NEW x \in Answers(E, ns, q, t, th)
    PROVE  \/ x \in Best(E, ns, q, t, th)
           \/ x = Nothing /\ MayMiss(E, ns, q, t, th)
<1> PICK S \in TopK(E, q) :
        \/ x \in Best(S, ns, q, t, th)
        \/ Best(S, ns, q, t, th) = {} /\ x = Nothing
    BY DEF Answers
<1>1. CASE x \in Best(S, ns, q, t, th)
    BY <1>1, BestIsBest
<1>2. CASE Best(S, ns, q, t, th) = {} /\ x = Nothing
    BY <1>2, MissIsExcused
<1> QED BY <1>1, <1>2

(***************************************************************************)
(* The tables seen as a set of entries.                                    *)
(***************************************************************************)
Held == {entries[i] : i \in Stored}

LEMMA HeldFacts ==
    ASSUME IInv
    PROVE  /\ \A e \in Held : e \in Entry /\ e.id \in Stored
                             /\ entries[e.id] = e /\ e.prompt \in Prompts
           /\ \A i \in Stored : entries[i] \in Held /\ entries[i].id = i
<1>1. \A i \in Stored : entries[i].id = i /\ entries[i] \in Entry
    BY TableFacts DEF IInv, Aligned
<1>2. \A i \in Stored : entries[i].prompt \in Prompts
    BY <1>1 DEF Entry
<1> QED BY <1>1, <1>2 DEF Held

\* The rows, the ids and the entries are as many.
FoundAt == [i \in 1..Len(id_map) |-> Found(i)]

LEMMA RowsPaired ==
    ASSUME IInv
    PROVE  /\ Pairs(id_map, 1..Len(id_map), Stored)
           /\ Pairs(entries, Stored, Held)
           /\ Pairs(FoundAt, 1..Len(id_map), Held)
<1>1. Pairs(id_map, 1..Len(id_map), Stored)
    BY DEF IInv, Aligned, Once, Pairs
<1>2. Pairs(entries, Stored, Held)
    BY HeldFacts DEF Pairs, Held
<1>3. \A i \in 1..Len(id_map) : FoundAt[i] = entries[id_map[i]]
    BY DEF FoundAt, Found
<1> QED BY <1>1, <1>2, <1>3 DEF Pairs

LEMMA HeldFinite ==
    ASSUME IInv
    PROVE  /\ IsFiniteSet(Stored) /\ Cardinality(Stored) = Len(id_map)
           /\ IsFiniteSet(Held) /\ Cardinality(Held) = Len(id_map)
<1>1. Len(id_map) \in Nat
    BY TableFacts
<1>2. IsFiniteSet(1..Len(id_map)) /\ Cardinality(1..Len(id_map)) = Len(id_map)
    BY <1>1, FS_Interval
<1>3. PICK P : P = 1..Len(id_map)
    OBVIOUS
<1>4. PICK s : s = Stored
    OBVIOUS
<1>5. PICK h : h = Held
    OBVIOUS
<1>6. Pairs(id_map, P, s) /\ Pairs(entries, s, h)
    BY <1>3, <1>4, <1>5, RowsPaired
<1>7. IsFiniteSet(s) /\ Cardinality(s) = Cardinality(P)
    BY <1>2, <1>3, <1>6, PairedSize
<1>8. IsFiniteSet(h) /\ Cardinality(h) = Cardinality(s)
    BY <1>6, <1>7, PairedSize
<1> QED BY <1>2, <1>3, <1>4, <1>5, <1>7, <1>8

LEMMA RowFacts ==
    ASSUME IInv
    PROVE  /\ Len(Rows) = Len(id_map)
           /\ \A i \in 1..Len(id_map) : /\ Rows[i] = FoundAt[i].prompt
                                        /\ FoundAt[i] = Found(i)
                                        /\ FoundAt[i] \in Held
                                        /\ id_map[i] \in Stored
<1>1. \A i \in 1..Len(id_map) : id_map[i] \in Stored
    BY TableFacts
<1>2. \A i \in 1..Len(id_map) : Rows[i] = Found(i).prompt
    BY IInvMatches DEF RowsMatchEntries, Found
<1>3. Len(Rows) = Len(id_map)
    BY TableFacts DEF IInv, Aligned, Rows
<1>4. \A i \in 1..Len(id_map) : FoundAt[i] = Found(i)
    BY DEF FoundAt
<1> QED BY <1>1, <1>2, <1>3, <1>4, HeldFacts DEF Found

LEMMA LeastOfTwo ==
    ASSUME NEW a \in Nat, NEW b \in Nat
    PROVE  Min({a, b, b}) = IF a < b THEN a ELSE b
<1> DEFINE m == IF a < b THEN a ELSE b
<1>1. m \in {a, b, b} /\ \A y \in {a, b, b} : m <= y
    OBVIOUS
<1>2. ASSUME NEW x \in {a, b, b}, \A y \in {a, b, b} : x <= y
      PROVE  x = m
    BY <1>2
<1> HIDE DEF m
<1>3. Min({a, b, b}) = m
    BY <1>1, <1>2 DEF Min
<1> QED BY <1>3 DEF m

\* The entries in the rows of one search of the index are a result of a search
\* of the set of entries.
LEMMA SearchIsTopK ==
    ASSUME IInv, NEW q \in Prompts, NEW S \in Search(q)
    PROVE  /\ S \subseteq 1..Len(id_map)
           /\ {FoundAt[i] : i \in S} \in TopK(Held, q)
<1>1. PICK n : n = Len(id_map)
    OBVIOUS
<1>2. /\ n \in Nat /\ Len(Rows) = n /\ Cardinality(Held) = n
      /\ Neighbours \in Nat
    BY <1>1, TableFacts, RowFacts, HeldFinite, SimilarityAssumption
<1>3. Min({Neighbours, Len(id_map), Len(Rows)})
         = IF Neighbours < n THEN Neighbours ELSE n
  <2>1. Min({Neighbours, n, n}) = IF Neighbours < n THEN Neighbours ELSE n
      BY <1>2, LeastOfTwo
  <2> QED BY <1>1, <1>2, <2>1
<1>4. /\ S \subseteq 1..n
      /\ Cardinality(S) = IF Neighbours < n THEN Neighbours ELSE n
      /\ \A i \in S, j \in (1..n) \ S :
            Similarity[q][Rows[i]] >= Similarity[q][Rows[j]]
    BY <1>1, <1>2, <1>3 DEF Search, kSubset
<1>5. PICK T : T = {FoundAt[i] : i \in S}
    OBVIOUS
<1>6. T \subseteq Held
    BY <1>1, <1>4, <1>5, RowFacts
<1>7. Cardinality(T) = Cardinality(S)
  <2>1. IsFiniteSet(S)
    <3>1. \A m \in Nat : IsFiniteSet(1..m)
        BY FS_Interval
    <3> QED BY <1>2, <1>4, <3>1, FS_Subset
  <2>2. Pairs(FoundAt, S, T)
    <3>1. \A i, j \in S : FoundAt[i] = FoundAt[j] => i = j
        BY <1>1, <1>4, RowsPaired DEF Pairs
    <3> QED BY <1>5, <3>1 DEF Pairs
  <2> QED BY <2>1, <2>2, PairedSize
<1>8. ASSUME NEW e \in T, NEW f \in Held \ T
      PROVE  Similarity[q][e.prompt] >= Similarity[q][f.prompt]
  <2>1. PICK i \in S : e = FoundAt[i]
      BY <1>5
  <2>2. PICK j \in 1..n : f = FoundAt[j]
      BY <1>1, RowsPaired DEF Pairs
  <2>3. j \notin S
      BY <1>5, <1>8, <2>2
  <2>4. Rows[i] = e.prompt /\ Rows[j] = f.prompt
      BY <1>1, <1>4, <2>1, <2>2, RowFacts
  <2> QED BY <1>4, <2>3, <2>4
<1>9. T \in TopK(Held, q)
    BY <1>2, <1>4, <1>6, <1>7, <1>8 DEF TopK
<1> QED BY <1>1, <1>4, <1>5, <1>9

LEMMA BestHitIsBest ==
    ASSUME IInv, NEW ns, NEW q \in Prompts, NEW S, S \subseteq 1..Len(id_map),
           NEW T, T = {FoundAt[i] : i \in S}, NEW i \in S
    PROVE  i \in BestHits(S, ns, q) <=> FoundAt[i] \in Best(T, ns, q, now, tau)
<1>1. ASSUME NEW j \in S
      PROVE  /\ j \in Hits(S, ns, q)
                   <=> FoundAt[j] \in Candidates(T, ns, q, now, tau)
             /\ Rows[j] = FoundAt[j].prompt
  <2>1. /\ j \in 1..Len(id_map) /\ j <= Len(id_map)
        /\ Rows[j] = FoundAt[j].prompt /\ FoundAt[j] = entries[id_map[j]]
        /\ id_map[j] \in Stored
      BY RowFacts, TableFacts DEF Found
  <2> QED BY <2>1 DEF Hits, Candidates, Admissible
<1>2. \A e \in Candidates(T, ns, q, now, tau) :
         \E j \in S : e = FoundAt[j]
    BY DEF Candidates
<1>3. Hits(S, ns, q) \subseteq S
    BY DEF Hits
<1> DEFINE C == Candidates(T, ns, q, now, tau)
           sim(p) == Similarity[q][p]
<1>4. i \in BestHits(S, ns, q)
         <=> /\ i \in Hits(S, ns, q)
             /\ \A j \in Hits(S, ns, q) : sim(Rows[i]) >= sim(Rows[j])
    BY DEF BestHits
<1>5. FoundAt[i] \in Best(T, ns, q, now, tau)
         <=> /\ FoundAt[i] \in C
             /\ \A f \in C : sim(FoundAt[i].prompt) >= sim(f.prompt)
    BY DEF Best
<1>6. (\A j \in Hits(S, ns, q) : sim(Rows[i]) >= sim(Rows[j]))
         <=> \A f \in C : sim(FoundAt[i].prompt) >= sim(f.prompt)
  <2> HIDE DEF C, sim
  <2>1. \A j \in S : /\ j \in Hits(S, ns, q) <=> FoundAt[j] \in C
                    /\ Rows[j] = FoundAt[j].prompt
      BY <1>1 DEF C
  <2>2. \A f \in C : \E j \in S : f = FoundAt[j]
      BY <1>2 DEF C
  <2>3. ASSUME \A j \in Hits(S, ns, q) : sim(Rows[i]) >= sim(Rows[j]),
               NEW f \in C
        PROVE  sim(FoundAt[i].prompt) >= sim(f.prompt)
    <3>1. PICK j \in S : f = FoundAt[j]
        BY <2>2
    <3>2. sim(Rows[i]) >= sim(Rows[j])
        BY <2>1, <2>3, <3>1
    <3>3. Rows[i] = FoundAt[i].prompt /\ Rows[j] = f.prompt
        BY <2>1, <3>1
    <3> QED BY <3>2, <3>3
  <2>4. ASSUME \A f \in C : sim(FoundAt[i].prompt) >= sim(f.prompt),
               NEW j \in Hits(S, ns, q)
        PROVE  sim(Rows[i]) >= sim(Rows[j])
    <3>1. sim(FoundAt[i].prompt) >= sim(FoundAt[j].prompt)
        BY <1>3, <2>1, <2>4
    <3>2. Rows[i] = FoundAt[i].prompt /\ Rows[j] = FoundAt[j].prompt
        BY <1>3, <2>1
    <3> QED BY <3>1, <3>2
  <2> QED BY <2>3, <2>4
<1> QED BY <1>1, <1>4, <1>5, <1>6

(***************************************************************************)
(* One step of the tables is one step of the set.                          *)
(***************************************************************************)
\* Both modules take the operators of SemanticLookup.
LEMMA SameCardinality == \A S : Abstract!Cardinality(S) = Cardinality(S)
BY DEF Abstract!Cardinality, Cardinality

LEMMA SameLookup ==
    ASSUME NEW E, NEW ns, NEW q, NEW t, NEW th
    PROVE  /\ Abstract!Best(E, ns, q, t, th) = Best(E, ns, q, t, th)
           /\ Abstract!MayMiss(E, ns, q, t, th) = MayMiss(E, ns, q, t, th)
<1>1. \A e, s : Abstract!Keeps(e, s, ns, t, th) = Keeps(e, s, ns, t, th)
    BY DEF Abstract!Keeps, Keeps, Abstract!Expired, Expired, Abstract!AgeOf,
           AgeOf, Abstract!ReachesThreshold, ReachesThreshold
<1>2. \A S : Abstract!Candidates(S, ns, q, t, th) = Candidates(S, ns, q, t, th)
    BY <1>1 DEF Abstract!Candidates, Candidates, Abstract!Admissible, Admissible
<1>3. Abstract!Best(E, ns, q, t, th) = Best(E, ns, q, t, th)
    BY <1>2 DEF Abstract!Best, Best
<1>4. Abstract!Crowd(E, ns, q, t, th) = Crowd(E, ns, q, t, th)
    BY <1>2 DEF Abstract!Crowd, Crowd
<1>5. Abstract!MayMiss(E, ns, q, t, th) = MayMiss(E, ns, q, t, th)
    BY <1>2, <1>4, SameCardinality DEF Abstract!MayMiss, MayMiss
<1> QED BY <1>3, <1>5

LEMMA SameResults ==
    /\ \A ns, q, e : Abstract!Hit(ns, q, e) = Hit(ns, q, e)
    /\ \A ns, q : Abstract!Miss(ns, q) = Miss(ns, q)
    /\ \A x : /\ Abstract!Admitted(x) = Admitted(x)
              /\ Abstract!Evicted(x) = Evicted(x)
              /\ Abstract!Removed(x) = Removed(x)
    /\ Abstract!NoResult = NoResult
    /\ \A e, t : Abstract!Expired(e, t) = Expired(e, t)
BY DEF Abstract!Hit, Hit, Abstract!Miss, Miss, Abstract!Admitted, Admitted,
       Abstract!Evicted, Evicted, Abstract!Removed, Removed, Abstract!NoResult,
       NoResult, Abstract!Expired, Expired, Abstract!AgeOf, AgeOf

LEMMA LookupMaps ==
    ASSUME IInv, NEW ns \in Namespaces, NEW q \in Prompts, Lookup(ns, q)
    PROVE  Abstract!Lookup(ns, q)
<1>1. PICK S \in Search(q) :
          \/ BestHits(S, ns, q) = {} /\ result' = Miss(ns, q)
          \/ \E i \in BestHits(S, ns, q) : result' = Hit(ns, q, Found(i))
    BY DEF Lookup
<1>2. PICK T : T = {FoundAt[i] : i \in S}
    OBVIOUS
<1>3. S \subseteq 1..Len(id_map) /\ T \in TopK(Held, q)
    BY <1>2, SearchIsTopK
<1>4. PICK E : E = Held
    OBVIOUS
<1>5. T \in TopK(E, q) /\ IsFiniteSet(E) /\ \A e \in E : e.prompt \in Prompts
    BY <1>3, <1>4, HeldFinite, HeldFacts
<1>6. \A i \in S : i \in BestHits(S, ns, q)
                      <=> FoundAt[i] \in Best(T, ns, q, now, tau)
    BY <1>2, <1>3, BestHitIsBest
<1>7. /\ Held' = Held /\ UNCHANGED <<tau, now>>
    BY DEF Lookup, tables, Held, Stored
<1>8. CASE BestHits(S, ns, q) = {} /\ result' = Miss(ns, q)
  <2>1. Best(T, ns, q, now, tau) \subseteq T
      BY DEF Best, Candidates
  <2>2. Best(T, ns, q, now, tau) = {}
      BY <1>2, <1>6, <1>8, <2>1
  <2>3. MayMiss(E, ns, q, now, tau)
      BY <1>5, <2>2, MissIsExcused
  <2> QED BY <1>4, <1>7, <1>8, <2>3, SameLookup, SameResults DEF Abstract!Lookup, Held
<1>9. ASSUME NEW i \in BestHits(S, ns, q), result' = Hit(ns, q, Found(i))
      PROVE  Abstract!Lookup(ns, q)
  <2>1. i \in S
      BY DEF BestHits, Hits
  <2>2. PICK x : x = FoundAt[i] /\ x = Found(i)
      BY <1>3, <2>1, RowFacts
  <2>3. x \in Best(T, ns, q, now, tau)
      BY <1>6, <2>1, <2>2
  <2>4. x \in Best(E, ns, q, now, tau)
      BY <1>5, <2>3, BestIsBest
  <2>5. x \in Abstract!Best(E, ns, q, now, tau)
      BY <2>4, SameLookup
  <2>6. result' = Abstract!Hit(ns, q, x)
      BY <1>9, <2>2, SameResults
  <2> QED BY <1>4, <1>7, <2>5, <2>6 DEF Abstract!Lookup, Held
<1> QED BY <1>1, <1>8, <1>9

LEMMA AdmitMaps ==
    ASSUME IInv, NEW id \in Ids, NEW ns \in Namespaces, NEW q \in Prompts,
           NEW ttl \in Ttls, Admit(id, ns, q, ttl)
    PROVE  Abstract!Admit(id, ns, q, ttl)
<1>1. PICK e : e = [id |-> id, ns |-> ns, prompt |-> q, created |-> now,
                    ttl |-> ttl]
    OBVIOUS
<1>2. /\ Stored' = Stored \cup {id} /\ id \notin Stored /\ entries'[id] = e
      /\ \A i \in Stored : entries'[i] = entries[i]
    BY <1>1 DEF Admit, Stored
<1>3. Held' = Held \cup {e}
    BY <1>2 DEF Held
<1>4. \A x \in Held : x.id # id
    BY <1>2, HeldFacts
<1> QED BY <1>1, <1>3, <1>4, SameResults DEF Admit, Abstract!Admit, Held

\* What is left of the set when only the ids of K are kept.
LEMMA HeldKept ==
    ASSUME IInv, NEW K \in SUBSET Stored, Stored' = K,
           \A id \in K : entries'[id] = entries[id]
    PROVE  Held' = {e \in Held : e.id \in K}
<1>1. \A e \in Held : e.id \in K => e = entries[e.id]
    BY HeldFacts
<1>2. \A i \in K : entries[i] \in Held /\ entries[i].id = i
    BY HeldFacts
<1> QED BY <1>1, <1>2 DEF Held

LEMMA EvictMaps ==
    ASSUME IInv, NEW id \in Ids, Evict(id)
    PROVE  Abstract!Evict(id)
<1>1. UNCHANGED <<tau, now>>
    BY DEF Evict
<1>2. Held' = {e \in Held : e.id # id}
  <2>1. CASE id \in Stored
    <3>1. PICK K \in SUBSET Stored : K = Stored \ {id}
        OBVIOUS
    <3>2. RebuildIndex(Keeping(K)) /\ UNCHANGED <<faiss, tau, now>>
        BY <2>1, <3>1 DEF Evict
    <3>3. Held' = {e \in Held : e.id \in K}
        BY <3>2, RebuildKeeps, HeldKept
    <3> QED BY <3>1, <3>3, HeldFacts
  <2>2. CASE id \notin Stored
    <3>1. Held' = Held
        BY <2>2 DEF Evict, tables, Held, Stored
    <3> QED BY <2>2, <3>1, HeldFacts
  <2> QED BY <2>1, <2>2
<1>3. (Held' # Held) = (id \in Stored)
    BY <1>2, HeldFacts
<1>4. result' = Evicted(Held' # Held)
    BY <1>3 DEF Evict
<1> QED BY <1>1, <1>2, <1>4, SameResults DEF Abstract!Evict, Held

LEMMA SimulateAgeMaps ==
    ASSUME IInv, NEW id \in Ids, NEW age \in Ages, SimulateAge(id, age)
    PROVE  Abstract!SimulateAge(id, age)
<1>1. /\ Stored' = Stored
      /\ \A i \in Stored :
            entries'[i] = IF i = id THEN [entries[i] EXCEPT !.created = now - age]
                                    ELSE entries[i]
    BY SimulateAgeSets
<1>2. \A i \in Stored : entries[i].id = i
    BY HeldFacts
<1>3. Held' = {IF e.id = id THEN [e EXCEPT !.created = now - age] ELSE e :
                  e \in Held}
  <2> DEFINE Aged(e) == IF e.id = id THEN [e EXCEPT !.created = now - age]
                                     ELSE e
  <2>1. \A i \in Stored : entries'[i] = Aged(entries[i])
      BY <1>1, <1>2
  <2>2. Held' = {entries'[i] : i \in Stored}
      BY <1>1 DEF Held
  <2>3. Held' = {Aged(e) : e \in Held}
    <3> HIDE DEF Aged
    <3> QED BY <2>1, <2>2 DEF Held
  <2> QED BY <2>3
<1> QED BY <1>3, SameResults DEF SimulateAge, Abstract!SimulateAge, Held

LEMMA HeldSize == IInv => Cardinality(Held) = Len(id_map)
BY HeldFinite

LEMMA PurgeMaps ==
    ASSUME IInv, PurgeExpired
    PROVE  Abstract!PurgeExpired
<1>1. PICK K \in SUBSET Stored : K = Fresh
    BY DEF Fresh
<1>2. /\ RebuildIndex(Keeping(K)) /\ UNCHANGED <<faiss, tau, now>>
      /\ result' = Removed(Cardinality(Stored) - Len(Keeping(K)))
    BY <1>1 DEF PurgeExpired
<1>3. /\ IInv' /\ Stored' = K /\ \A id \in K : entries'[id] = entries[id]
    BY <1>2, RebuildKeeps
<1>4. Held' = {e \in Held : e.id \in K}
    BY <1>3, HeldKept
<1>5. Held' = {e \in Held : ~Expired(e, now)}
    BY <1>1, <1>4, HeldFacts DEF Fresh
<1>6. Cardinality(Held) = Cardinality(Stored)
    BY HeldFinite
<1>7. Cardinality(Held') = Len(Keeping(K))
  <2>1. id_map' = Keeping(K)
      BY <1>2 DEF RebuildIndex
  <2>2. (IInv => Cardinality(Held) = Len(id_map))'
      BY HeldSize, PTL
  <2>3. Cardinality(Held') = Len(id_map')
      BY <1>3, <2>2
  <2> QED BY <2>1, <2>3
<1>8. result' = Removed(Cardinality(Held) - Cardinality(Held'))
    BY <1>2, <1>6, <1>7
<1> QED BY <1>2, <1>5, <1>8, SameResults, SameCardinality DEF Abstract!PurgeExpired, Held

LEMMA RestMaps ==
    ASSUME IInv
    PROVE  /\ Clear => Abstract!Clear
           /\ \A t \in Taus : SetTau(t) => Abstract!SetTau(t)
           /\ Tick => Abstract!Tick
           /\ UNCHANGED vars => UNCHANGED Abstract!vars
<1>1. ASSUME UNCHANGED tables
      PROVE  Held' = Held
    BY <1>1 DEF tables, Held, Stored
<1>2. ASSUME Clear
      PROVE  Abstract!Clear
  <2>1. Held' = {}
      BY <1>2 DEF Clear, Held, Stored
  <2> QED BY <1>2, <2>1, SameResults DEF Clear, Abstract!Clear, Held
<1>3. ASSUME NEW t \in Taus, SetTau(t)
      PROVE  Abstract!SetTau(t)
    BY <1>1, <1>3, SameResults DEF SetTau, Abstract!SetTau, Held
<1>4. ASSUME Tick
      PROVE  Abstract!Tick
    BY <1>1, <1>4, SameResults DEF Tick, Abstract!Tick, Held
<1>5. ASSUME UNCHANGED vars
      PROVE  UNCHANGED Abstract!vars
    BY <1>1, <1>5 DEF vars, Abstract!vars, Held
<1> QED BY <1>2, <1>3, <1>4, <1>5

LEMMA StepMaps ==
    ASSUME IInv, [Next]_vars
    PROVE  [Abstract!Next]_(Abstract!vars)
<1>1. ASSUME NEW ns \in Namespaces, NEW q \in Prompts, Lookup(ns, q)
      PROVE  Abstract!Next
    BY <1>1, LookupMaps DEF Abstract!Next
<1>2. ASSUME NEW ns \in Namespaces, NEW q \in Prompts, NEW id \in Ids,
             NEW ttl \in Ttls, Admit(id, ns, q, ttl)
      PROVE  Abstract!Next
    BY <1>2, AdmitMaps DEF Abstract!Next
<1>3. ASSUME NEW id \in Ids, Evict(id)
      PROVE  Abstract!Next
    BY <1>3, EvictMaps DEF Abstract!Next
<1>4. ASSUME NEW id \in Ids, NEW age \in Ages, SimulateAge(id, age)
      PROVE  Abstract!Next
    BY <1>4, SimulateAgeMaps DEF Abstract!Next
<1>5. CASE PurgeExpired
    BY <1>5, PurgeMaps DEF Abstract!Next
<1>6. CASE Clear
    BY <1>6, RestMaps DEF Abstract!Next
<1>7. ASSUME NEW t \in Taus, SetTau(t)
      PROVE  Abstract!Next
    BY <1>7, RestMaps DEF Abstract!Next
<1>8. CASE Tick
    BY <1>8, RestMaps DEF Abstract!Next
<1>9. CASE UNCHANGED vars
    BY <1>9, RestMaps
<1> QED BY <1>1, <1>2, <1>3, <1>4, <1>5, <1>6, <1>7, <1>8, <1>9 DEF Next

\* The cache with its index, with faiss or without, implements the set of
\* entries of SemanticStore: for every set of prompts, ids and namespaces,
\* every similarity and every number of neighbours (semantic_cache.py).
THEOREM CacheImplementsStore == Spec => ImplementsStore
<1>1. Init => Abstract!Init
  <2> SUFFICES ASSUME Init PROVE Abstract!Init
      OBVIOUS
  <2>1. Held = {}
      BY DEF Init, Held, Stored
  <2> QED BY <2>1, SameResults DEF Init, Abstract!Init, Held
<1>2. IInv /\ [Next]_vars => [Abstract!Next]_(Abstract!vars)
    BY StepMaps
<1> QED BY <1>1, <1>2, Invariant, PTL DEF Spec, ImplementsStore, Abstract!Spec
===============================================================================
