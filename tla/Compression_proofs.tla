-------------------------- MODULE Compression_proofs --------------------------
(***************************************************************************)
(* Proofs about the compression of prompts, for every prompt and every     *)
(* codec: what is forwarded differs from the prompt by whole documents     *)
(* only, and the potential told for a prompt is a floor of what            *)
(* compressing it saves; and about the tokens of the JTF codec: what the   *)
(* encoder writes of plain strings the decoder reads back as what it was.  *)
(***************************************************************************)
EXTENDS Compression, JTFTokens, SequenceTheorems, Totals_proofs, TLAPS

(***************************************************************************)
(* Loops.                                                                  *)
(*                                                                         *)
(* Each scan is a recursive function on the places of a sequence.  A[i] is *)
(* the set of the values the loop may have after i steps, its invariant;   *)
(* step[<<i, a>>] is what step i makes of a.                               *)
(***************************************************************************)
Loop(f, N, start, step) ==
    f = [i \in 0..N |-> IF i = 0 THEN start ELSE step[<<i, f[i - 1]>>]]

LEMMA LoopExists ==
    ASSUME NEW N \in Nat, NEW start, NEW step
    PROVE  \E f : Loop(f, N, start, step)
<1> DEFINE Bad == {n \in Nat : ~\E f : Loop(f, n, start, step)}
<1>1. SUFFICES ASSUME Bad # {} PROVE FALSE
    OBVIOUS
<1>2. PICK n \in Bad : \A m \in Bad : n <= m
  <2>1. Bad \in SUBSET Nat
      OBVIOUS
  <2> HIDE DEF Bad
  <2> QED BY <1>1, <2>1, LeastNat
<1>3. n \in Nat /\ ~\E f : Loop(f, n, start, step)
    OBVIOUS
<1>4. CASE n = 0
  <2> DEFINE f == [i \in 0..n |-> start]
  <2>1. Loop(f, n, start, step)
      BY <1>4 DEF Loop
  <2> QED BY <1>3, <2>1
<1>5. CASE n # 0
  <2>1. n - 1 \in Nat /\ n - 1 \notin Bad
      BY <1>2, <1>3, <1>5
  <2>2. PICK g : Loop(g, n - 1, start, step)
      BY <2>1
  <2> DEFINE f == [i \in 0..n |-> IF i = n THEN step[<<n, g[n - 1]>>] ELSE g[i]]
  <2>3. ASSUME NEW i \in 0..n
        PROVE  f[i] = IF i = 0 THEN start ELSE step[<<i, f[i - 1]>>]
    <3>1. CASE i = n
        BY <1>3, <1>5, <3>1
    <3>2. CASE i # n
      <4>1. i \in 0..n - 1 /\ (i # 0 => i - 1 \in 0..n - 1)
          BY <1>3, <3>2
      <4>2. g[i] = IF i = 0 THEN start ELSE step[<<i, g[i - 1]>>]
          BY <2>2, <4>1 DEF Loop
      <4>3. f[i] = g[i] /\ (i # 0 => f[i - 1] = g[i - 1])
          BY <1>3, <3>2, <4>1
      <4> QED BY <4>2, <4>3
    <3> QED BY <3>1, <3>2
  <2>4. Loop(f, n, start, step)
    <3> HIDE DEF f
    <3>1. f = [i \in 0..n |-> f[i]]
        BY DEF f
    <3> QED BY <2>3, <3>1 DEF Loop
  <2> QED BY <1>3, <2>4
<1> QED BY <1>4, <1>5

\* The invariant of a loop holds after every step.
LEMMA LoopInvariant ==
    ASSUME NEW N \in Nat, NEW f, NEW A, f[0] \in A[0],
           \A i \in 1..N : f[i - 1] \in A[i - 1] => f[i] \in A[i]
    PROVE  \A i \in 0..N : f[i] \in A[i]
<1> DEFINE Bad == {i \in 0..N : f[i] \notin A[i]}
<1>1. SUFFICES ASSUME Bad # {} PROVE FALSE
    OBVIOUS
<1>2. PICK n \in Bad : \A m \in Bad : n <= m
  <2>1. Bad \in SUBSET Nat
      OBVIOUS
  <2> HIDE DEF Bad
  <2> QED BY <1>1, <2>1, LeastNat
<1>3. n \in 0..N /\ f[n] \notin A[n]
    OBVIOUS
<1>4. n # 0 => n - 1 \in 0..N /\ n - 1 \notin Bad /\ n \in 1..N
    BY <1>2, <1>3
<1> QED BY <1>3, <1>4

LEMMA TypedLoopExists ==
    ASSUME NEW N \in Nat, NEW start, NEW step, NEW A, start \in A[0],
           \A i \in 1..N : \A a \in A[i - 1] : step[<<i, a>>] \in A[i]
    PROVE  \E f : Loop(f, N, start, step) /\ \A i \in 0..N : f[i] \in A[i]
<1>1. PICK f : Loop(f, N, start, step)
    BY LoopExists
<1>2. \A i \in 0..N : f[i] = IF i = 0 THEN start ELSE step[<<i, f[i - 1]>>]
    BY <1>1 DEF Loop
<1>3. f[0] \in A[0]
  <2>1. 0 \in 0..N
      OBVIOUS
  <2> QED BY <1>2, <2>1
<1>4. ASSUME NEW i \in 1..N, f[i - 1] \in A[i - 1] PROVE f[i] \in A[i]
  <2>1. i \in 0..N /\ i # 0
      OBVIOUS
  <2>2. f[i] = step[<<i, f[i - 1]>>]
      BY <1>2, <2>1
  <2> QED BY <1>4, <2>2
<1>5. \A i \in 0..N : f[i] \in A[i]
    BY <1>3, <1>4, LoopInvariant
<1> QED BY <1>1, <1>5

(***************************************************************************)
(* The scan.                                                               *)
(***************************************************************************)
Found == [json_blocks : Nat, original_tokens : Nat, jtf_tokens : Nat]

\* The places the scan counts, and what a place adds.
Counts(text, i) == i \in JsonCandidates(text) /\ CanEncode(text[i].doc)

AnalyzesText(f, text, found) ==
    f = [i \in 0..Len(text) |->
            IF i = 0 THEN found
            ELSE IF i \in JsonCandidates(text) /\ CanEncode(text[i].doc)
                 THEN Counted(f[i - 1], text[i])
                 ELSE f[i - 1]]

LEMMA CandidateType ==
    ASSUME NEW text \in Seq(Segment), NEW i \in JsonCandidates(text)
    PROVE  /\ i \in 1..Len(text)
           /\ text[i].kind = "json" /\ text[i].doc \in JSONDocuments
           /\ text[i].json \in Nat /\ text[i].jtf \in Nat
<1>1. i \in 1..Len(text) /\ text[i].kind = "json"
    BY LenProperties DEF JsonCandidates
<1>2. text[i] \in Segment
    BY <1>1, ElementOfSeq
<1> QED BY <1>1, <1>2 DEF Segment

LEMMA CountedType ==
    ASSUME NEW text \in Seq(Segment), NEW i \in JsonCandidates(text), NEW found \in Found
    PROVE  /\ Counted(found, text[i]) \in Found
           /\ Counted(found, text[i]).json_blocks = found.json_blocks + 1
           /\ Counted(found, text[i]).original_tokens
                 = found.original_tokens + text[i].json
           /\ Counted(found, text[i]).jtf_tokens = found.jtf_tokens + text[i].jtf
BY CandidateType DEF Counted, Found

\* The values a scan takes are counts.
LEMMA AnalyzeTextRuns ==
    ASSUME NEW text \in Seq(Segment), NEW found \in Found
    PROVE  \E f : /\ AnalyzesText(f, text, found)
                  /\ \A i \in 0..Len(text) : f[i] \in Found
                  /\ AnalyzeText(text, found) = f[Len(text)]
<1> DEFINE N == Len(text)
           step == [p \in (1..N) \X Found |->
                       IF p[1] \in JsonCandidates(text) /\ CanEncode(text[p[1]].doc)
                       THEN Counted(p[2], text[p[1]]) ELSE p[2]]
           A == [i \in 0..N |-> Found]
<1>1. N \in Nat
    BY LenProperties
<1>2. \A i \in 1..N, a \in Found :
         step[<<i, a>>] = IF i \in JsonCandidates(text) /\ CanEncode(text[i].doc)
                          THEN Counted(a, text[i]) ELSE a
    OBVIOUS
<1>3. \A i \in 1..N, a \in Found : step[<<i, a>>] \in Found
    BY <1>2, CountedType
<1> HIDE DEF step
<1>4. PICK g : Loop(g, N, found, step) /\ \A i \in 0..N : g[i] \in A[i]
  <2>1. found \in A[0] /\ \A i \in 1..N : \A a \in A[i - 1] : step[<<i, a>>] \in A[i]
      BY <1>1, <1>3
  <2> HIDE DEF A
  <2> QED BY <1>1, <2>1, TypedLoopExists
<1>6. \A i \in 0..N : g[i] \in Found
    BY <1>4
<1>7. AnalyzesText(g, text, found)
  <2>1. ASSUME NEW i \in 0..N
        PROVE  (IF i = 0 THEN found ELSE step[<<i, g[i - 1]>>])
                  = IF i = 0 THEN found
                    ELSE IF i \in JsonCandidates(text) /\ CanEncode(text[i].doc)
                         THEN Counted(g[i - 1], text[i])
                         ELSE g[i - 1]
    <3>1. i # 0 => i \in 1..N /\ i - 1 \in 0..N
        BY <1>1
    <3> QED BY <1>2, <1>6, <3>1
  <2> QED BY <1>4, <2>1 DEF Loop, AnalyzesText
<1> DEFINE f == CHOOSE h : AnalyzesText(h, text, found)
<1>8. AnalyzesText(f, text, found)
    BY <1>7
<1>9. AnalyzeText(text, found) = f[N]
    BY DEF AnalyzeText, AnalyzesText
<1> HIDE DEF f
<1>10. f[0] = found /\ \A i \in 1..N : f[i] = IF i \in JsonCandidates(text) /\ CanEncode(text[i].doc)
                         THEN Counted(f[i - 1], text[i])
                         ELSE f[i - 1]
    BY <1>1, <1>8 DEF AnalyzesText
<1>11. \A i \in 0..N : f[i] \in Found
  <2>1. f[0] \in A[0] /\ \A i \in 1..N : f[i - 1] \in A[i - 1] => f[i] \in A[i]
      BY <1>1, <1>10, CountedType
  <2> HIDE DEF A
  <2>2. \A i \in 0..N : f[i] \in A[i]
      BY <1>1, <2>1, LoopInvariant
  <2> QED BY <2>2 DEF A
<1> QED BY <1>8, <1>9, <1>11
(***************************************************************************)
(* One text.                                                               *)
(*                                                                         *)
(* Up to the cursor the text is rebuilt, place by place; from the cursor   *)
(* to the place of the scan nothing is to be replaced.                     *)
(***************************************************************************)
Blocks(dict) == {Block(doc, dict[doc]) : doc \in JSONDocuments}

Out(dict) == Segment \cup Blocks(dict)

\* What is sent for place j of a text.
Sent(text, dict, j) ==
    IF j \in Wins(text) THEN Block(text[j].doc, dict[text[j].doc]) ELSE text[j]

\* The scan has saved no more than the compression.
Behind(seen, found) ==
    seen.original_tokens - seen.jtf_tokens <= found.original_tokens - found.jtf_tokens

After(text, found, dict, g, i) ==
    {a \in [rebuilt : Seq(Out(dict)), cursor : 1..i + 1, found : Found] :
        /\ Len(a.rebuilt) = a.cursor - 1
        /\ \A j \in 1..a.cursor - 1 : a.rebuilt[j] = Sent(text, dict, j)
        /\ \A j \in a.cursor..i : j \notin Wins(text)
        /\ a.found.json_blocks = found.json_blocks + Cardinality(Wins(text) \cap (1..i))
        /\ Behind(g[0], found) => Behind(g[i], a.found)}

\* Counting a document in the scan, and perhaps in the compression.
LEMMA BehindCounts ==
    ASSUME NEW s \in Found, NEW t \in Found, Behind(s, t),
           NEW json \in Nat, NEW jtf \in Nat, NEW s2,
           s2.original_tokens = s.original_tokens + json, s2.jtf_tokens = s.jtf_tokens + jtf
    PROVE  /\ json <= jtf => Behind(s2, t)
           /\ \A t2 : /\ t2.original_tokens = t.original_tokens + json
                      /\ t2.jtf_tokens = t.jtf_tokens + jtf
                      => Behind(s2, t2)
<1>1. /\ s.original_tokens \in Nat /\ s.jtf_tokens \in Nat
      /\ t.original_tokens \in Nat /\ t.jtf_tokens \in Nat
    BY DEF Found
<1> QED BY <1>1 DEF Behind

LEMMA WinsType ==
    ASSUME NEW text \in Seq(Segment), NEW i \in Wins(text)
    PROVE  /\ i \in JsonCandidates(text) /\ i \in 1..Len(text)
           /\ CanEncode(text[i].doc) /\ text[i].jtf < text[i].json
BY CandidateType DEF Wins

LEMMA SentType ==
    ASSUME NEW text \in Seq(Segment), NEW dict, NEW j \in 1..Len(text)
    PROVE  Sent(text, dict, j) \in Out(dict) /\ text[j] \in Out(dict)
<1>1. text[j] \in Segment
    BY ElementOfSeq
<1>2. j \in Wins(text) => text[j].doc \in JSONDocuments
    BY WinsType, CandidateType
<1> QED BY <1>1, <1>2 DEF Sent, Out, Blocks

\* The documents among the first i places.
LEMMA WinsGrow ==
    ASSUME NEW text \in Seq(Segment), NEW i \in 1..Len(text)
    PROVE  /\ IsFiniteSet(Wins(text) \cap (1..i - 1))
           /\ Cardinality(Wins(text) \cap (1..i - 1)) \in Nat
           /\ Cardinality(Wins(text) \cap (1..i))
                 = Cardinality(Wins(text) \cap (1..i - 1))
                   + (IF i \in Wins(text) THEN 1 ELSE 0)
<1>1. Len(text) \in Nat /\ i - 1 \in Int
    BY LenProperties
<1>2. PICK W : W = Wins(text) /\ W \subseteq Nat
    BY LenProperties, WinsType
<1>3. PICK S : S = W \cap (1..i - 1)
    OBVIOUS
<1>4. S \in SUBSET (1..i - 1) /\ IsFiniteSet(1..i - 1)
  <2>1. PICK k \in Int : k = i - 1
      BY <1>1
  <2>2. IsFiniteSet(1..k)
      BY FS_Interval
  <2> QED BY <1>3, <2>1, <2>2
<1>5. IsFiniteSet(S) /\ Cardinality(S) \in Nat
    BY <1>4, FS_Subset, FS_CardinalityType
<1>6. W \cap (1..i) = IF i \in W THEN S \cup {i} ELSE S
    BY <1>1, <1>2, <1>3
<1>7. Cardinality(S \cup {i}) = Cardinality(S) + 1
  <2>1. i \notin S
      BY <1>1, <1>3
  <2> QED BY <1>5, <2>1, FS_AddElement
<1>8. Cardinality(W \cap (1..i)) = Cardinality(S) + (IF i \in W THEN 1 ELSE 0)
  <2>1. CASE i \in W
      BY <1>6, <1>7, <2>1
  <2>2. CASE i \notin W
    <3>1. W \cap (1..i) = S
        BY <1>6, <2>2
    <3>2. Cardinality(W \cap (1..i)) = Cardinality(S)
        BY <3>1
    <3> QED BY <1>5, <2>2, <3>2
  <2> QED BY <2>1, <2>2
<1> QED BY <1>2, <1>3, <1>5, <1>8

LEMMA ReplacedKeeps ==
    ASSUME NEW text \in Seq(Segment), NEW found \in Found, NEW dict, NEW seen \in Found,
           NEW g, AnalyzesText(g, text, seen), \A k \in 0..Len(text) : g[k] \in Found,
           NEW i \in 1..Len(text), i \in Wins(text),
           NEW a \in After(text, found, dict, g, i - 1)
    PROVE  Replaced(a, text, i, dict) \in After(text, found, dict, g, i)
<1>1. /\ Len(text) \in Nat /\ i \in Nat /\ i - 1 \in 0..Len(text)
      /\ i \in 0..Len(text) /\ i # 0
    BY LenProperties
<1>2. /\ a.rebuilt \in Seq(Out(dict)) /\ a.cursor \in 1..i /\ a.found \in Found
      /\ Len(a.rebuilt) = a.cursor - 1
      /\ \A j \in 1..a.cursor - 1 : a.rebuilt[j] = Sent(text, dict, j)
      /\ \A j \in a.cursor..i - 1 : j \notin Wins(text)
      /\ a.found.json_blocks = found.json_blocks + Cardinality(Wins(text) \cap (1..i - 1))
      /\ Behind(g[0], found) => Behind(g[i - 1], a.found)
    BY <1>1 DEF After
<1> DEFINE c == a.cursor
           gap == SubSeq(text, c, i - 1)
           block == Block(text[i].doc, dict[text[i].doc])
           most == a.rebuilt \o gap
           all == most \o <<block>>
           new == Counted(a.found, text[i])
<1>3. c \in Int /\ c >= 1 /\ c <= i
    BY <1>1, <1>2
<1>4. /\ gap \in Seq(Out(dict)) /\ Len(gap) = i - c
      /\ \A j \in 1..i - c : gap[j] = text[c + j - 1]
  <2>1. \A j \in c..i - 1 : text[j] \in Out(dict)
      BY <1>1, <1>3, SentType
  <2> HIDE DEF c
  <2> QED BY <1>1, <1>3, <2>1, SubSeqProperties
<1>5. /\ most \in Seq(Out(dict)) /\ Len(most) = i - 1
      /\ \A j \in 1..i - 1 : most[j] = Sent(text, dict, j)
  <2> HIDE DEF gap
  <2>1. /\ most \in Seq(Out(dict)) /\ Len(most) = c - 1 + (i - c)
        /\ \A j \in 1..c - 1 + (i - c) :
              most[j] = IF j <= c - 1 THEN a.rebuilt[j] ELSE gap[j - (c - 1)]
    <3>1. PICK s : s = a.rebuilt
        OBVIOUS
    <3>2. s \in Seq(Out(dict)) /\ Len(s) = c - 1
        BY <1>2, <3>1
    <3>3. PICK t : t = gap
        OBVIOUS
    <3>4. t \in Seq(Out(dict)) /\ Len(t) = i - c
        BY <1>4, <3>3
    <3> HIDE DEF c
    <3>5. /\ s \o t \in Seq(Out(dict)) /\ Len(s \o t) = Len(s) + Len(t)
          /\ \A j \in 1..Len(s) + Len(t) :
                (s \o t)[j] = IF j <= Len(s) THEN s[j] ELSE t[j - Len(s)]
        BY <3>2, <3>4, ConcatProperties
    <3> QED BY <3>1, <3>2, <3>3, <3>4, <3>5
  <2>2. c - 1 + (i - c) = i - 1
      BY <1>1, <1>3
  <2>3. ASSUME NEW j \in 1..i - 1
        PROVE  most[j] = Sent(text, dict, j)
    <3>1. CASE j <= c - 1
        BY <1>2, <1>3, <2>1, <2>2, <3>1
    <3>2. CASE ~(j <= c - 1)
      <4>1. j - (c - 1) \in 1..i - c /\ c + (j - (c - 1)) - 1 = j /\ j \in c..i - 1
          BY <1>1, <1>3, <3>2
      <4>2. most[j] = gap[j - (c - 1)]
          BY <2>1, <2>2, <3>2
      <4>3. most[j] = text[j]
          BY <1>4, <4>1, <4>2
      <4> QED BY <1>2, <4>1, <4>3 DEF Sent
    <3> QED BY <3>1, <3>2
  <2> QED BY <2>1, <2>2, <2>3
<1>6. block \in Out(dict) /\ block = Sent(text, dict, i)
    BY SentType DEF Sent
<1>7. /\ all \in Seq(Out(dict)) /\ Len(all) = i
      /\ \A j \in 1..i : all[j] = Sent(text, dict, j)
  <2> HIDE DEF most, block
  <2>1. /\ <<block>> \in Seq(Out(dict)) /\ Len(<<block>>) = 1 /\ <<block>>[1] = block
      BY <1>6
  <2>2. /\ all \in Seq(Out(dict)) /\ Len(all) = i - 1 + 1
        /\ \A j \in 1..i - 1 + 1 :
              all[j] = IF j <= i - 1 THEN most[j] ELSE <<block>>[j - (i - 1)]
    <3>1. PICK one : one = <<block>>
        OBVIOUS
    <3>2. /\ most \o one \in Seq(Out(dict)) /\ Len(most \o one) = Len(most) + Len(one)
          /\ \A j \in 1..Len(most) + Len(one) :
                (most \o one)[j] = IF j <= Len(most) THEN most[j] ELSE one[j - Len(most)]
        BY <1>5, <2>1, <3>1, ConcatProperties
    <3> HIDE DEF all
    <3>3. all = most \o one
        BY <3>1 DEF all
    <3>4. Len(most) = i - 1 /\ Len(one) = 1
        BY <1>5, <2>1, <3>1
    <3> QED BY <3>1, <3>2, <3>3, <3>4
  <2>3. i - 1 + 1 = i /\ i - (i - 1) = 1
      BY <1>1
  <2>4. ASSUME NEW j \in 1..i
        PROVE  all[j] = Sent(text, dict, j)
    <3>1. CASE j <= i - 1
        BY <1>1, <1>5, <2>2, <2>3, <3>1
    <3>2. CASE j = i
      <4>1. j \in 1..i - 1 + 1 /\ ~(j <= i - 1) /\ j - (i - 1) = 1
          BY <1>1, <3>2
      <4>2. PICK k : k = j - (i - 1)
          OBVIOUS
      <4>3. all[j] = <<block>>[k]
          BY <2>2, <4>1, <4>2
      <4>4. all[j] = block
          BY <2>1, <4>1, <4>2, <4>3
      <4> QED BY <1>6, <3>2, <4>4
    <3>3. j <= i - 1 \/ j = i
        BY <1>1
    <3> QED BY <3>1, <3>2, <3>3
  <2> QED BY <2>2, <2>3, <2>4
<1>8. i \in JsonCandidates(text) /\ CanEncode(text[i].doc) /\ text[i].jtf < text[i].json
      /\ text[i].jtf \in Nat /\ text[i].json \in Nat
    BY WinsType, CandidateType
<1>9. /\ new \in Found /\ new.json_blocks = a.found.json_blocks + 1
      /\ new.original_tokens = a.found.original_tokens + text[i].json
      /\ new.jtf_tokens = a.found.jtf_tokens + text[i].jtf
    BY <1>2, <1>8, CountedType
<1>10. new.json_blocks = found.json_blocks + Cardinality(Wins(text) \cap (1..i))
  <2>1. found.json_blocks \in Nat
      BY DEF Found
  <2>2. PICK k, l : k = Cardinality(Wins(text) \cap (1..i - 1))
                    /\ l = Cardinality(Wins(text) \cap (1..i))
      OBVIOUS
  <2>3. k \in Nat /\ l = k + 1
      BY <2>2, WinsGrow
  <2>4. a.found.json_blocks = found.json_blocks + k
      BY <1>2, <2>2
  <2> HIDE DEF new
  <2>5. new.json_blocks = found.json_blocks + l
      BY <1>9, <2>1, <2>3, <2>4
  <2> QED BY <2>2, <2>5
<1>11. Behind(g[0], found) => Behind(g[i], new)
  <2>1. g[i] = Counted(g[i - 1], text[i])
      BY <1>1, <1>8 DEF AnalyzesText
  <2>2. g[i - 1] \in Found
      BY <1>1
  <2>3. /\ g[i].original_tokens = g[i - 1].original_tokens + text[i].json
        /\ g[i].jtf_tokens = g[i - 1].jtf_tokens + text[i].jtf
      BY <1>8, <2>1, <2>2, CountedType
  <2> HIDE DEF new
  <2>4. Behind(g[i - 1], a.found) => Behind(g[i], new)
      BY <1>2, <1>8, <1>9, <2>2, <2>3, BehindCounts
  <2> QED BY <1>2, <2>4
<1>12. Replaced(a, text, i, dict) = [rebuilt |-> all, cursor |-> i + 1, found |-> new]
    BY DEF Replaced
<1> HIDE DEF all, new
<1>13. i + 1 \in 1..i + 1 /\ i + 1 - 1 = i /\ \A j \in i + 1..i : j \notin Wins(text)
    BY <1>1
<1> QED BY <1>7, <1>9, <1>10, <1>11, <1>12, <1>13 DEF After

LEMMA SkippedKeeps ==
    ASSUME NEW text \in Seq(Segment), NEW found \in Found, NEW dict, NEW seen \in Found,
           NEW g, AnalyzesText(g, text, seen), \A k \in 0..Len(text) : g[k] \in Found,
           NEW i \in 1..Len(text), i \notin Wins(text),
           NEW a \in After(text, found, dict, g, i - 1)
    PROVE  a \in After(text, found, dict, g, i)
<1>1. /\ Len(text) \in Nat /\ i \in Nat /\ i - 1 \in 0..Len(text)
      /\ i \in 0..Len(text) /\ i # 0
    BY LenProperties
<1>2. /\ a \in [rebuilt : Seq(Out(dict)), cursor : 1..i, found : Found]
      /\ Len(a.rebuilt) = a.cursor - 1
      /\ \A j \in 1..a.cursor - 1 : a.rebuilt[j] = Sent(text, dict, j)
      /\ \A j \in a.cursor..i - 1 : j \notin Wins(text)
      /\ a.found.json_blocks = found.json_blocks + Cardinality(Wins(text) \cap (1..i - 1))
      /\ Behind(g[0], found) => Behind(g[i - 1], a.found)
    BY <1>1 DEF After
<1>3. a \in [rebuilt : Seq(Out(dict)), cursor : 1..i + 1, found : Found]
    BY <1>1, <1>2
<1>4. \A j \in a.cursor..i : j \notin Wins(text)
  <2>1. a.cursor \in 1..i
      BY <1>2
  <2> QED BY <1>1, <1>2, <2>1
<1>5. a.found.json_blocks = found.json_blocks + Cardinality(Wins(text) \cap (1..i))
  <2>1. PICK k, l : k = Cardinality(Wins(text) \cap (1..i - 1))
                    /\ l = Cardinality(Wins(text) \cap (1..i))
      OBVIOUS
  <2>2. k \in Nat /\ l = k + (IF i \in Wins(text) THEN 1 ELSE 0)
      BY <2>1, WinsGrow
  <2>3. l = k
      BY <2>2
  <2> QED BY <1>2, <2>1, <2>3
<1>6. Behind(g[0], found) => Behind(g[i], a.found)
  <2>1. g[i] = IF i \in JsonCandidates(text) /\ CanEncode(text[i].doc)
               THEN Counted(g[i - 1], text[i]) ELSE g[i - 1]
      BY <1>1 DEF AnalyzesText
  <2>2. CASE i \in JsonCandidates(text) /\ CanEncode(text[i].doc)
    <3>1. g[i - 1] \in Found /\ a.found \in Found
        BY <1>1, <1>2
    <3>2. text[i].jtf \in Nat /\ text[i].json \in Nat /\ text[i].jtf >= text[i].json
        BY <2>2, CandidateType DEF Wins
    <3>3. /\ g[i].original_tokens = g[i - 1].original_tokens + text[i].json
          /\ g[i].jtf_tokens = g[i - 1].jtf_tokens + text[i].jtf
        BY <2>1, <2>2, <3>1, CountedType
    <3>4. text[i].json <= text[i].jtf
        BY <3>2
    <3>5. Behind(g[i - 1], a.found) => Behind(g[i], a.found)
        BY <3>1, <3>2, <3>3, <3>4, BehindCounts
    <3> QED BY <1>2, <3>5
  <2>3. CASE ~(i \in JsonCandidates(text) /\ CanEncode(text[i].doc))
      BY <1>2, <2>1, <2>3
  <2> QED BY <2>2, <2>3
<1> QED BY <1>2, <1>3, <1>4, <1>5, <1>6 DEF After
CompressesText(f, text, found, dict) ==
    f = [i \in 0..Len(text) |->
            IF i = 0 THEN [rebuilt |-> <<>>, cursor |-> 1, found |-> found]
            ELSE IF i \in Wins(text) THEN Replaced(f[i - 1], text, i, dict)
                                     ELSE f[i - 1]]

LEMMA AfterStart ==
    ASSUME NEW text \in Seq(Segment), NEW found \in Found, NEW dict, NEW g
    PROVE  [rebuilt |-> <<>>, cursor |-> 1, found |-> found]
               \in After(text, found, dict, g, 0)
<1> DEFINE a == [rebuilt |-> <<>>, cursor |-> 1, found |-> found]
<1>1. <<>> \in Seq(Out(dict)) /\ Len(<<>>) = 0
    OBVIOUS
<1>2. a \in [rebuilt : Seq(Out(dict)), cursor : 1..0 + 1, found : Found]
    BY <1>1
<1>3. found.json_blocks = found.json_blocks + Cardinality(Wins(text) \cap (1..0))
  <2>1. Wins(text) \cap (1..0) = {}
      OBVIOUS
  <2>2. Cardinality(Wins(text) \cap (1..0)) = 0
      BY <2>1, FS_EmptySet
  <2>3. found.json_blocks \in Nat
      BY DEF Found
  <2> QED BY <2>2, <2>3
<1>4. /\ a.rebuilt = <<>> /\ a.cursor = 1 /\ a.found = found
      /\ Len(a.rebuilt) = a.cursor - 1
      /\ \A j \in 1..a.cursor - 1 : FALSE
      /\ \A j \in a.cursor..0 : FALSE
    BY <1>1
<1> HIDE DEF a
<1>5. a \in After(text, found, dict, g, 0)
    BY <1>2, <1>3, <1>4 DEF After
<1> QED BY <1>5 DEF a

LEMMA CompressTextRuns ==
    ASSUME NEW text \in Seq(Segment), NEW found \in Found, NEW dict, NEW seen \in Found,
           NEW g, AnalyzesText(g, text, seen), \A k \in 0..Len(text) : g[k] \in Found
    PROVE  \E a \in After(text, found, dict, g, Len(text)) :
               CompressText(text, found, dict) = Copied(text, a)
<1> DEFINE N == Len(text)
           All == [rebuilt : Seq(Out(dict)), cursor : Nat, found : Found]
           start == [rebuilt |-> <<>>, cursor |-> 1, found |-> found]
           step == [p \in (1..N) \X All |->
                       IF p[1] \in Wins(text) THEN Replaced(p[2], text, p[1], dict)
                                              ELSE p[2]]
           A == [i \in 0..N |-> After(text, found, dict, g, i)]
<1>1. N \in Nat
    BY LenProperties
<1>2. \A i \in 1..N, a \in All :
         step[<<i, a>>] = IF i \in Wins(text) THEN Replaced(a, text, i, dict) ELSE a
    OBVIOUS
<1>3. \A i \in 0..N : After(text, found, dict, g, i) \subseteq All
  <2>1. \A i \in 0..N : 1..i + 1 \subseteq Nat
      BY <1>1
  <2> QED BY <2>1 DEF After
<1>4. ASSUME NEW i \in 1..N, NEW a \in After(text, found, dict, g, i - 1)
      PROVE  (IF i \in Wins(text) THEN Replaced(a, text, i, dict) ELSE a)
                \in After(text, found, dict, g, i)
    BY <1>4, ReplacedKeeps, SkippedKeeps
<1>5. start \in After(text, found, dict, g, 0)
    BY AfterStart
<1> HIDE DEF step, start, All
<1>6. PICK h : Loop(h, N, start, step) /\ \A i \in 0..N : h[i] \in A[i]
  <2>1. start \in A[0]
      BY <1>1, <1>5
  <2>2. ASSUME NEW i \in 1..N, NEW a \in A[i - 1]
        PROVE  step[<<i, a>>] \in A[i]
    <3>1. i - 1 \in 0..N /\ i \in 0..N
        BY <1>1
    <3>2. a \in After(text, found, dict, g, i - 1) /\ a \in All
        BY <1>3, <3>1
    <3>3. step[<<i, a>>] = IF i \in Wins(text) THEN Replaced(a, text, i, dict) ELSE a
        BY <1>2, <3>2
    <3>4. step[<<i, a>>] \in After(text, found, dict, g, i)
        BY <1>4, <3>2, <3>3
    <3> QED BY <3>1, <3>4
  <2> HIDE DEF A
  <2> QED BY <1>1, <2>1, <2>2, TypedLoopExists
<1>7. CompressesText(h, text, found, dict)
  <2>1. ASSUME NEW i \in 0..N
        PROVE  (IF i = 0 THEN start ELSE step[<<i, h[i - 1]>>])
                  = IF i = 0 THEN start
                    ELSE IF i \in Wins(text) THEN Replaced(h[i - 1], text, i, dict)
                                             ELSE h[i - 1]
    <3>1. i # 0 => i \in 1..N /\ i - 1 \in 0..N
        BY <1>1
    <3>2. i # 0 => h[i - 1] \in All
        BY <1>3, <1>6, <3>1
    <3> QED BY <1>2, <3>1, <3>2
  <2> HIDE DEF A
  <2> QED BY <1>6, <2>1 DEF Loop, CompressesText, start
<1> DEFINE f == CHOOSE x : CompressesText(x, text, found, dict)
<1>8. CompressesText(f, text, found, dict)
    BY <1>7
<1>9. CompressText(text, found, dict) = Copied(text, f[N])
    BY DEF CompressText, CompressesText
<1> HIDE DEF f
<1>10. \A i \in 0..N : f[i] = IF i = 0 THEN start
                              ELSE IF i \in Wins(text) THEN Replaced(f[i - 1], text, i, dict)
                                                       ELSE f[i - 1]
    BY <1>8 DEF CompressesText, start
<1>11. \A i \in 0..N : f[i] \in A[i]
  <2>1. f[0] \in A[0]
    <3>1. 0 \in 0..N
        BY <1>1
    <3> QED BY <1>5, <1>10, <3>1
  <2>2. ASSUME NEW i \in 1..N, f[i - 1] \in A[i - 1]
        PROVE  f[i] \in A[i]
    <3>1. i - 1 \in 0..N /\ i \in 0..N /\ i # 0
        BY <1>1
    <3>2. f[i - 1] \in After(text, found, dict, g, i - 1)
        BY <2>2, <3>1
    <3>3. f[i] = IF i \in Wins(text) THEN Replaced(f[i - 1], text, i, dict) ELSE f[i - 1]
        BY <1>10, <3>1
    <3>4. f[i] \in After(text, found, dict, g, i)
        BY <1>4, <3>2, <3>3
    <3> QED BY <3>1, <3>4
  <2> HIDE DEF A
  <2> QED BY <1>1, <2>1, <2>2, LoopInvariant
<1>12. f[N] \in After(text, found, dict, g, N)
    BY <1>1, <1>11
<1> QED BY <1>9, <1>12

\* What compression makes of a text, place by place, and what it counts.
TextResult(new, text, found, dict, seen) ==
    /\ new.text \in Seq(Out(dict)) /\ Len(new.text) = Len(text)
    /\ \A j \in 1..Len(text) : new.text[j] = Sent(text, dict, j)
    /\ new.found \in Found
    /\ new.found.json_blocks = found.json_blocks + Cardinality(Wins(text))
    /\ Behind(seen, found) => Behind(AnalyzeText(text, seen), new.found)

LEMMA CompressTextIs ==
    ASSUME NEW text \in Seq(Segment), NEW found \in Found, NEW dict, NEW seen \in Found
    PROVE  TextResult(CompressText(text, found, dict), text, found, dict, seen)
<1> DEFINE N == Len(text)
           new == CompressText(text, found, dict)
<1>1. N \in Nat
    BY LenProperties
<1>2. PICK g : /\ AnalyzesText(g, text, seen)
               /\ \A i \in 0..N : g[i] \in Found
               /\ AnalyzeText(text, seen) = g[N]
    BY AnalyzeTextRuns
<1>3. PICK a \in After(text, found, dict, g, N) : new = Copied(text, a)
    BY <1>2, CompressTextRuns
<1> HIDE DEF new
<1>4. /\ a.rebuilt \in Seq(Out(dict)) /\ a.cursor \in 1..N + 1 /\ a.found \in Found
      /\ Len(a.rebuilt) = a.cursor - 1
      /\ \A j \in 1..a.cursor - 1 : a.rebuilt[j] = Sent(text, dict, j)
      /\ \A j \in a.cursor..N : j \notin Wins(text)
      /\ a.found.json_blocks = found.json_blocks + Cardinality(Wins(text) \cap (1..N))
      /\ Behind(g[0], found) => Behind(g[N], a.found)
    BY DEF After
<1> DEFINE rest == SubSeq(text, a.cursor, N)
<1>5. new.text = a.rebuilt \o rest /\ new.found = a.found
    BY <1>3 DEF Copied
<1>6. PICK c \in Nat : c = a.cursor /\ c >= 1 /\ c <= N + 1
    BY <1>1, <1>4
<1>7. /\ rest \in Seq(Out(dict)) /\ Len(rest) = N - c + 1
      /\ \A j \in 1..N - c + 1 : rest[j] = text[c + j - 1]
  <2>1. \A j \in c..N : text[j] \in Out(dict)
      BY <1>1, <1>6, SentType
  <2>2. N \in Int /\ c \in Int
      BY <1>1
  <2>3. /\ SubSeq(text, c, N) \in Seq(Out(dict))
        /\ Len(SubSeq(text, c, N)) = IF c <= N THEN N - c + 1 ELSE 0
        /\ \A j \in 1..N - c + 1 : SubSeq(text, c, N)[j] = text[c + j - 1]
      BY <2>1, <2>2, SubSeqProperties
  <2> QED BY <1>1, <1>6, <2>3
<1> HIDE DEF rest
<1>8. PICK s, t : s = a.rebuilt /\ t = rest
    OBVIOUS
<1>9. s \in Seq(Out(dict)) /\ Len(s) = c - 1 /\ t \in Seq(Out(dict)) /\ Len(t) = N - c + 1
    BY <1>4, <1>6, <1>7, <1>8
<1>10. /\ s \o t \in Seq(Out(dict)) /\ Len(s \o t) = Len(s) + Len(t)
       /\ \A j \in 1..Len(s) + Len(t) :
             (s \o t)[j] = IF j <= Len(s) THEN s[j] ELSE t[j - Len(s)]
    BY <1>9, ConcatProperties
<1>11. Len(s) + Len(t) = N
  <2>1. PICK n \in Nat : n = N
      BY <1>1
  <2>2. Len(s) = c - 1 /\ Len(t) = n - c + 1
      BY <1>9, <2>1
  <2>3. Len(s) + Len(t) = n
      BY <2>2
  <2> QED BY <2>1, <2>3
<1>12. ASSUME NEW j \in 1..N
       PROVE  (s \o t)[j] = Sent(text, dict, j)
  <2>1. CASE j <= c - 1
    <3>1. (s \o t)[j] = s[j]
        BY <1>9, <1>10, <1>11, <2>1
    <3>2. j \in 1..a.cursor - 1
        BY <1>6, <2>1
    <3> QED BY <1>4, <1>8, <3>1, <3>2
  <2>2. CASE ~(j <= c - 1)
    <3>1. (s \o t)[j] = t[j - (c - 1)]
        BY <1>9, <1>10, <1>11, <2>2
    <3>2. j - (c - 1) \in 1..N - c + 1 /\ c + (j - (c - 1)) - 1 = j /\ j \in a.cursor..N
        BY <1>1, <1>6, <2>2
    <3>3. (s \o t)[j] = text[j]
        BY <1>7, <1>8, <3>1, <3>2
    <3> QED BY <1>4, <3>2, <3>3 DEF Sent
  <2> QED BY <2>1, <2>2
<1>13. Wins(text) \cap (1..N) = Wins(text)
    BY WinsType
<1>14. g[0] = seen
  <2>1. 0 \in 0..N
      BY <1>1
  <2> QED BY <1>2, <2>1 DEF AnalyzesText
<1>15. /\ new.text \in Seq(Out(dict)) /\ Len(new.text) = N
       /\ \A j \in 1..N : new.text[j] = Sent(text, dict, j)
    BY <1>5, <1>8, <1>10, <1>11, <1>12
<1>16. TextResult(new, text, found, dict, seen)
    BY <1>2, <1>4, <1>5, <1>13, <1>14, <1>15 DEF TextResult
<1> QED BY <1>16 DEF new
(***************************************************************************)
(* All messages.                                                           *)
(***************************************************************************)
AnalyzesMessages(g, ms) ==
    g = [i \in 0..Len(ms) |->
            IF i = 0 THEN JTFAnalysis ELSE AnalyzeText(ms[i].text, g[i - 1])]

LEMMA NothingFound == JTFAnalysis \in Found
BY DEF JTFAnalysis, Found

LEMMA MessageType ==
    ASSUME NEW ms \in Seq(Message), NEW i \in 1..Len(ms)
    PROVE  ms[i].text \in Seq(Segment) /\ ms[i].kind \in {"plain", "parts"}
           /\ ms[i] \in Message
<1>1. ms[i] \in Message
    BY ElementOfSeq
<1> QED BY <1>1 DEF Message

LEMMA AnalyzeTextType ==
    ASSUME NEW text \in Seq(Segment), NEW found \in Found
    PROVE  AnalyzeText(text, found) \in Found
BY AnalyzeTextRuns, LenProperties

LEMMA AnalyzeMessagesRuns ==
    ASSUME NEW ms \in Seq(Message)
    PROVE  \E g : /\ AnalyzesMessages(g, ms)
                  /\ \A i \in 0..Len(ms) : g[i] \in Found
                  /\ AnalyzeMessages(ms) = g[Len(ms)]
<1> DEFINE N == Len(ms)
           step == [p \in (1..N) \X Found |-> AnalyzeText(ms[p[1]].text, p[2])]
           A == [i \in 0..N |-> Found]
<1>1. N \in Nat
    BY LenProperties
<1>2. \A i \in 1..N, a \in Found : step[<<i, a>>] = AnalyzeText(ms[i].text, a)
    OBVIOUS
<1>3. ASSUME NEW i \in 1..N, NEW a \in Found
      PROVE  AnalyzeText(ms[i].text, a) \in Found
    BY MessageType, AnalyzeTextType
<1> HIDE DEF step
<1>4. PICK h : Loop(h, N, JTFAnalysis, step) /\ \A i \in 0..N : h[i] \in A[i]
  <2>1. JTFAnalysis \in A[0] /\ \A i \in 1..N : \A a \in A[i - 1] : step[<<i, a>>] \in A[i]
      BY <1>1, <1>2, <1>3, NothingFound
  <2> HIDE DEF A
  <2> QED BY <1>1, <2>1, TypedLoopExists
<1>5. \A i \in 0..N : h[i] \in Found
    BY <1>4
<1>6. AnalyzesMessages(h, ms)
  <2>1. ASSUME NEW i \in 0..N
        PROVE  (IF i = 0 THEN JTFAnalysis ELSE step[<<i, h[i - 1]>>])
                  = IF i = 0 THEN JTFAnalysis ELSE AnalyzeText(ms[i].text, h[i - 1])
    <3>1. i # 0 => i \in 1..N /\ i - 1 \in 0..N
        BY <1>1
    <3> QED BY <1>2, <1>5, <3>1
  <2> QED BY <1>4, <2>1 DEF Loop, AnalyzesMessages
<1> DEFINE g == CHOOSE x : AnalyzesMessages(x, ms)
<1>7. AnalyzesMessages(g, ms)
    BY <1>6
<1>8. AnalyzeMessages(ms) = g[N]
    BY DEF AnalyzeMessages, AnalyzesMessages
<1> HIDE DEF g
<1>9. \A i \in 0..N : g[i] = IF i = 0 THEN JTFAnalysis ELSE AnalyzeText(ms[i].text, g[i - 1])
    BY <1>7 DEF AnalyzesMessages
<1>10. \A i \in 0..N : g[i] \in A[i]
  <2>1. g[0] \in A[0]
    <3>1. 0 \in 0..N
        BY <1>1
    <3> QED BY <1>9, <3>1, NothingFound
  <2>2. ASSUME NEW i \in 1..N, g[i - 1] \in A[i - 1]
        PROVE  g[i] \in A[i]
    <3>1. i - 1 \in 0..N /\ i \in 0..N /\ i # 0
        BY <1>1
    <3>2. g[i - 1] \in Found
        BY <2>2, <3>1
    <3>3. g[i] \in Found
        BY <1>3, <1>9, <3>1, <3>2
    <3> QED BY <3>1, <3>3
  <2> HIDE DEF A
  <2> QED BY <1>1, <2>1, <2>2, LoopInvariant
<1> QED BY <1>7, <1>8, <1>10

OutMessage(dict) == [kind : {"plain", "parts"}, text : Seq(Out(dict))]

\* What is sent for a message.
Forwards(m, n, dict) ==
    /\ n \in OutMessage(dict)
    /\ n = [kind |-> m.kind, text |-> n.text]
    /\ Len(n.text) = Len(m.text)
    /\ \A j \in 1..Len(m.text) :
          n.text[j] = IF m.kind = "plain" THEN Sent(m.text, dict, j) ELSE m.text[j]

\* The places of the first i messages where a document is replaced.
Replacements(ms, i) ==
    UNION {{j} \X Wins(ms[j].text) : j \in {l \in 1..i : ms[l].kind = "plain"}}

AllPlain(ms) == \A i \in DOMAIN ms : ms[i].kind = "plain"

AfterMessages(ms, dict, g, i) ==
    {a \in [ms : Seq(OutMessage(dict)), found : Found] :
        /\ Len(a.ms) = i
        /\ \A j \in 1..i : Forwards(ms[j], a.ms[j], dict)
        /\ a.found.json_blocks = Cardinality(Replacements(ms, i))
        /\ AllPlain(ms) => Behind(g[i], a.found)}

LEMMA WinsFinite ==
    ASSUME NEW text \in Seq(Segment)
    PROVE  IsFiniteSet(Wins(text)) /\ Cardinality(Wins(text)) \in Nat
<1>1. PICK n \in Int : n = Len(text)
    BY LenProperties
<1>2. IsFiniteSet(1..n)
    BY FS_Interval
<1>3. Wins(text) \in SUBSET (1..n)
    BY <1>1, WinsType
<1> QED BY <1>2, <1>3, FS_Subset, FS_CardinalityType

LEMMA ReplacementsGrow ==
    ASSUME NEW ms \in Seq(Message), NEW i \in 1..Len(ms),
           IsFiniteSet(Replacements(ms, i - 1))
    PROVE  /\ IsFiniteSet(Replacements(ms, i))
           /\ Cardinality(Replacements(ms, i - 1)) \in Nat
           /\ Cardinality(Replacements(ms, i))
                 = Cardinality(Replacements(ms, i - 1))
                   + (IF ms[i].kind = "plain" THEN Cardinality(Wins(ms[i].text)) ELSE 0)
<1>1. Len(ms) \in Nat /\ i \in Nat
    BY LenProperties
<1>2. PICK W : W = Wins(ms[i].text) /\ IsFiniteSet(W) /\ Cardinality(W) \in Nat
    BY MessageType, WinsFinite
<1>3. PICK S : S = Replacements(ms, i - 1) /\ IsFiniteSet(S) /\ Cardinality(S) \in Nat
    BY FS_CardinalityType
<1>4. CASE ms[i].kind = "plain"
  <2>1. Replacements(ms, i) = S \cup ({i} \X W)
    <3>1. {l \in 1..i : ms[l].kind = "plain"}
             = {l \in 1..i - 1 : ms[l].kind = "plain"} \cup {i}
        BY <1>1, <1>4
    <3> QED BY <1>2, <1>3, <3>1 DEF Replacements
  <2>2. S \cap ({i} \X W) = {}
      BY <1>1, <1>3 DEF Replacements
  <2>3. IsFiniteSet({i} \X W) /\ Cardinality({i} \X W) = Cardinality(W)
    <3>1. IsFiniteSet({i}) /\ Cardinality({i}) = 1
        BY FS_Singleton
    <3>2. /\ IsFiniteSet({i} \X W)
          /\ Cardinality({i} \X W) = Cardinality({i}) * Cardinality(W)
        BY <1>2, <3>1, FS_Product
    <3> QED BY <1>2, <3>1, <3>2
  <2>4. PICK T : T = {i} \X W
      OBVIOUS
  <2>5. IsFiniteSet(S \cup T) /\ Cardinality(S \cup T) = Cardinality(S) + Cardinality(T)
    <3>1. IsFiniteSet(T) /\ S \cap T = {} /\ Cardinality({}) = 0 /\ Cardinality(T) \in Nat
        BY <2>2, <2>3, <2>4, FS_EmptySet, FS_CardinalityType
    <3>2. /\ IsFiniteSet(S \cup T)
          /\ Cardinality(S \cup T)
                = Cardinality(S) + Cardinality(T) - Cardinality(S \cap T)
        BY <1>3, <3>1, FS_Union
    <3>3. Cardinality(S \cap T) = 0
        BY <3>1
    <3>4. PICK x, y, z : x = Cardinality(S) /\ y = Cardinality(T) /\ z = Cardinality(S \cap T)
        OBVIOUS
    <3>5. x \in Nat /\ y \in Nat /\ z = 0
        BY <1>3, <3>1, <3>3, <3>4
    <3> QED BY <3>2, <3>4, <3>5
  <2> QED BY <1>2, <1>3, <1>4, <2>1, <2>3, <2>4, <2>5
<1>5. CASE ms[i].kind # "plain"
  <2>1. {l \in 1..i : ms[l].kind = "plain"} = {l \in 1..i - 1 : ms[l].kind = "plain"}
      BY <1>1, <1>5
  <2>2. Replacements(ms, i) = S
      BY <1>3, <2>1 DEF Replacements
  <2> QED BY <1>3, <1>5, <2>2
<1> QED BY <1>4, <1>5

LEMMA ReplacementsFinite ==
    ASSUME NEW ms \in Seq(Message)
    PROVE  \A i \in 0..Len(ms) : IsFiniteSet(Replacements(ms, i))
<1> DEFINE R == [i \in 0..Len(ms) |-> Replacements(ms, i)]
           A == [i \in 0..Len(ms) |-> {r \in {R[i]} : IsFiniteSet(r)}]
<1>1. Len(ms) \in Nat
    BY LenProperties
<1>2. R[0] \in A[0]
  <2>1. Replacements(ms, 0) = {}
      BY DEF Replacements
  <2> QED BY <1>1, <2>1, FS_EmptySet
<1>3. ASSUME NEW i \in 1..Len(ms), R[i - 1] \in A[i - 1]
      PROVE  R[i] \in A[i]
  <2>1. i - 1 \in 0..Len(ms) /\ i \in 0..Len(ms)
      BY <1>1
  <2>2. IsFiniteSet(Replacements(ms, i - 1))
      BY <1>3, <2>1
  <2> QED BY <2>1, <2>2, ReplacementsGrow
<1>4. \A i \in 0..Len(ms) : R[i] \in A[i]
  <2> HIDE DEF R, A
  <2> QED BY <1>1, <1>2, <1>3, LoopInvariant
<1> QED BY <1>4
LEMMA RebuiltKeeps ==
    ASSUME NEW ms \in Seq(Message), NEW dict,
           NEW g, AnalyzesMessages(g, ms), \A k \in 0..Len(ms) : g[k] \in Found,
           NEW i \in 1..Len(ms), NEW a \in AfterMessages(ms, dict, g, i - 1)
    PROVE  Rebuilt(a, ms[i], dict) \in AfterMessages(ms, dict, g, i)
<1>1. /\ Len(ms) \in Nat /\ i \in Nat /\ i - 1 \in 0..Len(ms) /\ i \in 0..Len(ms) /\ i # 0
      /\ DOMAIN ms = 1..Len(ms)
    BY LenProperties
<1>2. /\ a.ms \in Seq(OutMessage(dict)) /\ a.found \in Found /\ Len(a.ms) = i - 1
      /\ \A j \in 1..i - 1 : Forwards(ms[j], a.ms[j], dict)
      /\ a.found.json_blocks = Cardinality(Replacements(ms, i - 1))
      /\ AllPlain(ms) => Behind(g[i - 1], a.found)
    BY DEF AfterMessages
<1>3. PICK m : /\ m = ms[i] /\ m \in Message /\ m.text \in Seq(Segment)
               /\ m.kind \in {"plain", "parts"}
               /\ m = [kind |-> m.kind, text |-> m.text]
  <2>1. ms[i] \in Message
      BY MessageType
  <2> QED BY <2>1, MessageType DEF Message
<1>4. g[i] = AnalyzeText(m.text, g[i - 1]) /\ g[i - 1] \in Found
    BY <1>1, <1>3 DEF AnalyzesMessages
<1>5. PICK c, d : c = Cardinality(Replacements(ms, i - 1))
                  /\ d = Cardinality(Replacements(ms, i))
    OBVIOUS
<1>6. c \in Nat /\ d = c + (IF m.kind = "plain" THEN Cardinality(Wins(m.text)) ELSE 0)
    BY <1>1, <1>3, <1>5, ReplacementsGrow, ReplacementsFinite
\* A message n that forwards m, and what is found with it, are enough.
<1>7. ASSUME NEW n, Forwards(m, n, dict), NEW f \in Found, f.json_blocks = d,
             AllPlain(ms) => Behind(g[i], f)
      PROVE  [ms |-> Append(a.ms, n), found |-> f] \in AfterMessages(ms, dict, g, i)
  <2>1. n \in OutMessage(dict)
      BY <1>7 DEF Forwards
  <2>2. PICK all : all = Append(a.ms, n)
      OBVIOUS
  <2>3. /\ all \in Seq(OutMessage(dict)) /\ Len(all) = Len(a.ms) + 1
        /\ \A j \in 1..Len(a.ms) : all[j] = a.ms[j]
        /\ all[Len(a.ms) + 1] = n
      BY <1>2, <2>1, <2>2, AppendProperties
  <2>4. Len(all) = i /\ all[i] = n
    <3>1. PICK l : l = Len(a.ms)
        OBVIOUS
    <3>2. l = i - 1
        BY <1>2, <3>1
    <3>3. l + 1 = i
        BY <1>1, <3>2
    <3> QED BY <2>3, <3>1, <3>3
  <2>5. ASSUME NEW j \in 1..i
        PROVE  Forwards(ms[j], all[j], dict)
    <3>1. CASE j = i
        BY <1>3, <1>7, <2>4, <3>1
    <3>2. CASE j # i
      <4>1. j \in 1..i - 1
          BY <1>1, <3>2
      <4>2. all[j] = a.ms[j]
          BY <1>2, <2>3, <4>1
      <4> QED BY <1>2, <4>1, <4>2
    <3> QED BY <3>1, <3>2
  <2> QED BY <1>5, <1>7, <2>2, <2>3, <2>4, <2>5 DEF AfterMessages
<1>8. CASE m.kind = "plain"
  <2>1. PICK new : new = CompressText(m.text, a.found, dict)
      OBVIOUS
  <2>2. /\ new.text \in Seq(Out(dict)) /\ Len(new.text) = Len(m.text)
        /\ \A j \in 1..Len(m.text) : new.text[j] = Sent(m.text, dict, j)
        /\ new.found \in Found
        /\ new.found.json_blocks = a.found.json_blocks + Cardinality(Wins(m.text))
        /\ Behind(g[i - 1], a.found)
              => Behind(AnalyzeText(m.text, g[i - 1]), new.found)
    <3>1. m.text \in Seq(Segment) /\ a.found \in Found /\ g[i - 1] \in Found
        BY <1>2, <1>3, <1>4
    <3>2. TextResult(new, m.text, a.found, dict, g[i - 1])
        BY <2>1, <3>1, CompressTextIs
    <3> QED BY <3>2 DEF TextResult
  <2>3. PICK n : n = [m EXCEPT !.text = new.text]
      OBVIOUS
  <2>4. n = [kind |-> m.kind, text |-> new.text]
      BY <1>3, <2>3
  <2>5. Forwards(m, n, dict)
      BY <1>3, <1>8, <2>2, <2>4 DEF Forwards, OutMessage
  <2>6. new.found.json_blocks = d
      BY <1>2, <1>5, <1>6, <1>8, <2>2
  <2>7. AllPlain(ms) => Behind(g[i], new.found)
      BY <1>2, <1>4, <2>2
  <2>8. Rebuilt(a, m, dict) = [ms |-> Append(a.ms, n), found |-> new.found]
      BY <1>8, <2>1, <2>3 DEF Rebuilt
  <2> QED BY <1>3, <1>7, <2>2, <2>5, <2>6, <2>7, <2>8
<1>9. CASE m.kind # "plain"
  <2>1. Rebuilt(a, m, dict) = [ms |-> Append(a.ms, m), found |-> a.found]
      BY <1>9 DEF Rebuilt
  <2>2. Forwards(m, m, dict)
    <3>1. m.text \in Seq(Out(dict))
        BY <1>3 DEF Out
    <3> QED BY <1>3, <1>9, <3>1 DEF Forwards, OutMessage
  <2>3. a.found.json_blocks = d
      BY <1>2, <1>5, <1>6, <1>9
  <2>4. ~AllPlain(ms)
      BY <1>1, <1>3, <1>9 DEF AllPlain
  <2> QED BY <1>2, <1>3, <1>7, <2>1, <2>2, <2>3, <2>4
<1> QED BY <1>8, <1>9

CompressesMessages(f, ms, dict) ==
    f = [i \in 0..Len(ms) |->
            IF i = 0 THEN [ms |-> <<>>, found |-> JTFAnalysis]
                     ELSE Rebuilt(f[i - 1], ms[i], dict)]

\* What is sent for the messages of a request, and what is told of it.
LEMMA CompressMessagesIs ==
    ASSUME NEW ms \in Seq(Message), NEW dict
    PROVE  LET new == CompressMessages(ms, dict)
           IN  /\ new.ms \in Seq(OutMessage(dict)) /\ new.found \in Found
               /\ Len(new.ms) = Len(ms)
               /\ \A j \in 1..Len(ms) : Forwards(ms[j], new.ms[j], dict)
               /\ new.found.json_blocks = Cardinality(Replacements(ms, Len(ms)))
               /\ AllPlain(ms) => Behind(AnalyzeMessages(ms), new.found)
<1>1. PICK g : /\ AnalyzesMessages(g, ms)
               /\ \A i \in 0..Len(ms) : g[i] \in Found
               /\ AnalyzeMessages(ms) = g[Len(ms)]
    BY AnalyzeMessagesRuns
<1> DEFINE N == Len(ms)
           All == [ms : Seq(OutMessage(dict)), found : Found]
           start == [ms |-> <<>>, found |-> JTFAnalysis]
           step == [p \in (1..N) \X All |-> Rebuilt(p[2], ms[p[1]], dict)]
           A == [i \in 0..N |-> AfterMessages(ms, dict, g, i)]
<1>2. N \in Nat
    BY LenProperties
<1>3. \A i \in 1..N, a \in All : step[<<i, a>>] = Rebuilt(a, ms[i], dict)
    OBVIOUS
<1>4. \A i \in 0..N : AfterMessages(ms, dict, g, i) \subseteq All
    BY DEF AfterMessages
<1>5. ASSUME NEW i \in 1..N, NEW a \in AfterMessages(ms, dict, g, i - 1)
      PROVE  Rebuilt(a, ms[i], dict) \in AfterMessages(ms, dict, g, i)
    BY <1>1, RebuiltKeeps
<1>6. start \in AfterMessages(ms, dict, g, 0)
  <2>1. Replacements(ms, 0) = {}
      BY DEF Replacements
  <2>2. Cardinality(Replacements(ms, 0)) = 0
      BY <2>1, FS_EmptySet
  <2>3. g[0] = JTFAnalysis
    <3>1. 0 \in 0..N
        BY <1>2
    <3> QED BY <1>1, <3>1 DEF AnalyzesMessages
  <2>4. Behind(g[0], JTFAnalysis)
      BY <2>3 DEF Behind, JTFAnalysis
  <2>5. start \in All /\ Len(start.ms) = 0 /\ start.found = JTFAnalysis
      BY NothingFound
  <2>6. start.found.json_blocks = 0
      BY DEF JTFAnalysis
  <2> HIDE DEF start
  <2> QED BY <2>2, <2>4, <2>5, <2>6 DEF AfterMessages
<1> HIDE DEF step, start, All
<1>7. PICK h : Loop(h, N, start, step) /\ \A i \in 0..N : h[i] \in A[i]
  <2>1. start \in A[0]
      BY <1>2, <1>6
  <2>2. ASSUME NEW i \in 1..N, NEW a \in A[i - 1]
        PROVE  step[<<i, a>>] \in A[i]
    <3>1. i - 1 \in 0..N /\ i \in 0..N
        BY <1>2
    <3>2. a \in AfterMessages(ms, dict, g, i - 1) /\ a \in All
        BY <1>4, <3>1
    <3>3. step[<<i, a>>] = Rebuilt(a, ms[i], dict)
        BY <1>3, <3>2
    <3>4. step[<<i, a>>] \in AfterMessages(ms, dict, g, i)
        BY <1>5, <3>2, <3>3
    <3> QED BY <3>1, <3>4
  <2> HIDE DEF A
  <2> QED BY <1>2, <2>1, <2>2, TypedLoopExists
<1>8. CompressesMessages(h, ms, dict)
  <2>1. ASSUME NEW i \in 0..N
        PROVE  (IF i = 0 THEN start ELSE step[<<i, h[i - 1]>>])
                  = IF i = 0 THEN start ELSE Rebuilt(h[i - 1], ms[i], dict)
    <3>1. i # 0 => i \in 1..N /\ i - 1 \in 0..N
        BY <1>2
    <3>2. i # 0 => h[i - 1] \in All
        BY <1>4, <1>7, <3>1
    <3> QED BY <1>3, <3>1, <3>2
  <2> HIDE DEF A
  <2> QED BY <1>7, <2>1 DEF Loop, CompressesMessages, start
<1> DEFINE f == CHOOSE x : CompressesMessages(x, ms, dict)
<1>9. CompressesMessages(f, ms, dict)
    BY <1>8
<1>10. CompressMessages(ms, dict) = f[N]
    BY DEF CompressMessages, CompressesMessages
<1> HIDE DEF f
<1>11. \A i \in 0..N : f[i] = IF i = 0 THEN start ELSE Rebuilt(f[i - 1], ms[i], dict)
    BY <1>9 DEF CompressesMessages, start
<1>12. \A i \in 0..N : f[i] \in A[i]
  <2>1. f[0] \in A[0]
    <3>1. 0 \in 0..N
        BY <1>2
    <3> QED BY <1>6, <1>11, <3>1
  <2>2. ASSUME NEW i \in 1..N, f[i - 1] \in A[i - 1]
        PROVE  f[i] \in A[i]
    <3>1. i - 1 \in 0..N /\ i \in 0..N /\ i # 0
        BY <1>2
    <3>2. f[i - 1] \in AfterMessages(ms, dict, g, i - 1)
        BY <2>2, <3>1
    <3>3. f[i] = Rebuilt(f[i - 1], ms[i], dict)
        BY <1>11, <3>1
    <3>4. f[i] \in AfterMessages(ms, dict, g, i)
        BY <1>5, <3>2, <3>3
    <3> QED BY <3>1, <3>4
  <2> HIDE DEF A
  <2> QED BY <1>2, <2>1, <2>2, LoopInvariant
<1>13. f[N] \in AfterMessages(ms, dict, g, N)
    BY <1>2, <1>12
<1> QED BY <1>1, <1>10, <1>13 DEF AfterMessages
(***************************************************************************)
(* The upstream reader.                                                    *)
(***************************************************************************)
LEMMA LengthOf ==
    ASSUME NEW n \in Nat, NEW s, s = [i \in 1..n |-> s[i]]
    PROVE  Len(s) = n /\ DOMAIN s = 1..n
<1> DEFINE S == {s[i] : i \in 1..n}
<1>1. s \in [1..n -> S]
    OBVIOUS
<1>2. s \in Seq(S)
  <2> HIDE DEF S
  <2> QED BY <1>1, SeqDef
<1>3. Len(s) \in Nat /\ DOMAIN s = 1..Len(s) /\ DOMAIN s = 1..n
    BY <1>2, LenProperties
<1>4. PICK m \in Nat : m = Len(s)
    BY <1>3
<1>5. 1..m = 1..n
    BY <1>3, <1>4
<1>6. m = n
  <2>1. \A x : x \in 1..m <=> x \in 1..n
      BY <1>5
  <2>2. m > 0 => m \in 1..m
      OBVIOUS
  <2>3. n > 0 => n \in 1..n
      OBVIOUS
  <2> QED BY <2>1, <2>2, <2>3
<1> QED BY <1>3, <1>4, <1>6

ReadOf(segment) ==
    IF segment.kind = "jtf"
    THEN [kind |-> "read", doc |-> Decoded(segment.encoded)] ELSE segment

LEMMA ReadIs ==
    ASSUME NEW dict, NEW ms \in Seq(OutMessage(dict))
    PROVE  LET read == ReadMessages(ms)
           IN  /\ Len(read) = Len(ms)
               /\ \A i \in 1..Len(ms) :
                     /\ Len(read[i].text) = Len(ms[i].text)
                     /\ \A j \in 1..Len(ms[i].text) :
                           read[i].text[j] = ReadOf(ms[i].text[j])
<1> DEFINE read == ReadMessages(ms)
           Text(i) == [j \in DOMAIN ms[i].text |-> ReadOf(ms[i].text[j])]
<1>1. DOMAIN ms = 1..Len(ms) /\ Len(ms) \in Nat
    BY LenProperties
<1>2. read = [i \in 1..Len(ms) |-> [ms[i] EXCEPT !.text = Text(i)]]
    BY <1>1 DEF ReadMessages, ReadOf
<1> HIDE DEF read
<1>3. Len(read) = Len(ms)
  <2>1. read = [i \in 1..Len(ms) |-> read[i]]
      BY <1>2
  <2> QED BY <1>1, <2>1, LengthOf
<1>4. ASSUME NEW i \in 1..Len(ms)
      PROVE  /\ Len(read[i].text) = Len(ms[i].text)
             /\ \A j \in 1..Len(ms[i].text) : read[i].text[j] = ReadOf(ms[i].text[j])
  <2>1. ms[i] \in OutMessage(dict)
      BY ElementOfSeq
  <2>2. PICK text : text = ms[i].text /\ text \in Seq(Out(dict))
      BY <2>1 DEF OutMessage
  <2>3. Len(text) \in Nat /\ DOMAIN text = 1..Len(text)
      BY <2>2, LenProperties
  <2>4. read[i].text = Text(i)
      BY <1>2, <2>1 DEF OutMessage
  <2>5. PICK t : t = [j \in 1..Len(text) |-> ReadOf(text[j])]
      OBVIOUS
  <2>6. t = Text(i)
      BY <2>2, <2>3, <2>5
  <2>7. \A j \in 1..Len(text) : t[j] = ReadOf(text[j])
      BY <2>5
  <2>8. Len(t) = Len(text)
    <3>1. t = [j \in 1..Len(text) |-> t[j]]
        BY <2>5
    <3> QED BY <2>3, <3>1, LengthOf
  <2> HIDE DEF Text
  <2> QED BY <2>2, <2>4, <2>6, <2>7, <2>8
<1> QED BY <1>3, <1>4 DEF read
(***************************************************************************)
(* The request.                                                            *)
(*                                                                         *)
(* The properties speak of a request that is done; the invariant says how  *)
(* far it is: what was told and sent is what the scan and the compression  *)
(* make of its messages.                                                   *)
(***************************************************************************)
Compressed ==
    \E dict : /\ forwarded = CompressMessages(messages, dict).ms
              /\ realized = CompressMessages(messages, dict).found

IInv ==
    /\ messages \in Prompts /\ opted \in BOOLEAN
    /\ phase \in {"analyze", "compress", "forward", "done"}
    /\ phase # "analyze" => analysis = AnalyzeMessages(messages)
    /\ phase \in {"analyze", "compress"} => realized = JTFAnalysis
    /\ phase = "compress" => opted
    /\ phase \in {"forward", "done"} =>
          IF opted THEN Compressed ELSE forwarded = messages /\ realized = JTFAnalysis
    /\ phase = "done" => received = ReadMessages(forwarded)

LEMMA IInvHolds == Spec => []IInv
<1>1. Init => IInv
    BY DEF Init, IInv
<1>2. IInv /\ [Next]_vars => IInv'
  <2> SUFFICES ASSUME IInv, [Next]_vars PROVE IInv'
      OBVIOUS
  <2>1. CASE Analyze
      BY <2>1 DEF Analyze, IInv
  <2>2. CASE Compress
    <3>1. Compressed'
        BY <2>2 DEF Compress, Compressed
    <3> QED BY <2>2, <3>1 DEF Compress, IInv
  <2>3. CASE Forward
      BY <2>3 DEF Forward, IInv, Compressed
  <2>4. CASE UNCHANGED vars
      BY <2>4 DEF vars, IInv, Compressed
  <2> QED BY <2>1, <2>2, <2>3, <2>4 DEF Next
<1> QED BY <1>1, <1>2, PTL DEF Spec

\* What is forwarded, whether the request opted or not: at the places of R
\* blocks, everywhere else the segments of the prompt.
Outcome(dict, R) ==
    /\ forwarded \in Seq(OutMessage(dict)) /\ Len(forwarded) = Len(messages)
    /\ R \subseteq Segments /\ IsFiniteSet(R)
    /\ \A i \in 1..Len(messages) :
          /\ Len(forwarded[i].text) = Len(messages[i].text)
          /\ \A j \in 1..Len(messages[i].text) :
                IF <<i, j>> \in R
                THEN messages[i].text[j].kind = "json" /\ forwarded[i].text[j].kind = "jtf"
                ELSE forwarded[i].text[j] = messages[i].text[j]
    /\ R = {} => forwarded = messages
    /\ realized.json_blocks = Cardinality(R)

LEMMA SegmentsAre ==
    ASSUME messages \in Seq(Message)
    PROVE  /\ \A i \in 1..Len(messages) : \A j \in 1..Len(messages[i].text) :
                 <<i, j>> \in Segments
           /\ \A at \in Segments :
                 \E i \in 1..Len(messages) : \E j \in 1..Len(messages[i].text) :
                    at = <<i, j>>
<1>1. DOMAIN messages = 1..Len(messages)
    BY LenProperties
<1>2. \A i \in 1..Len(messages) : DOMAIN messages[i].text = 1..Len(messages[i].text)
    BY MessageType, LenProperties
<1> QED BY <1>1, <1>2 DEF Segments

LEMMA CompressedOutcome ==
    ASSUME messages \in Seq(Message), Compressed
    PROVE  \E dict, R : Outcome(dict, R)
<1> DEFINE N == Len(messages)
           R == Replacements(messages, N)
<1>1. PICK dict : /\ forwarded = CompressMessages(messages, dict).ms
                  /\ realized = CompressMessages(messages, dict).found
    BY DEF Compressed
<1>2. /\ forwarded \in Seq(OutMessage(dict)) /\ Len(forwarded) = N
      /\ \A i \in 1..N : Forwards(messages[i], forwarded[i], dict)
      /\ realized.json_blocks = Cardinality(R)
    BY <1>1, CompressMessagesIs
<1>3. \A i \in 1..N : \A j : <<i, j>> \in R
                           <=> messages[i].kind = "plain" /\ j \in Wins(messages[i].text)
    BY DEF Replacements
<1>4. R \subseteq Segments
  <2>1. \A at \in R : \E i \in 1..N : \E j \in Wins(messages[i].text) : at = <<i, j>>
      BY DEF Replacements
  <2>2. \A i \in 1..N : Wins(messages[i].text) \subseteq 1..Len(messages[i].text)
      BY MessageType, WinsType
  <2>3. ASSUME NEW at \in R PROVE at \in Segments
    <3>1. PICK i \in 1..N : \E j \in Wins(messages[i].text) : at = <<i, j>>
        BY <2>1
    <3>2. PICK j \in 1..Len(messages[i].text) : at = <<i, j>>
        BY <2>2, <3>1
    <3> QED BY <3>2, SegmentsAre
  <2> HIDE DEF R
  <2> QED BY <2>3
<1>9. IsFiniteSet(R)
  <2>1. N \in 0..N
      BY LenProperties
  <2> QED BY <2>1, ReplacementsFinite
<1> HIDE DEF R
<1>5. ASSUME NEW i \in 1..N
      PROVE  /\ Len(forwarded[i].text) = Len(messages[i].text)
             /\ \A j \in 1..Len(messages[i].text) :
                   IF <<i, j>> \in R
                   THEN messages[i].text[j].kind = "json" /\ forwarded[i].text[j].kind = "jtf"
                   ELSE forwarded[i].text[j] = messages[i].text[j]
  <2>1. PICK m, n : m = messages[i] /\ n = forwarded[i] /\ Forwards(m, n, dict)
      BY <1>2
  <2>2. Len(n.text) = Len(m.text)
      BY <2>1 DEF Forwards
  <2>3. ASSUME NEW j \in 1..Len(m.text), <<i, j>> \in R
        PROVE  m.text[j].kind = "json" /\ n.text[j].kind = "jtf"
    <3>1. m.kind = "plain" /\ j \in Wins(m.text)
        BY <1>3, <2>1, <2>3
    <3>2. n.text[j] = Sent(m.text, dict, j)
        BY <2>1, <3>1 DEF Forwards
    <3>3. m.text[j].kind = "json"
        BY <3>1 DEF Wins, JsonCandidates
    <3>4. n.text[j].kind = "jtf"
        BY <3>1, <3>2 DEF Sent, Block
    <3> QED BY <3>3, <3>4
  <2>4. ASSUME NEW j \in 1..Len(m.text), <<i, j>> \notin R
        PROVE  n.text[j] = m.text[j]
    <3>1. ~(m.kind = "plain" /\ j \in Wins(m.text))
        BY <1>3, <2>1, <2>4
    <3> QED BY <2>1, <3>1 DEF Forwards, Sent
  <2> QED BY <2>1, <2>2, <2>3, <2>4
<1>6. ASSUME R = {} PROVE forwarded = messages
  <2>1. ASSUME NEW i \in 1..N PROVE forwarded[i] = messages[i]
    <3>1. PICK m, n : m = messages[i] /\ n = forwarded[i] /\ Forwards(m, n, dict)
        BY <1>2
    <3>2. m \in Message /\ m.text \in Seq(Segment)
        BY <3>1, MessageType
    <3>3. PICK s, t : s = n.text /\ t = m.text
        OBVIOUS
    <3>4. s \in Seq(Out(dict)) /\ t \in Seq(Out(dict)) /\ Len(s) = Len(t)
      <4>1. s \in Seq(Out(dict)) /\ Len(s) = Len(t)
          BY <3>1, <3>3 DEF Forwards, OutMessage
      <4>2. t \in Seq(Out(dict))
          BY <3>2, <3>3 DEF Out
      <4> QED BY <4>1, <4>2
    <3>5. \A j \in 1..Len(s) : s[j] = t[j]
        BY <1>5, <1>6, <3>1, <3>3, <3>4
    <3>6. s = t
        BY <3>4, <3>5, SeqEqual
    <3>7. n = [kind |-> m.kind, text |-> n.text] /\ m = [kind |-> m.kind, text |-> m.text]
        BY <3>1, <3>2 DEF Forwards, Message
    <3> QED BY <3>1, <3>3, <3>6, <3>7
  <2>2. messages \in Seq(OutMessage(dict))
    <3>1. Message \subseteq OutMessage(dict)
        BY DEF Message, OutMessage, Out
    <3> QED BY <3>1, SeqMonotonic
  <2> QED BY <1>2, <2>1, <2>2, SeqEqual
<1>7. Outcome(dict, R)
    BY <1>2, <1>4, <1>5, <1>6, <1>9 DEF Outcome
<1> QED BY <1>7

LEMMA UntouchedOutcome ==
    ASSUME messages \in Seq(Message), forwarded = messages, realized = JTFAnalysis
    PROVE  \E dict, R : Outcome(dict, R)
<1> PICK dict : TRUE
    OBVIOUS
<1>1. messages \in Seq(OutMessage(dict))
  <2>1. Message \subseteq OutMessage(dict)
      BY DEF Message, OutMessage, Out
  <2> QED BY <2>1, SeqMonotonic
<1>2. realized.json_blocks = Cardinality({}) /\ IsFiniteSet({})
    BY FS_EmptySet DEF JTFAnalysis
<1>3. Outcome(dict, {})
    BY <1>1, <1>2 DEF Outcome
<1> QED BY <1>3

\* Compression replaces documents where they stand and nothing else.
THEOREM BlocksAlone == Spec => []OnlyBlocksAreReplaced
<1>1. IInv => OnlyBlocksAreReplaced
  <2> SUFFICES ASSUME IInv, phase = "done" PROVE OnlyBlocksAreReplaced
      BY DEF OnlyBlocksAreReplaced
  <2>1. messages \in Seq(Message) /\ received = ReadMessages(forwarded)
      BY PromptsAssumption DEF IInv
  <2>2. PICK dict, R : Outcome(dict, R)
      BY <2>1, CompressedOutcome, UntouchedOutcome DEF IInv
  <2>3. /\ Len(received) = Len(forwarded)
        /\ \A i \in 1..Len(forwarded) :
              /\ Len(received[i].text) = Len(forwarded[i].text)
              /\ \A j \in 1..Len(forwarded[i].text) :
                    received[i].text[j] = ReadOf(forwarded[i].text[j])
      BY <2>1, <2>2, ReadIs DEF Outcome
  <2>4. Len(received) = Len(messages)
      BY <2>2, <2>3 DEF Outcome
  <2>5. \A i \in DOMAIN messages : Len(received[i].text) = Len(messages[i].text)
    <3>1. DOMAIN messages = 1..Len(messages)
        BY <2>1, LenProperties
    <3> QED BY <2>2, <2>3, <3>1 DEF Outcome
  <2>6. ASSUME NEW at \in Segments
        PROVE  IF at \in R THEN Became(at).kind = "read" /\ Was(at).kind = "json"
                           ELSE Became(at) = Was(at) /\ Became(at).kind # "read"
    <3>1. PICK i \in 1..Len(messages) : \E j \in 1..Len(messages[i].text) : at = <<i, j>>
        BY <2>1, SegmentsAre
    <3>2. PICK j \in 1..Len(messages[i].text) : at = <<i, j>>
        BY <3>1
    <3>3. Was(at) = messages[i].text[j] /\ Became(at) = received[i].text[j]
        BY <3>2 DEF Was, Became
    <3>4. Became(at) = ReadOf(forwarded[i].text[j])
        BY <2>2, <2>3, <3>3 DEF Outcome
    <3>5. CASE at \in R
      <4>1. messages[i].text[j].kind = "json" /\ forwarded[i].text[j].kind = "jtf"
          BY <2>2, <3>2, <3>5 DEF Outcome
      <4> QED BY <3>3, <3>4, <3>5, <4>1 DEF ReadOf
    <3>6. CASE at \notin R
      <4>1. forwarded[i].text[j] = messages[i].text[j]
          BY <2>2, <3>2, <3>6 DEF Outcome
      <4>2. messages[i].text[j] \in Segment
          BY <2>1, MessageType, ElementOfSeq
      <4>3. messages[i].text[j].kind \in {"prose", "json"}
          BY <4>2 DEF Segment
      <4> QED BY <3>3, <3>4, <3>6, <4>1, <4>3 DEF ReadOf
    <3> QED BY <3>5, <3>6
  <2>7. {at \in Segments : Became(at).kind = "read"} = R
    <3>1. R \subseteq Segments
        BY <2>2 DEF Outcome
    <3> QED BY <2>6, <3>1
  <2>8. realized.json_blocks = Cardinality({at \in Segments : Became(at).kind = "read"})
      BY <2>2, <2>7 DEF Outcome
  <2>9. realized.json_blocks = 0 => forwarded = messages
    BY <2>2, FS_EmptySet DEF Outcome
  <2> QED BY <2>4, <2>5, <2>6, <2>8, <2>9 DEF OnlyBlocksAreReplaced
<1> QED BY <1>1, IInvHolds, PTL

LEMMA MaxWithZero ==
    ASSUME NEW d \in Int
    PROVE  Max({0, d}) = IF d > 0 THEN d ELSE 0
<1> DEFINE x == IF d > 0 THEN d ELSE 0
<1>1. x \in {0, d} /\ \A y \in {0, d} : x >= y
    OBVIOUS
<1>2. \A z \in {0, d} : (\A y \in {0, d} : z >= y) => z = x
    OBVIOUS
<1> HIDE DEF x
<1>3. Max({0, d}) = x
    BY <1>1, <1>2 DEF Max
<1> QED BY <1>3 DEF x

\* The savings told for a prompt of strings are a floor of those realized.
THEOREM PotentialIsFloor == Spec => []PotentialIsAFloor
<1>1. IInv => PotentialIsAFloor
  <2> SUFFICES ASSUME IInv, opted, phase = "done",
                      \A i \in DOMAIN messages : messages[i].kind = "plain"
               PROVE  SavedTokens(analysis) <= SavedTokens(realized)
      BY DEF PotentialIsAFloor
  <2>1. messages \in Seq(Message) /\ AllPlain(messages) /\ Compressed
        /\ analysis = AnalyzeMessages(messages)
      BY PromptsAssumption DEF IInv, AllPlain
  <2>2. realized \in Found /\ Behind(analysis, realized)
      BY <2>1, CompressMessagesIs DEF Compressed
  <2>3. analysis \in Found
      BY <2>1, AnalyzeMessagesRuns, LenProperties
  <2>4. PICK p, q : /\ p = analysis.original_tokens - analysis.jtf_tokens
                    /\ q = realized.original_tokens - realized.jtf_tokens
      OBVIOUS
  <2>5. p \in Int /\ q \in Int /\ p <= q
    <3>1. /\ analysis.original_tokens \in Nat /\ analysis.jtf_tokens \in Nat
          /\ realized.original_tokens \in Nat /\ realized.jtf_tokens \in Nat
        BY <2>2, <2>3 DEF Found
    <3> QED BY <2>2, <2>4, <3>1 DEF Behind
  <2>6. SavedTokens(analysis) = Max({0, p}) /\ SavedTokens(realized) = Max({0, q})
      BY <2>4 DEF SavedTokens
  <2>7. /\ Max({0, p}) = IF p > 0 THEN p ELSE 0
        /\ Max({0, q}) = IF q > 0 THEN q ELSE 0
      BY <2>5, MaxWithZero
  <2> QED BY <2>5, <2>6, <2>7
<1> QED BY <1>1, IInvHolds, PTL
(***************************************************************************)
(* Texts.                                                                  *)
(***************************************************************************)
\* c is a with b behind it.
IsBehind(c, a, b) ==
    /\ Len(c) = Len(a) + Len(b)
    /\ \A p \in 1..Len(a) : c[p] = a[p]
    /\ \A p \in 1..Len(b) : c[Len(a) + p] = b[p]

LEMMA ConcatIsBehind ==
    ASSUME NEW S, NEW a \in Seq(S), NEW b \in Seq(S)
    PROVE  a \o b \in Seq(S) /\ IsBehind(a \o b, a, b)
    BY ConcatProperties DEF IsBehind

\* f[i] is the concatenation of the first i of the sequences.
Concats(f, seqs, S) ==
    /\ f \in [0..Len(seqs) -> Seq(S)]
    /\ f[0] = <<>>
    /\ \A i \in 1..Len(seqs) : f[i] = f[i - 1] \o seqs[i]

LEMMA FlattenIs ==
    ASSUME NEW S, NEW seqs \in Seq(Seq(S))
    PROVE  \E f : Concats(f, seqs, S) /\ FlattenSeq(seqs) = f[Len(seqs)]
<1>1. PICK n \in Nat : n = Len(seqs) /\ \A i \in 1..n : seqs[i] \in Seq(S)
  <2>1. Len(seqs) \in Nat /\ \A i \in 1..Len(seqs) : seqs[i] \in Seq(S)
      BY LenProperties, ElementOfSeq
  <2> QED BY <2>1
<1> DEFINE step == [p \in (1..n) \X Seq(S) |-> p[2] \o seqs[p[1]]]
           A == [i \in 0..n |-> Seq(S)]
<1>2. <<>> \in A[0] /\ \A i \in 1..n : \A a \in A[i - 1] : step[<<i, a>>] \in A[i]
  <2>1. <<>> \in A[0]
      BY <1>1, EmptySeq
  <2>2. ASSUME NEW i \in 1..n, NEW a \in A[i - 1] PROVE step[<<i, a>>] \in A[i]
    <3>1. a \in Seq(S) /\ A[i] = Seq(S)
        BY <1>1
    <3>2. step[<<i, a>>] = a \o seqs[i]
        BY <3>1
    <3> QED BY <1>1, <3>1, <3>2, ConcatProperties
  <2> QED BY <2>1, <2>2
<1>3. PICK f : Loop(f, n, <<>>, step) /\ \A i \in 0..n : f[i] \in A[i]
  <2> HIDE DEF step, A
  <2> QED BY <1>1, <1>2, TypedLoopExists
<1>4. f \in [0..n -> Seq(S)]
  <2>1. f = [i \in 0..n |-> f[i]]
      BY <1>3 DEF Loop
  <2> QED BY <1>3, <2>1
<1>5. \A i \in 0..n : f[i] = IF i = 0 THEN <<>> ELSE step[<<i, f[i - 1]>>]
    BY <1>3 DEF Loop
<1>6. f[0] = <<>>
  <2> HIDE DEF step
  <2>1. 0 \in 0..n
      BY <1>1
  <2> QED BY <1>5, <2>1
<1>7. ASSUME NEW i \in 1..n PROVE f[i] = f[i - 1] \o seqs[i]
  <2>1. i \in 0..n /\ i # 0 /\ i - 1 \in 0..n
      BY <1>1
  <2>2. f[i] = step[<<i, f[i - 1]>>] /\ f[i - 1] \in Seq(S)
      BY <1>4, <1>5, <2>1
  <2> QED BY <2>2
<1>8. Concats(f, seqs, S)
    BY <1>1, <1>4, <1>6, <1>7 DEF Concats
<1>9. FlattenSeq(seqs) = f[n]
  <2>1. CASE n = 0
    <3>1. seqs = <<>>
        BY <1>1, <2>1, EmptySeq
    <3> QED BY <1>6, <2>1, <3>1 DEF FlattenSeq
  <2>2. CASE n # 0
    <3> DEFINE Is(h) == h = [i \in 1..n |-> IF i = 1 THEN seqs[i] ELSE h[i - 1] \o seqs[i]]
               g == [i \in 1..n |-> f[i]]
    <3>1. f[1] = seqs[1]
      <4>1. 1 \in 1..n /\ 1 - 1 = 0
          BY <2>2
      <4>2. f[1] = f[1 - 1] \o seqs[1]
          BY <1>7, <4>1
      <4>3. f[1] = <<>> \o seqs[1] /\ seqs[1] \in Seq(S)
          BY <1>1, <1>6, <4>1, <4>2
      <4> QED BY <4>3, ConcatEmptySeq
    <3>2. ASSUME NEW i \in 1..n
          PROVE  g[i] = IF i = 1 THEN seqs[i] ELSE g[i - 1] \o seqs[i]
      <4>1. CASE i = 1
          BY <3>1, <4>1
      <4>2. CASE i # 1
        <5>1. i - 1 \in 1..n
            BY <1>1, <4>2
        <5> QED BY <1>7, <4>2, <5>1
      <4> QED BY <4>1, <4>2
    <3>3. Is(g)
      <4>1. g = [i \in 1..n |-> g[i]]
          OBVIOUS
      <4> HIDE DEF g
      <4> QED BY <3>2, <4>1
    <3>4. \E h : Is(h)
        BY <3>3
    <3>5. FlattenSeq(seqs) = (CHOOSE h : Is(h))[n]
        BY <1>1, <2>2 DEF FlattenSeq
    <3>6. PICK h : h = (CHOOSE k : Is(k))
        OBVIOUS
    <3>7. Is(h)
        BY <3>4, <3>6
    <3>8. \A i \in 1..n : h[i] = IF i = 1 THEN seqs[i] ELSE h[i - 1] \o seqs[i]
        BY <3>7
    <3> DEFINE h0 == [i \in 0..n |-> IF i = 0 THEN <<>> ELSE h[i]]
               C == [i \in 0..n |-> {f[i]}]
    <3>9. h0[0] \in C[0]
        BY <1>1, <1>6
    <3>10. ASSUME NEW i \in 1..n, h0[i - 1] \in C[i - 1] PROVE h0[i] \in C[i]
      <4>1. i \in 0..n /\ i - 1 \in 0..n /\ h0[i] = h[i] /\ h0[i - 1] = f[i - 1]
          BY <1>1, <3>10
      <4>2. CASE i = 1
          BY <3>1, <3>8, <4>1, <4>2
      <4>3. CASE i # 1
        <5>1. i - 1 # 0 /\ i - 1 \in 0..n
            BY <1>1, <4>3
        <5>2. h0[i - 1] = h[i - 1]
            BY <5>1
        <5>3. h[i] = h[i - 1] \o seqs[i]
            BY <3>8, <4>3
        <5> QED BY <1>7, <4>1, <5>2, <5>3
      <4> QED BY <4>2, <4>3
    <3>11. \A i \in 0..n : h0[i] \in C[i]
      <4> HIDE DEF h0, C
      <4> QED BY <1>1, <3>9, <3>10, LoopInvariant
    <3>12. h[n] = f[n]
        BY <1>1, <2>2, <3>11
    <3> QED BY <3>5, <3>6, <3>12
  <2> QED BY <2>1, <2>2
<1> QED BY <1>1, <1>8, <1>9

\* Where the elements of the sequences are in the concatenation F: those of
\* sequence i are behind off[i - 1].
Places(off, seqs, F) ==
    /\ off \in [0..Len(seqs) -> Nat] /\ off[0] = 0
    /\ Len(F) = off[Len(seqs)]
    /\ \A i \in 1..Len(seqs) :
          /\ off[i] = off[i - 1] + Len(seqs[i])
          /\ off[i] <= Len(F)
          /\ \A k \in 1..Len(seqs[i]) : F[off[i - 1] + k] = seqs[i][k]
    /\ \A p \in 1..Len(F) : \E i \in 1..Len(seqs) : \E k \in 1..Len(seqs[i]) : p = off[i - 1] + k

LEMMA FlattenPlaces ==
    ASSUME NEW S, NEW seqs \in Seq(Seq(S))
    PROVE  /\ FlattenSeq(seqs) \in Seq(S)
           /\ \E off : Places(off, seqs, FlattenSeq(seqs))
<1>1. PICK n \in Nat : n = Len(seqs) /\ \A i \in 1..n : seqs[i] \in Seq(S) /\ Len(seqs[i]) \in Nat
  <2>1. Len(seqs) \in Nat /\ \A i \in 1..Len(seqs) : seqs[i] \in Seq(S)
      BY LenProperties, ElementOfSeq
  <2>2. \A i \in 1..Len(seqs) : Len(seqs[i]) \in Nat
      BY <2>1, LenProperties
  <2> QED BY <2>1, <2>2
<1>2. PICK f : Concats(f, seqs, S) /\ FlattenSeq(seqs) = f[n]
    BY <1>1, FlattenIs
<1>3. f \in [0..n -> Seq(S)] /\ f[0] = <<>> /\ \A i \in 1..n : f[i] = f[i - 1] \o seqs[i]
    BY <1>1, <1>2 DEF Concats
<1> DEFINE off == [i \in 0..n |-> Len(f[i])]
<1>4. off \in [0..n -> Nat] /\ off[0] = 0
    BY <1>1, <1>3, EmptySeq, LenProperties
<1>5. ASSUME NEW i \in 1..n
      PROVE  /\ i \in 0..n /\ i - 1 \in 0..n
             /\ off[i] = off[i - 1] + Len(seqs[i])
             /\ \A p \in 1..off[i - 1] : f[i][p] = f[i - 1][p]
             /\ \A k \in 1..Len(seqs[i]) : f[i][off[i - 1] + k] = seqs[i][k]
  <2>1. i \in 0..n /\ i - 1 \in 0..n
      BY <1>1
  <2>2. off[i] = Len(f[i]) /\ off[i - 1] = Len(f[i - 1])
      BY <2>1
  <2>3. f[i - 1] \in Seq(S) /\ seqs[i] \in Seq(S) /\ f[i] = f[i - 1] \o seqs[i]
      BY <1>1, <1>3, <2>1
  <2>4. IsBehind(f[i], f[i - 1], seqs[i])
      BY <2>3, ConcatIsBehind
  <2> HIDE DEF off
  <2> QED BY <2>1, <2>2, <2>4 DEF IsBehind
<1> HIDE DEF off
\* What is in a prefix stays in the longer ones.
<1>6. ASSUME NEW i \in 0..n
      PROVE  \A j \in i..n : off[i] <= off[j] /\ \A p \in 1..off[i] : f[j][p] = f[i][p]
  <2> DEFINE Bad == {j \in i..n : ~(off[i] <= off[j] /\ \A p \in 1..off[i] : f[j][p] = f[i][p])}
  <2>1. SUFFICES ASSUME Bad # {} PROVE FALSE
      OBVIOUS
  <2>2. PICK j \in Bad : \A m \in Bad : j <= m
    <3>1. Bad \in SUBSET Nat
        BY <1>1
    <3> HIDE DEF Bad
    <3> QED BY <2>1, <3>1, LeastNat
  <2>3. j # i
      BY <1>1, <1>4
  <2>4. j \in 1..n /\ j - 1 \in i..n /\ j - 1 \notin Bad
    <3>1. j \in i..n /\ i \in 0..n
        OBVIOUS
    <3>2. j \in 1..n /\ j - 1 \in i..n
        BY <1>1, <2>3, <3>1
    <3>3. j - 1 \notin Bad
      <4> HIDE DEF Bad
      <4> QED BY <2>2, <3>1, <3>2
    <3> QED BY <3>2, <3>3
  <2>5. off[i] <= off[j - 1] /\ \A p \in 1..off[i] : f[j - 1][p] = f[i][p]
      BY <2>4
  <2>6. off[j] >= off[j - 1] /\ off[j - 1] \in Nat /\ off[i] \in Nat
    <3>1. i \in 0..n /\ j - 1 \in 0..n /\ Len(seqs[j]) \in Nat
        BY <1>1, <2>4
    <3>2. off[i] \in Nat /\ off[j - 1] \in Nat /\ off[j] = off[j - 1] + Len(seqs[j])
        BY <1>4, <1>5, <2>4, <3>1
    <3> QED BY <3>1, <3>2
  <2>7. ASSUME NEW p \in 1..off[i] PROVE f[j][p] = f[i][p]
    <3>1. p \in 1..off[j - 1]
        BY <1>1, <2>4, <2>5, <2>6
    <3> QED BY <1>5, <2>4, <2>5, <3>1
  <2>8. off[i] <= off[j]
      BY <1>4, <2>4, <2>5, <2>6
  <2> QED BY <2>2, <2>7, <2>8
<1>7. f[n] \in Seq(S) /\ Len(f[n]) = off[n]
    BY <1>1, <1>3 DEF off
<1>8. ASSUME NEW i \in 1..n
      PROVE  /\ off[i] <= off[n]
             /\ \A k \in 1..Len(seqs[i]) : f[n][off[i - 1] + k] = seqs[i][k]
  <2>1. i \in 0..n /\ n \in i..n
      BY <1>1
  <2>2. off[i] <= off[n] /\ \A p \in 1..off[i] : f[n][p] = f[i][p]
      BY <1>6, <2>1
  <2>3. ASSUME NEW k \in 1..Len(seqs[i]) PROVE f[n][off[i - 1] + k] = seqs[i][k]
    <3>1. off[i - 1] \in Nat /\ Len(seqs[i]) \in Nat
        BY <1>1, <1>4, <1>5
    <3>2. off[i - 1] + k \in 1..off[i]
        BY <1>5, <3>1
    <3> QED BY <1>5, <2>2, <3>2
  <2> QED BY <2>2, <2>3
<1>9. ASSUME NEW p \in 1..off[n]
      PROVE  \E i \in 1..n : \E k \in 1..Len(seqs[i]) : p = off[i - 1] + k
  <2> DEFINE Reached == {i \in 0..n : p <= off[i]}
  <2>1. PICK i \in Reached : \A m \in Reached : i <= m
    <3>1. Reached \in SUBSET Nat /\ n \in Reached
        BY <1>1, <1>4
    <3> HIDE DEF Reached
    <3> QED BY <3>1, LeastNat
  <2>2. i # 0
      BY <1>4
  <2>3. i \in 1..n /\ i - 1 \in 0..n /\ i - 1 \notin Reached
      BY <1>1, <2>1, <2>2
  <2>4. off[i - 1] < p /\ p <= off[i] /\ off[i - 1] \in Nat
      BY <1>4, <2>3
  <2>5. p - off[i - 1] \in 1..Len(seqs[i])
      BY <1>1, <1>5, <2>3, <2>4
  <2>6. p = off[i - 1] + (p - off[i - 1])
      BY <2>4
  <2> QED BY <2>3, <2>5, <2>6
<1>10. Places(off, seqs, f[n])
    BY <1>1, <1>4, <1>5, <1>7, <1>8, <1>9 DEF Places
<1> QED BY <1>2, <1>7, <1>10

LEMMA MinIs ==
    ASSUME NEW P \in SUBSET Int, NEW x \in P, \A y \in P : x <= y
    PROVE  Min(P) = x
<1>1. \E z \in P : \A y \in P : z <= y
    OBVIOUS
<1>2. Min(P) \in P /\ \A y \in P : Min(P) <= y
    BY <1>1 DEF Min
<1>3. Min(P) \in Int /\ x \in Int /\ x <= Min(P) /\ Min(P) <= x
    BY <1>2
<1> QED BY <1>3

LEMMA MaxIs ==
    ASSUME NEW P \in SUBSET Int, NEW x \in P, \A y \in P : x >= y
    PROVE  Max(P) = x
<1>1. \E z \in P : \A y \in P : z >= y
    OBVIOUS
<1>2. Max(P) \in P /\ \A y \in P : Max(P) >= y
    BY <1>1 DEF Max
<1>3. Max(P) \in Int /\ x \in Int /\ x >= Max(P) /\ Max(P) >= x
    BY <1>2
<1> QED BY <1>3

LEMMA LeastPlace ==
    ASSUME NEW n \in Nat, NEW P \in SUBSET (1..n), P # {}
    PROVE  Min(P) \in P /\ \A y \in P : Min(P) <= y
<1>1. P \in SUBSET Nat
    OBVIOUS
<1>2. \E z \in P : \A y \in P : z <= y
    BY <1>1, LeastNat
<1> QED BY <1>2 DEF Min

LEMMA GreatestPlace ==
    ASSUME NEW n \in Nat, NEW P \in SUBSET (1..n), P # {}
    PROVE  Max(P) \in P /\ \A y \in P : Max(P) >= y
<1> DEFINE T == {n - v : v \in P}
<1>1. T \in SUBSET Nat /\ T # {}
  <2>1. \A v \in P : v \in 1..n
      OBVIOUS
  <2>2. \A v \in P : n - v \in Nat
      BY <2>1
  <2> QED BY <2>2
<1>2. PICK t \in T : \A m \in T : t <= m
  <2> HIDE DEF T
  <2> QED BY <1>1, LeastNat
<1>3. PICK v \in P : t = n - v
    OBVIOUS
<1>4. \A w \in P : v >= w
  <2> TAKE w \in P
  <2>1. n - w \in T /\ w \in 1..n /\ v \in 1..n
      OBVIOUS
  <2>2. n - v <= n - w
      BY <1>2, <1>3, <2>1
  <2> QED BY <2>1, <2>2
<1> QED BY <1>4 DEF Max

\* A text is a sequence over a set of glyphs.
LEMMA TextIs ==
    ASSUME NEW G, NEW s \in Seq(G)
    PROVE  /\ Len(s) \in Nat /\ DOMAIN s = 1..Len(s)
           /\ \A i \in 1..Len(s) : s[i] \in G
           /\ ToSet(s) = {s[i] : i \in 1..Len(s)}
           /\ s # <<>> <=> Len(s) >= 1
<1>1. Len(s) \in Nat /\ DOMAIN s = 1..Len(s)
    BY LenProperties
<1>2. \A i \in 1..Len(s) : s[i] \in G
    BY ElementOfSeq
<1> QED BY <1>1, <1>2, EmptySeq DEF ToSet

LEMMA GlyphIs ==
    ASSUME NEW G, NEW g \in G
    PROVE  <<g>> \in Seq(G) /\ Len(<<g>>) = 1 /\ <<g>>[1] = g
OBVIOUS

LEMMA PieceType ==
    ASSUME NEW G, NEW s \in Seq(G), NEW a \in 1..Len(s) + 1, NEW b \in 0..Len(s)
    PROVE  /\ Piece(s, a, b) \in Seq(G)
           /\ Len(Piece(s, a, b)) = IF a <= b THEN b - a + 1 ELSE 0
           /\ \A i \in 1..b - a + 1 : Piece(s, a, b)[i] = s[a + i - 1]
<1>1. Len(s) \in Nat /\ \A i \in 1..Len(s) : s[i] \in G
    BY TextIs
<1>2. a \in Int /\ b \in Int /\ \A i \in a..b : s[i] \in G
    BY <1>1
<1> QED BY <1>2, SubSeqProperties DEF Piece

\* The text itself is the piece of it from one end to the other.
LEMMA WholePiece ==
    ASSUME NEW G, NEW s \in Seq(G)
    PROVE  Piece(s, 1, Len(s)) = s
BY SubSeqFull DEF Piece

(***************************************************************************)
(* Blanks.                                                                 *)
(***************************************************************************)
\* A text that neither begins nor ends with a blank.
Trim(s) == s = <<>> \/ (s[1] \notin Blanks /\ s[Len(s)] \notin Blanks)

LEMMA StripTrim ==
    ASSUME NEW G, NEW s \in Seq(G), Trim(s)
    PROVE  Strip(s) = s
<1>1. Len(s) \in Nat /\ DOMAIN s = 1..Len(s) /\ (s # <<>> => Len(s) >= 1)
    BY TextIs
<1> DEFINE solid == {i \in DOMAIN s : s[i] \notin Blanks}
<1>2. Strip(s) = IF solid = {} THEN <<>> ELSE Piece(s, Min(solid), Max(solid))
    BY DEF Strip
<1>3. CASE s = <<>>
  <2>1. Len(s) = 0
      BY <1>3, EmptySeq
  <2>2. solid = {}
      BY <1>1, <2>1
  <2> QED BY <1>2, <1>3, <2>2
<1>4. CASE s # <<>>
  <2>1. 1 \in solid /\ Len(s) \in solid /\ solid \in SUBSET Int /\ \A y \in solid : 1 <= y /\ Len(s) >= y
      BY <1>1, <1>4 DEF Trim
  <2>2. Min(solid) = 1 /\ Max(solid) = Len(s)
    <3> HIDE DEF solid
    <3> QED BY <2>1, MinIs, MaxIs
  <2>3. solid # {}
      BY <2>1
  <2> QED BY <1>2, <2>2, <2>3, WholePiece
<1> QED BY <1>3, <1>4

LEMMA TrimOfStrip ==
    ASSUME NEW G, NEW s \in Seq(G), s = Strip(s)
    PROVE  Trim(s)
<1>1. Len(s) \in Nat /\ DOMAIN s = 1..Len(s) /\ (s # <<>> => Len(s) >= 1)
    BY TextIs
<1> DEFINE solid == {i \in DOMAIN s : s[i] \notin Blanks}
           a == Min(solid)
           b == Max(solid)
<1>2. Strip(s) = IF solid = {} THEN <<>> ELSE Piece(s, a, b)
    BY DEF Strip
<1>3. CASE solid = {}
    BY <1>2, <1>3 DEF Trim
<1>4. CASE solid # {}
  <2>1. solid \in SUBSET (1..Len(s))
      BY <1>1
  <2>2. a \in solid /\ b \in solid /\ \A y \in solid : b >= y
    <3> HIDE DEF solid
    <3> QED BY <1>1, <1>4, <2>1, LeastPlace, GreatestPlace
  <2> HIDE DEF a, b
  <2>3. a \in 1..Len(s) /\ b \in 1..Len(s) /\ a <= b /\ s[a] \notin Blanks /\ s[b] \notin Blanks
      BY <1>1, <2>1, <2>2 DEF a
  <2>4. s = Piece(s, a, b)
      BY <1>2, <1>4
  <2>5. Len(s) = b - a + 1
      BY <1>1, <2>3, <2>4, PieceType
  <2>6. a = 1 /\ b = Len(s)
      BY <1>1, <2>3, <2>5
  <2> QED BY <2>3, <2>6 DEF Trim
<1> QED BY <1>3, <1>4

(***************************************************************************)
(* Quoted strings.                                                         *)
(***************************************************************************)
Escaped == {Q, B, "tab", "newline", "vtab"}

\* Three marks by name.
Open == "{"
Close == "}"
Comma == ","

LEMMA MarksDiffer ==
    /\ Open # Close /\ Open # "$" /\ Close # "$" /\ Open # Q /\ Close # Q /\ Comma # Q
    /\ Open \notin Blanks /\ Close \notin Blanks /\ Comma \notin Blanks
    /\ \A g \in {"0", "1", "2", "3", "4"} : g # Open /\ g # Close /\ g # Comma
    /\ Comma # "$" /\ Comma # Open /\ Comma # Close
<1>1. Open # Close /\ Open # "$" /\ Close # "$" /\ Open # Q /\ Close # Q /\ Comma # Q
    BY Zenon DEF Open, Close, Comma, Q
<1>2. Open \notin Blanks /\ Close \notin Blanks /\ Comma \notin Blanks
    BY Zenon DEF Open, Close, Comma, Blanks
<1>3. \A g \in {"0", "1", "2", "3", "4"} : g # Open /\ g # Close /\ g # Comma
    BY Zenon DEF Open, Close, Comma
<1>4. Comma # "$" /\ Comma # Open /\ Comma # Close
    BY Zenon DEF Open, Close, Comma
<1> QED BY <1>1, <1>2, <1>3, <1>4

\* The marks the encoder writes of its own, or escapes.
Marks == Escaped \cup {"t", "n", "v", "$", Open, Close, Comma, "=", "0", "1", "2", "3", "4",
                    "null", "true", "false", ":", "[", "]", "space"}

LEMMA EscapesAre ==
    /\ DOMAIN Escapes = Escaped
    /\ Escapes[Q] = Q /\ Escapes[B] = B
    /\ Escapes["tab"] = "t" /\ Escapes["newline"] = "n" /\ Escapes["vtab"] = "v"
    /\ Range(Escapes) = {Q, B, "t", "n", "v"}
<1>1. DOMAIN Escapes = Escaped
    BY DEF Escapes, Escaped
<1>2. /\ Escapes[Q] = Q /\ Escapes[B] = B
      /\ Escapes["tab"] = "t" /\ Escapes["newline"] = "n" /\ Escapes["vtab"] = "v"
    BY DEF Escapes, Q, B
<1>3. Range(Escapes) = {Escapes[g] : g \in Escaped}
    BY <1>1 DEF Range
<1>4. {Escapes[g] : g \in Escaped} = {Escapes[Q], Escapes[B], Escapes["tab"], Escapes["newline"], Escapes["vtab"]}
    BY DEF Escaped
<1> QED BY <1>1, <1>2, <1>3, <1>4

LEMMA EscapeReadBack ==
    ASSUME NEW g \in Escaped
    PROVE  (CHOOSE h \in DOMAIN Escapes : Escapes[h] = Escapes[g]) = g
<1>1. g \in DOMAIN Escapes
    BY EscapesAre
<1>2. \A h \in DOMAIN Escapes : Escapes[h] = Escapes[g] => h = g
    BY EscapesAre DEF Escaped, Q, B
<1> QED BY <1>1, <1>2

\* What is written for one glyph: itself, or a backslash and a letter.
LEMMA WrittenIs ==
    ASSUME NEW G, Marks \subseteq G, NEW g \in G
    PROVE  /\ Written(g) \in Seq(G)
           /\ g \in Escaped => /\ Len(Written(g)) = 2 /\ Written(g)[1] = B
                               /\ Written(g)[2] = Escapes[g]
                               /\ Escapes[g] \in {Q, B, "t", "n", "v"}
           /\ g \notin Escaped => Written(g) = <<g>> /\ Len(Written(g)) = 1 /\ Written(g)[1] = g
<1>1. CASE g \in Escaped
  <2>1. Written(g) = <<B, Escapes[g]>>
      BY <1>1, EscapesAre DEF Written
  <2>2. Escapes[g] \in {Q, B, "t", "n", "v"}
      BY <1>1, EscapesAre DEF Escaped
  <2>3. B \in G /\ Escapes[g] \in G
      BY <2>2 DEF Marks, Escaped
  <2> QED BY <1>1, <2>1, <2>2, <2>3
<1>2. CASE g \notin Escaped
  <2>1. Written(g) = <<g>>
      BY <1>2, EscapesAre DEF Written
  <2> QED BY <1>2, <2>1
<1> QED BY <1>1, <1>2

\* The text between the quotes.
Inner(s) == FlattenSeq([i \in DOMAIN s |-> Written(s[i])])

\* Where the glyphs of s are in it: glyph i behind off[i - 1].
Spread(off, s) ==
    /\ off \in [0..Len(s) -> Nat] /\ off[0] = 0
    /\ Len(Inner(s)) = off[Len(s)]
    /\ \A i \in 1..Len(s) :
          /\ off[i] <= Len(Inner(s))
          /\ s[i] \in Escaped =>
                /\ off[i] = off[i - 1] + 2
                /\ Inner(s)[off[i - 1] + 1] = B
                /\ Inner(s)[off[i - 1] + 2] = Escapes[s[i]]
          /\ s[i] \notin Escaped => off[i] = off[i - 1] + 1 /\ Inner(s)[off[i - 1] + 1] = s[i]
    /\ \A p \in 1..Len(Inner(s)) : \E i \in 1..Len(s) :
          \/ p = off[i - 1] + 1
          \/ s[i] \in Escaped /\ p = off[i - 1] + 2

LEMMA InnerIs ==
    ASSUME NEW G, Marks \subseteq G, NEW s \in Seq(G)
    PROVE  Inner(s) \in Seq(G) /\ \E off : Spread(off, s)
<1> DEFINE seqs == [i \in DOMAIN s |-> Written(s[i])]
           t == Inner(s)
<1>1. PICK n \in Nat : n = Len(s) /\ DOMAIN s = 1..n /\ \A i \in 1..n : s[i] \in G
    BY TextIs
<1>2. \A i \in 1..n : seqs[i] = Written(s[i])
    BY <1>1
<1>3. seqs \in Seq(Seq(G)) /\ Len(seqs) = n
  <2>1. \A i \in 1..n : Written(s[i]) \in Seq(G)
      BY <1>1, WrittenIs
  <2>2. seqs = [i \in 1..n |-> Written(s[i])]
      BY <1>1
  <2> QED BY <2>1, <2>2
<1>4. t = FlattenSeq(seqs)
    BY DEF Inner
<1> HIDE DEF seqs, t
<1>5. t \in Seq(G)
    BY <1>3, <1>4, FlattenPlaces
<1>6. PICK off : Places(off, seqs, t)
    BY <1>3, <1>4, FlattenPlaces
<1>7. /\ off \in [0..n -> Nat] /\ off[0] = 0 /\ Len(t) = off[n]
      /\ \A i \in 1..n : /\ off[i] = off[i - 1] + Len(seqs[i])
                         /\ off[i] <= Len(t)
                         /\ \A k \in 1..Len(seqs[i]) : t[off[i - 1] + k] = seqs[i][k]
      /\ \A p \in 1..Len(t) : \E i \in 1..n : \E k \in 1..Len(seqs[i]) : p = off[i - 1] + k
    BY <1>3, <1>6 DEF Places
<1>8. ASSUME NEW i \in 1..n
      PROVE  /\ s[i] \in Escaped => /\ Len(seqs[i]) = 2 /\ seqs[i][1] = B
                                    /\ seqs[i][2] = Escapes[s[i]]
             /\ s[i] \notin Escaped => Len(seqs[i]) = 1 /\ seqs[i][1] = s[i]
    BY <1>1, <1>2, WrittenIs
<1>9. ASSUME NEW i \in 1..n
      PROVE  /\ off[i] <= Len(t)
             /\ s[i] \in Escaped =>
                   /\ off[i] = off[i - 1] + 2
                   /\ t[off[i - 1] + 1] = B
                   /\ t[off[i - 1] + 2] = Escapes[s[i]]
             /\ s[i] \notin Escaped => off[i] = off[i - 1] + 1 /\ t[off[i - 1] + 1] = s[i]
  <2>1. /\ off[i] = off[i - 1] + Len(seqs[i]) /\ off[i] <= Len(t)
        /\ \A k \in 1..Len(seqs[i]) : t[off[i - 1] + k] = seqs[i][k]
      BY <1>7
  <2>2. CASE s[i] \in Escaped
    <3>1. 1 \in 1..Len(seqs[i]) /\ 2 \in 1..Len(seqs[i])
        BY <1>8, <2>2
    <3> QED BY <1>8, <2>1, <2>2, <3>1
  <2>3. CASE s[i] \notin Escaped
    <3>1. 1 \in 1..Len(seqs[i])
        BY <1>8, <2>3
    <3> QED BY <1>8, <2>1, <2>3, <3>1
  <2> QED BY <2>2, <2>3
<1>10. ASSUME NEW p \in 1..Len(t)
       PROVE  \E i \in 1..n : \/ p = off[i - 1] + 1
                              \/ s[i] \in Escaped /\ p = off[i - 1] + 2
  <2>1. PICK i \in 1..n : \E k \in 1..Len(seqs[i]) : p = off[i - 1] + k
      BY <1>7
  <2>2. PICK k \in 1..Len(seqs[i]) : p = off[i - 1] + k
      BY <2>1
  <2>3. k = 1 \/ (s[i] \in Escaped /\ k = 2)
    <3>1. CASE s[i] \in Escaped
      <4>1. k \in 1..2
          BY <1>8, <3>1
      <4> QED BY <3>1, <4>1
    <3>2. CASE s[i] \notin Escaped
      <4>1. k \in 1..1
          BY <1>8, <3>2
      <4> QED BY <4>1
    <3> QED BY <3>1, <3>2
  <2> QED BY <2>2, <2>3
<1>11. Spread(off, s)
    BY <1>1, <1>7, <1>9, <1>10 DEF Spread, t
<1> QED BY <1>5, <1>11 DEF t

\* A run of Unescaped: f[i] is what is read from place i on.
Reads(f, t, G) ==
    /\ f \in [1..Len(t) + 1 -> Seq(G)]
    /\ f[Len(t) + 1] = <<>>
    /\ \A i \in 1..Len(t) :
          /\ IsEscape(t, i) =>
                f[i] = <<CHOOSE g \in DOMAIN Escapes : Escapes[g] = t[i + 1]>> \o f[i + 2]
          /\ ~IsEscape(t, i) => f[i] = <<t[i]>> \o f[i + 1]

LEMMA UnescapedReads ==
    ASSUME NEW G, Marks \subseteq G, NEW t \in Seq(G)
    PROVE  \E f : Reads(f, t, G) /\ Unescaped(t) = f[1]
<1>1. PICK m \in Nat : m = Len(t) /\ \A i \in 1..m : t[i] \in G
    BY TextIs
<1> DEFINE Of(i) == CHOOSE g \in DOMAIN Escapes : Escapes[g] = t[i + 1]
           Is(f) == f = [i \in 1..m + 1 |->
                            IF i > m THEN <<>>
                            ELSE IF IsEscape(t, i) THEN <<Of(i)>> \o f[i + 2]
                                 ELSE <<t[i]>> \o f[i + 1]]
           from == CHOOSE f : Is(f)
<1>2. Unescaped(t) = from[1]
    BY <1>1 DEF Unescaped
<1>3. ASSUME NEW i \in 1..m, IsEscape(t, i) PROVE i < m /\ Of(i) \in G
  <2>1. i < m /\ t[i + 1] \in Range(Escapes)
      BY <1>1, <1>3 DEF IsEscape
  <2>2. \E g \in DOMAIN Escapes : Escapes[g] = t[i + 1]
      BY <2>1 DEF Range
  <2>3. Of(i) \in DOMAIN Escapes
      BY <2>2
  <2> QED BY <2>1, <2>3, EscapesAre DEF Marks
<1> HIDE DEF Of
<1>4. \E f : Is(f)
  <2> DEFINE Twos == Seq(G) \X Seq(G)
             Here(i, a) == IF IsEscape(t, i) THEN <<Of(i)>> \o a[2] ELSE <<t[i]>> \o a[1]
             step == [p \in (1..m) \X Twos |-> <<Here(m + 1 - p[1], p[2]), p[2][1]>>]
             start == <<<<>>, <<>>>>
             A == [k \in 0..m |-> Twos]
  <2>1. start \in A[0]
    <3>1. <<>> \in Seq(G) /\ A[0] = Twos
        BY EmptySeq
    <3> QED BY <3>1
  <2>2. ASSUME NEW i \in 1..m, NEW a \in Twos PROVE Here(i, a) \in Seq(G)
    <3>1. a[1] \in Seq(G) /\ a[2] \in Seq(G)
        BY <2>2
    <3>2. CASE IsEscape(t, i)
      <4>1. <<Of(i)>> \in Seq(G)
          BY <1>3, <3>2
      <4> QED BY <3>1, <3>2, <4>1, ConcatProperties
    <3>3. CASE ~IsEscape(t, i)
      <4>1. <<t[i]>> \in Seq(G)
          BY <1>1
      <4> QED BY <3>1, <3>3, <4>1, ConcatProperties
    <3> QED BY <3>2, <3>3
  <2> HIDE DEF Here
  <2>3. ASSUME NEW k \in 1..m, NEW a \in Twos
        PROVE  step[<<k, a>>] = <<Here(m + 1 - k, a), a[1]>> /\ step[<<k, a>>] \in Twos
    <3>1. step[<<k, a>>] = <<Here(m + 1 - k, a), a[1]>>
        OBVIOUS
    <3>2. Here(m + 1 - k, a) \in Seq(G) /\ a[1] \in Seq(G)
        BY <2>2
    <3> QED BY <3>1, <3>2
  <2>4. \A k \in 1..m : \A a \in A[k - 1] : step[<<k, a>>] \in A[k]
    <3>1. \A k \in 1..m : A[k - 1] = Twos /\ A[k] = Twos
        OBVIOUS
    <3> HIDE DEF A, step, Twos
    <3> QED BY <2>3, <3>1
  <2>5. PICK g : Loop(g, m, start, step) /\ \A k \in 0..m : g[k] \in A[k]
    <3> HIDE DEF step, A, start
    <3> QED BY <2>1, <2>4, TypedLoopExists
  <2>6. \A k \in 0..m : g[k] \in Twos
      BY <2>5
  <2>7. g[0] = start /\ \A k \in 1..m : g[k] = step[<<k, g[k - 1]>>]
    <3> HIDE DEF step, start
    <3>1. 0 \in 0..m /\ \A k \in 1..m : k \in 0..m /\ k # 0
        OBVIOUS
    <3> QED BY <2>5, <3>1 DEF Loop
  <2>8. ASSUME NEW k \in 1..m
        PROVE  g[k] = <<Here(m + 1 - k, g[k - 1]), g[k - 1][1]>>
    <3>1. g[k - 1] \in Twos
        BY <2>6
    <3> HIDE DEF step, Twos
    <3> QED BY <2>3, <2>7, <3>1
  <2>9. g[0][1] = <<>>
      BY <2>7
  <2> HIDE DEF step, start, A, Twos
  <2> DEFINE h == [i \in 1..m + 1 |-> g[m + 1 - i][1]]
  <2>10. ASSUME NEW i \in 1..m + 1
         PROVE  h[i] = IF i > m THEN <<>>
                       ELSE IF IsEscape(t, i) THEN <<Of(i)>> \o h[i + 2]
                            ELSE <<t[i]>> \o h[i + 1]
    <3>1. CASE i > m
      <4>1. m + 1 - i = 0
          BY <3>1
      <4> QED BY <2>9, <3>1, <4>1
    <3>2. CASE ~(i > m)
      <4>1. PICK k \in 1..m : k = m + 1 - i /\ i = m + 1 - k /\ m + 1 - (i + 1) = k - 1
          BY <3>2
      <4>2. h[i] = g[k][1] /\ h[i + 1] = g[k - 1][1]
          BY <3>2, <4>1
      <4>3. h[i] = Here(i, g[k - 1])
          BY <2>8, <4>1, <4>2
      <4>4. CASE IsEscape(t, i)
        <5>1. i < m
            BY <1>3, <3>2, <4>4
        <5>2. k - 1 \in 1..m /\ m + 1 - (i + 2) = (k - 1) - 1 /\ i + 2 \in 1..m + 1
            BY <4>1, <5>1
        <5>3. h[i + 2] = g[(k - 1) - 1][1]
            BY <5>2
        <5>4. g[k - 1][2] = g[(k - 1) - 1][1]
            BY <2>8, <5>2
        <5> HIDE DEF h
        <5> QED BY <3>2, <4>3, <4>4, <5>3, <5>4 DEF Here
      <4>5. CASE ~IsEscape(t, i)
        <5> HIDE DEF h
        <5> QED BY <3>2, <4>2, <4>3, <4>5 DEF Here
      <4> QED BY <4>4, <4>5
    <3> QED BY <3>1, <3>2
  <2>11. h = [i \in 1..m + 1 |-> h[i]]
      OBVIOUS
  <2>12. Is(h)
    <3> HIDE DEF h
    <3> QED BY <2>10, <2>11
  <2> QED BY <2>12
<1>5. Is(from)
    BY <1>4
<1>6. /\ from = [i \in 1..m + 1 |-> from[i]]
      /\ from[m + 1] = <<>>
      /\ \A i \in 1..m : /\ IsEscape(t, i) => from[i] = <<Of(i)>> \o from[i + 2]
                         /\ ~IsEscape(t, i) => from[i] = <<t[i]>> \o from[i + 1]
  <2> HIDE DEF from
  <2>1. \A i \in 1..m + 1 : from[i] = IF i > m THEN <<>>
                                      ELSE IF IsEscape(t, i) THEN <<Of(i)>> \o from[i + 2]
                                           ELSE <<t[i]>> \o from[i + 1]
      BY <1>5
  <2>2. m + 1 \in 1..m + 1 /\ m + 1 > m /\ \A i \in 1..m : i \in 1..m + 1 /\ ~(i > m)
      OBVIOUS
  <2>3. from = [i \in 1..m + 1 |-> from[i]]
      BY <1>5
  <2> QED BY <2>1, <2>2, <2>3
<1> HIDE DEF from, Is
<1>7. \A i \in 1..m + 1 : from[i] \in Seq(G)
  <2> DEFINE A == [k \in 0..m |-> Seq(G) \X Seq(G)]
             h == [k \in 0..m |-> <<from[m + 1 - k], IF k = 0 THEN <<>> ELSE from[m + 2 - k]>>]
  <2>1. h[0] \in A[0]
    <3>1. h[0] = <<<<>>, <<>>>>
        BY <1>6
    <3>2. <<>> \in Seq(G) /\ A[0] = Seq(G) \X Seq(G)
        BY EmptySeq
    <3> QED BY <3>1, <3>2
  <2>2. ASSUME NEW k \in 1..m, h[k - 1] \in A[k - 1] PROVE h[k] \in A[k]
    <3>1. PICK i \in 1..m : i = m + 1 - k /\ m + 2 - k = i + 1 /\ m + 1 - (k - 1) = i + 1
        OBVIOUS
    <3>2. k - 1 \in 0..m /\ k \in 0..m /\ k # 0
        OBVIOUS
    <3>3. h[k - 1] = <<from[i + 1], IF k - 1 = 0 THEN <<>> ELSE from[i + 2]>>
      <4>1. m + 2 - (k - 1) = i + 2
          BY <3>1
      <4> QED BY <3>1, <3>2, <4>1
    <3>4. h[k] = <<from[i], from[i + 1]>>
        BY <3>1, <3>2
    <3>5. h[k - 1] \in Seq(G) \X Seq(G)
        BY <2>2, <3>2
    <3> HIDE DEF h
    <3>6. from[i + 1] \in Seq(G)
        BY <3>3, <3>5
    <3>7. from[i] \in Seq(G)
      <4>1. CASE IsEscape(t, i)
        <5>1. i < m /\ Of(i) \in G
            BY <1>3, <4>1
        <5>2. k - 1 # 0
            BY <3>1, <5>1
        <5>3. from[i + 2] \in Seq(G)
            BY <3>3, <3>5, <5>2
        <5>4. from[i] = <<Of(i)>> \o from[i + 2] /\ <<Of(i)>> \in Seq(G)
            BY <1>6, <4>1, <5>1, GlyphIs
        <5> QED BY <5>3, <5>4, ConcatProperties
      <4>2. CASE ~IsEscape(t, i)
        <5>1. from[i] = <<t[i]>> \o from[i + 1] /\ <<t[i]>> \in Seq(G)
            BY <1>1, <1>6, <4>2, GlyphIs
        <5> QED BY <3>6, <5>1, ConcatProperties
      <4> QED BY <4>1, <4>2
    <3> QED BY <3>2, <3>4, <3>6, <3>7
  <2>3. \A k \in 0..m : h[k] \in A[k]
    <3> HIDE DEF h, A
    <3> QED BY <2>1, <2>2, LoopInvariant
  <2>4. ASSUME NEW i \in 1..m + 1 PROVE from[i] \in Seq(G)
    <3>1. PICK k \in 0..m : k = m + 1 - i /\ i = m + 1 - k
        OBVIOUS
    <3>2. h[k] \in Seq(G) \X Seq(G) /\ h[k][1] = from[i]
        BY <2>3, <3>1
    <3> HIDE DEF h
    <3> QED BY <3>2
  <2> QED BY <2>4
<1>8. from \in [1..m + 1 -> Seq(G)]
    BY <1>6, <1>7
<1>9. Reads(from, t, G)
    BY <1>1, <1>6, <1>8 DEF Reads, Of
<1> QED BY <1>2, <1>9

\* Escapes and what was escaped: the text between the quotes reads as s.
LEMMA InnerReadBack ==
    ASSUME NEW G, Marks \subseteq G, NEW s \in Seq(G)
    PROVE  Unescaped(Inner(s)) = s
<1>1. PICK n \in Nat : n = Len(s) /\ \A i \in 1..n : s[i] \in G
    BY TextIs
<1>2. PICK t \in Seq(G) : t = Inner(s)
    BY InnerIs
<1>3. PICK off : Spread(off, s)
    BY InnerIs
<1>4. PICK m \in Nat : m = Len(t)
    BY TextIs
<1>5. /\ off \in [0..n -> Nat] /\ off[0] = 0 /\ m = off[n]
      /\ \A i \in 1..n :
          /\ off[i] <= m
          /\ s[i] \in Escaped =>
                /\ off[i] = off[i - 1] + 2
                /\ t[off[i - 1] + 1] = B
                /\ t[off[i - 1] + 2] = Escapes[s[i]]
          /\ s[i] \notin Escaped => off[i] = off[i - 1] + 1 /\ t[off[i - 1] + 1] = s[i]
    BY <1>1, <1>2, <1>3, <1>4 DEF Spread
<1>6. PICK f : Reads(f, t, G) /\ Unescaped(t) = f[1]
    BY UnescapedReads
<1>7. /\ f \in [1..m + 1 -> Seq(G)]
      /\ f[m + 1] = <<>>
      /\ \A i \in 1..m :
          /\ IsEscape(t, i) =>
                f[i] = <<CHOOSE g \in DOMAIN Escapes : Escapes[g] = t[i + 1]>> \o f[i + 2]
          /\ ~IsEscape(t, i) => f[i] = <<t[i]>> \o f[i + 1]
    BY <1>4, <1>6 DEF Reads
\* One glyph of s read.
<1>8. ASSUME NEW i \in 1..n
      PROVE  /\ off[i - 1] + 1 \in 1..m + 1 /\ off[i] + 1 \in 1..m + 1
             /\ f[off[i - 1] + 1] = <<s[i]>> \o f[off[i] + 1]
  <2>1. i - 1 \in 0..n /\ i \in 0..n /\ off[i - 1] \in Nat /\ off[i] \in Nat /\ off[i] <= m
      BY <1>5
  <2>2. PICK p \in Nat : p = off[i - 1]
      BY <2>1
  <2>3. CASE s[i] \in Escaped
    <3>1. off[i] = p + 2 /\ t[p + 1] = B /\ t[p + 2] = Escapes[s[i]]
        BY <1>5, <2>2, <2>3
    <3>2. p + 1 \in 1..m /\ p + 1 < m /\ (p + 1) + 1 = p + 2 /\ (p + 1) + 2 = off[i] + 1
        BY <2>1, <3>1
    <3>3. Escapes[s[i]] \in Range(Escapes)
        BY <2>3, EscapesAre DEF Range
    <3>4. IsEscape(t, p + 1)
        BY <1>4, <3>1, <3>2, <3>3 DEF IsEscape
    <3>5. f[p + 1] = <<CHOOSE g \in DOMAIN Escapes : Escapes[g] = t[(p + 1) + 1]>> \o f[(p + 1) + 2]
        BY <1>7, <3>2, <3>4
    <3>6. f[p + 1] = <<CHOOSE g \in DOMAIN Escapes : Escapes[g] = Escapes[s[i]]>> \o f[off[i] + 1]
        BY <3>1, <3>2, <3>5
    <3>7. f[p + 1] = <<s[i]>> \o f[off[i] + 1]
        BY <2>3, <3>6, EscapeReadBack
    <3>8. off[i - 1] + 1 \in 1..m + 1 /\ off[i] + 1 \in 1..m + 1
        BY <2>1, <2>2, <3>2
    <3> QED BY <2>2, <3>7, <3>8
  <2>4. CASE s[i] \notin Escaped
    <3>1. off[i] = p + 1 /\ t[p + 1] = s[i]
        BY <1>5, <2>2, <2>4
    <3>2. p + 1 \in 1..m /\ (p + 1) + 1 = off[i] + 1
        BY <2>1, <3>1
    <3>3. ~IsEscape(t, p + 1)
        BY <2>4, <3>1 DEF IsEscape, Escaped
    <3>4. f[p + 1] = <<t[p + 1]>> \o f[(p + 1) + 1]
        BY <1>7, <3>2, <3>3
    <3> QED BY <2>1, <2>2, <3>1, <3>2, <3>4
  <2> QED BY <2>3, <2>4
\* What is read from glyph i of s on.
<1> DEFINE A == [k \in 0..n |-> {Piece(s, n - k + 1, n)}]
           h == [k \in 0..n |-> f[off[n - k] + 1]]
<1>9. h[0] \in A[0]
  <2>1. 0 \in 0..n /\ n - 0 = n /\ n + 1 \in 1..Len(s) + 1 /\ n \in 0..Len(s)
      BY <1>1
  <2>2. Piece(s, n + 1, n) = <<>>
      BY SubSeqEmpty DEF Piece
  <2> QED BY <1>5, <1>7, <2>1, <2>2
<1>10. ASSUME NEW k \in 1..n, h[k - 1] \in A[k - 1] PROVE h[k] \in A[k]
  <2>1. PICK i \in 1..n : /\ i = n - k + 1 /\ i - 1 = n - k /\ n - (k - 1) = i
                          /\ n - (k - 1) + 1 = i + 1
      OBVIOUS
  <2>2. k - 1 \in 0..n /\ k \in 0..n
      OBVIOUS
  <2>3. f[off[i] + 1] = Piece(s, i + 1, n)
    <3>1. h[k - 1] = f[off[i] + 1] /\ A[k - 1] = {Piece(s, i + 1, n)}
        BY <2>1, <2>2
    <3> QED BY <1>10, <3>1
  <2>4. f[off[i - 1] + 1] = <<s[i]>> \o Piece(s, i + 1, n)
      BY <1>8, <2>3
  <2>5. <<s[i]>> \o Piece(s, i + 1, n) = Piece(s, i, n)
    <3>1. i \in 1..Len(s) /\ n \in i..Len(s)
        BY <1>1
    <3> QED BY <3>1, SubSeqRecursiveFirst DEF Piece
  <2>6. h[k] = f[off[i - 1] + 1] /\ A[k] = {Piece(s, i, n)}
      BY <2>1, <2>2
  <2> QED BY <2>4, <2>5, <2>6
<1>11. \A k \in 0..n : h[k] \in A[k]
  <2> HIDE DEF h, A
  <2> QED BY <1>9, <1>10, LoopInvariant
<1>12. f[1] = Piece(s, 1, n)
  <2>1. n \in 0..n /\ n - n = 0
      OBVIOUS
  <2>2. h[n] = f[off[0] + 1] /\ A[n] = {Piece(s, 1, n)}
      BY <2>1
  <2>3. off[0] + 1 = 1
      BY <1>5
  <2>4. h[n] \in A[n]
      BY <1>11, <2>1
  <2> HIDE DEF h, A
  <2> QED BY <2>2, <2>3, <2>4
<1> QED BY <1>1, <1>2, <1>6, <1>12, WholePiece

LEMMA DumpsIs ==
    ASSUME NEW G, Marks \subseteq G, NEW s \in Seq(G)
    PROVE  /\ Inner(s) \in Seq(G) /\ Dumps(s) \in Seq(G)
           /\ Len(Dumps(s)) = Len(Inner(s)) + 2
           /\ Dumps(s)[1] = Q /\ Dumps(s)[Len(Inner(s)) + 2] = Q
           /\ \A i \in 1..Len(Inner(s)) : Dumps(s)[i + 1] = Inner(s)[i]
           /\ Piece(Dumps(s), 2, Len(Dumps(s)) - 1) = Inner(s)
<1>1. PICK t \in Seq(G) : t = Inner(s)
    BY InnerIs
<1>2. PICK m \in Nat : m = Len(t) /\ \A i \in 1..m : t[i] \in G
    BY TextIs
<1>3. <<Q>> \in Seq(G) /\ Len(<<Q>>) = 1 /\ <<Q>>[1] = Q
  <2>1. Q \in G
      BY DEF Marks, Escaped
  <2> QED BY <2>1, GlyphIs
<1>4. PICK u \in Seq(G) : u = <<Q>> \o t /\ IsBehind(u, <<Q>>, t)
    BY <1>3, ConcatIsBehind
<1>5. PICK d \in Seq(G) : d = u \o <<Q>> /\ IsBehind(d, u, <<Q>>)
    BY <1>3, ConcatIsBehind
<1>6. Dumps(s) = d
    BY <1>1, <1>4, <1>5 DEF Dumps, Inner
<1>7. Len(u) = m + 1 /\ u[1] = Q /\ \A i \in 1..m : u[1 + i] = t[i]
    BY <1>2, <1>3, <1>4 DEF IsBehind
<1>8. Len(d) = m + 2 /\ (\A i \in 1..m + 1 : d[i] = u[i]) /\ d[m + 2] = Q
  <2>1. Len(d) = Len(u) + 1 /\ (\A i \in 1..Len(u) : d[i] = u[i]) /\ d[Len(u) + 1] = Q
      BY <1>3, <1>5 DEF IsBehind
  <2> QED BY <1>7, <2>1
<1>9. d[1] = Q /\ \A i \in 1..m : d[i + 1] = t[i]
  <2>1. d[1] = u[1] /\ \A i \in 1..m : d[i + 1] = u[i + 1] /\ 1 + i = i + 1
      BY <1>8
  <2> QED BY <1>7, <2>1
<1>10. Piece(d, 2, m + 1) = t
  <2>1. 2 \in 1..Len(d) + 1 /\ m + 1 \in 0..Len(d)
      BY <1>8
  <2>2. PICK x \in Seq(G) : x = Piece(d, 2, m + 1) /\ Len(x) = m
                            /\ \A i \in 1..m : x[i] = d[2 + i - 1]
    <3>1. /\ Piece(d, 2, m + 1) \in Seq(G)
          /\ Len(Piece(d, 2, m + 1)) = IF 2 <= m + 1 THEN m + 1 - 2 + 1 ELSE 0
          /\ \A i \in 1..m + 1 - 2 + 1 : Piece(d, 2, m + 1)[i] = d[2 + i - 1]
        BY <2>1, PieceType
    <3>2. (IF 2 <= m + 1 THEN m + 1 - 2 + 1 ELSE 0) = m /\ m + 1 - 2 + 1 = m
        OBVIOUS
    <3> QED BY <3>1, <3>2
  <2>3. \A i \in 1..m : x[i] = t[i]
    <3>1. \A i \in 1..m : 2 + i - 1 = i + 1
        OBVIOUS
    <3> QED BY <1>9, <2>2, <3>1
  <2> QED BY <1>2, <2>2, <2>3, SeqEqual
<1>11. m + 2 - 1 = m + 1
    OBVIOUS
<1> QED BY <1>1, <1>2, <1>6, <1>8, <1>9, <1>10, <1>11

\* json.loads gives back what json.dumps wrote.
LEMMA LoadsDumps ==
    ASSUME NEW G, Marks \subseteq G, NEW s \in Seq(G)
    PROVE  Loads(Dumps(s)) = Str(s)
<1>1. Unescaped(Piece(Dumps(s), 2, Len(Dumps(s)) - 1)) = s
    BY DumpsIs, InnerReadBack
<1> QED BY <1>1 DEF Loads

\* A quoted string has no blank that json.dumps escapes, and no mark that s
\* has not.
LEMMA DumpsGlyphs ==
    ASSUME NEW G, Marks \subseteq G, NEW s \in Seq(G)
    PROVE  \A p \in 1..Len(Dumps(s)) :
               \/ Dumps(s)[p] \in {Q, B, "t", "n", "v"}
               \/ Dumps(s)[p] \in ToSet(s) \ Escaped
<1>1. PICK n \in Nat : n = Len(s) /\ ToSet(s) = {s[i] : i \in 1..n}
    BY TextIs
<1>2. PICK off : Spread(off, s)
    BY InnerIs
<1>3. PICK t \in Seq(G), m \in Nat : t = Inner(s) /\ m = Len(t)
    BY InnerIs, TextIs
<1>4. PICK d \in Seq(G) : d = Dumps(s)
    BY DumpsIs
<1>5. /\ Len(d) = m + 2 /\ d[1] = Q /\ d[m + 2] = Q /\ \A i \in 1..m : d[i + 1] = t[i]
    BY <1>3, <1>4, DumpsIs
<1>6. ASSUME NEW p \in 1..m PROVE t[p] \in {Q, B, "t", "n", "v"} \/ t[p] \in ToSet(s) \ Escaped
  <2>1. PICK i \in 1..n : p = off[i - 1] + 1 \/ (s[i] \in Escaped /\ p = off[i - 1] + 2)
      BY <1>1, <1>2, <1>3 DEF Spread
  <2>2. CASE s[i] \in Escaped
    <3>1. t[off[i - 1] + 1] = B /\ t[off[i - 1] + 2] = Escapes[s[i]]
        BY <1>1, <1>2, <1>3, <2>2 DEF Spread
    <3>2. Escapes[s[i]] \in {Q, B, "t", "n", "v"}
        BY <2>2, EscapesAre DEF Escaped
    <3> QED BY <2>1, <3>1, <3>2
  <2>3. CASE s[i] \notin Escaped
    <3>1. t[p] = s[i]
        BY <1>1, <1>2, <1>3, <2>1, <2>3 DEF Spread
    <3> QED BY <1>1, <2>3, <3>1
  <2> QED BY <2>2, <2>3
<1>7. ASSUME NEW p \in 1..m + 2 PROVE d[p] \in {Q, B, "t", "n", "v"} \/ d[p] \in ToSet(s) \ Escaped
  <2>1. CASE p = 1 \/ p = m + 2
      BY <1>5, <2>1
  <2>2. CASE p # 1 /\ p # m + 2
    <3>1. p - 1 \in 1..m /\ (p - 1) + 1 = p
        BY <2>2
    <3> QED BY <1>5, <1>6, <3>1
  <2> QED BY <2>1, <2>2
<1> QED BY <1>4, <1>5, <1>7

LEMMA DumpsTrim ==
    ASSUME NEW G, Marks \subseteq G, NEW s \in Seq(G)
    PROVE  Trim(Dumps(s)) /\ Strip(Dumps(s)) = Dumps(s) /\ Dumps(s) # <<>>
<1>1. Q \notin Blanks
    BY DEF Q, Blanks
<1>2. Trim(Dumps(s))
    BY <1>1, DumpsIs DEF Trim
<1>3. Dumps(s) # <<>>
  <2>1. Len(Inner(s)) \in Nat
      BY DumpsIs, TextIs
  <2> QED BY <2>1, DumpsIs, EmptySeq
<1> QED BY <1>2, <1>3, DumpsIs, StripTrim

(***************************************************************************)
(* How a token begins.                                                     *)
(***************************************************************************)
LEMMA StartsWithIs ==
    ASSUME NEW G, NEW s \in Seq(G), NEW H, NEW p \in Seq(H)
    PROVE  StartsWith(s, p) <=> Len(p) <= Len(s) /\ \A i \in 1..Len(p) : s[i] = p[i]
<1>1. s \in Seq(G \cup H) /\ p \in Seq(G \cup H)
    BY SeqMonotonic
<1>2. PICK n \in Nat, m \in Nat : n = Len(p) /\ m = Len(s)
    BY TextIs
<1>3. CASE n <= m
  <2>1. 1 \in 1..Len(p) + 1 /\ n \in 0..Len(p) /\ 1 \in 1..Len(s) + 1 /\ n \in 0..Len(s)
      BY <1>2, <1>3
  <2>2. PICK x \in Seq(G \cup H) : /\ x = Piece(s, 1, n) /\ Len(x) = n
                                   /\ \A i \in 1..n : x[i] = s[i]
    <3>1. /\ Piece(s, 1, n) \in Seq(G \cup H)
          /\ Len(Piece(s, 1, n)) = IF 1 <= n THEN n - 1 + 1 ELSE 0
          /\ \A i \in 1..n - 1 + 1 : Piece(s, 1, n)[i] = s[1 + i - 1]
        BY <1>1, <2>1, PieceType
    <3>2. (IF 1 <= n THEN n - 1 + 1 ELSE 0) = n /\ n - 1 + 1 = n /\ \A i \in 1..n : 1 + i - 1 = i
        OBVIOUS
    <3> QED BY <3>1, <3>2
  <2>3. Piece(p, 1, n) = p
      BY <1>2, WholePiece
  <2>4. x = p <=> \A i \in 1..n : s[i] = p[i]
      BY <1>1, <1>2, <2>2, SeqEqual
  <2>5. StartsWith(s, p) <=> p = x
      BY <1>2, <1>3, <2>2, <2>3 DEF StartsWith, IsPrefix, Piece
  <2> QED BY <1>2, <1>3, <2>4, <2>5
<1>4. CASE ~(n <= m)
    BY <1>2, <1>4 DEF StartsWith, IsPrefix
<1> QED BY <1>3, <1>4

LEMMA StartsWithGlyph ==
    ASSUME NEW G, NEW s \in Seq(G), NEW g
    PROVE  StartsWith(s, <<g>>) <=> s # <<>> /\ s[1] = g
<1>1. <<g>> \in Seq({g}) /\ Len(<<g>>) = 1 /\ <<g>>[1] = g
    OBVIOUS
<1>2. StartsWith(s, <<g>>) <=> 1 <= Len(s) /\ \A i \in 1..1 : s[i] = <<g>>[i]
    BY <1>1, StartsWithIs
<1>3. 1 <= Len(s) <=> s # <<>>
    BY EmptySeq
<1>4. (\A i \in 1..1 : s[i] = <<g>>[i]) <=> s[1] = g
    BY <1>1
<1> QED BY <1>2, <1>3, <1>4

LEMMA StartsWithTwo ==
    ASSUME NEW G, NEW s \in Seq(G), NEW g, NEW h
    PROVE  StartsWith(s, <<g, h>>) <=> Len(s) >= 2 /\ s[1] = g /\ s[2] = h
<1>1. <<g, h>> \in Seq({g, h}) /\ Len(<<g, h>>) = 2 /\ <<g, h>>[1] = g /\ <<g, h>>[2] = h
    OBVIOUS
<1>2. StartsWith(s, <<g, h>>) <=> 2 <= Len(s) /\ \A i \in 1..2 : s[i] = <<g, h>>[i]
    BY <1>1, StartsWithIs
<1>3. (\A i \in 1..2 : s[i] = <<g, h>>[i]) <=> s[1] = g /\ s[2] = h
  <2>1. \A i \in 1..2 : i = 1 \/ i = 2
      OBVIOUS
  <2> QED BY <1>1, <2>1
<1>4. Len(s) \in Nat
    BY TextIs
<1> QED BY <1>2, <1>3, <1>4

(***************************************************************************)
(* Bare tokens.                                                            *)
(***************************************************************************)
LEMMA SafeIs ==
    ASSUME NEW G, NEW s \in Seq(G), Safe(s)
    PROVE  /\ s # <<>> /\ Len(s) >= 1 /\ s \notin Reserved /\ s[1] # "-"
           /\ Trim(s) /\ Strip(s) = s
           /\ \A i \in 1..Len(s) : s[i] \notin Unsafe
<1>1. s # <<>> /\ s \notin Reserved /\ s = Strip(s) /\ s[1] # "-" /\ ToSet(s) \cap Unsafe = {}
    BY DEF Safe
<1>2. Len(s) >= 1 /\ ToSet(s) = {s[i] : i \in 1..Len(s)}
    BY <1>1, TextIs
<1> QED BY <1>1, <1>2, TrimOfStrip

Numerals == {"0", "1", "2", "3", "4", "7"}

LEMMA DigitsAre == Digits = Numerals
<1>1. DOMAIN Digit = 1..5 /\ Digit[1] = "0" /\ Digit[2] = "1" /\ Digit[3] = "2" /\ Digit[4] = "3" /\ Digit[5] = "4"
    BY DEF Digit
<1>2. ToSet(Digit) = {Digit[1], Digit[2], Digit[3], Digit[4], Digit[5]}
  <2>1. 1..5 = {1, 2, 3, 4, 5}
      OBVIOUS
  <2> QED BY <1>1, <2>1 DEF ToSet
<1> QED BY <1>1, <1>2 DEF Digits, Numerals

\* The glyphs of a number.
LEMMA NumberGlyphs ==
    ASSUME NEW G, NEW s \in Seq(G), LooksNumeric(s), s = Strip(s)
    PROVE  s # <<>> /\ \A i \in 1..Len(s) : s[i] \in Numerals \cup {".", "-"}
<1>1. PICK u : /\ u = IF StartsWith(s, <<"-">>) THEN Tail(s) ELSE s
               /\ ToSet(u) \subseteq Numerals \cup {"."} /\ ToSet(u) \cap Numerals # {}
    BY DigitsAre DEF LooksNumeric
<1>2. Len(s) \in Nat /\ (s # <<>> => Len(s) >= 1)
    BY TextIs
<1>3. CASE StartsWith(s, <<"-">>)
  <2>1. s # <<>> /\ s[1] = "-"
      BY <1>3, StartsWithGlyph
  <2>2. u \in Seq(G) /\ Len(u) = Len(s) - 1 /\ \A i \in 1..Len(u) : u[i] = s[i + 1]
      BY <1>1, <1>3, <2>1, HeadTailProperties
  <2>3. \A i \in 1..Len(u) : u[i] \in Numerals \cup {"."}
    <3>1. ToSet(u) = {u[i] : i \in 1..Len(u)}
        BY <2>2, TextIs
    <3> QED BY <1>1, <3>1
  <2>4. ASSUME NEW i \in 1..Len(s) PROVE s[i] \in Numerals \cup {".", "-"}
    <3>1. CASE i = 1
        BY <2>1, <3>1
    <3>2. CASE i # 1
      <4>1. i - 1 \in 1..Len(u) /\ (i - 1) + 1 = i
          BY <1>2, <2>2, <3>2
      <4> QED BY <2>2, <2>3, <4>1
    <3> QED BY <3>1, <3>2
  <2> QED BY <2>1, <2>4
<1>4. CASE ~StartsWith(s, <<"-">>)
  <2>1. u = s
      BY <1>1, <1>4
  <2>2. ToSet(s) = {s[i] : i \in 1..Len(s)}
      BY TextIs
  <2>3. s # <<>>
    <3>1. SUFFICES ASSUME s = <<>> PROVE FALSE
        OBVIOUS
    <3>2. Len(s) = 0
        BY <3>1, EmptySeq
    <3>3. ToSet(s) = {}
        BY <2>2, <3>2
    <3> QED BY <1>1, <2>1, <3>3
  <2> QED BY <1>1, <2>1, <2>2, <2>3
<1> QED BY <1>3, <1>4

LEMMA QuotedIsNoNumber ==
    ASSUME NEW G, NEW s \in Seq(G), s # <<>>, s[1] = Q, Strip(s) = s
    PROVE  ~LooksNumeric(s)
<1>1. ~StartsWith(s, <<"-">>)
    BY StartsWithGlyph DEF Q
<1>2. Q \in ToSet(s)
    BY TextIs
<1>3. Q \notin Digits \cup {"."}
    BY DigitsAre DEF Q, Numerals
<1> QED BY <1>1, <1>2, <1>3 DEF LooksNumeric

(***************************************************************************)
(* Tokens that name no entry of the dictionary.                            *)
(***************************************************************************)
\* The primitives over a set of glyphs.
Primitives(G) == ({"num", "str"} \X Seq(G)) \cup {<<"const", t>> : t \in Reserved}

\* The first glyph tells these tokens from all others.
LEMMA ReservedIs ==
    /\ \A t \in Reserved : t \in Seq({"null", "true", "false"}) /\ Len(t) = 1
                          /\ t[1] \in {"null", "true", "false"}
    /\ <<"{", "}">>[1] = "{" /\ <<"[", "]">>[1] = "["
<1>1. ASSUME NEW t \in Reserved
      PROVE  t \in Seq({"null", "true", "false"}) /\ Len(t) = 1 /\ t[1] \in {"null", "true", "false"}
  <2>1. PICK g \in {"null", "true", "false"} : t = <<g>>
      BY DEF Reserved
  <2> QED BY <2>1, GlyphIs
<1>2. <<"{", "}">>[1] = "{" /\ <<"[", "]">>[1] = "["
    OBVIOUS
<1> QED BY <1>1, <1>2

LEMMA OwnToken ==
    ASSUME NEW G, NEW t \in Seq(G), t # <<>>, Strip(t) = t, t[1] # "$",
           Len(t) >= 2 => ~(t[1] = "{" /\ t[2] = "$"), NEW known
    PROVE  DecPrim(t, known) = DecPrimBase(t) /\ DecStr(t, known) = DecStrTok(t)
<1>1. ~StartsWith(t, <<"$">>) /\ ~StartsWith(t, <<"{", "$">>)
    BY StartsWithGlyph, StartsWithTwo
<1>2. \A otherwise : Resolve(t, known, otherwise) = otherwise
    BY <1>1 DEF Resolve
<1> QED BY <1>2 DEF DecPrim, DecStr

LEMMA QuotedReadBack ==
    ASSUME NEW G, Marks \subseteq G, NEW s \in Seq(G)
    PROVE  DecStrTok(Dumps(s)) = Str(s) /\ DecPrimBase(Dumps(s)) = Str(s)
<1>1. PICK d \in Seq(G) : d = Dumps(s) /\ d # <<>> /\ d[1] = Q /\ Strip(d) = d
    BY DumpsIs, DumpsTrim
<1>2. DecStrTok(d) = Str(s)
  <2>1. StartsWith(d, <<Q>>)
      BY <1>1, StartsWithGlyph
  <2> QED BY <1>1, <2>1, LoadsDumps DEF DecStrTok
<1>3. d \notin Reserved /\ d # <<"{", "}">> /\ d # <<"[", "]">>
    BY <1>1, ReservedIs DEF Q
<1>4. ~LooksNumeric(d)
    BY <1>1, QuotedIsNoNumber
<1> QED BY <1>1, <1>2, <1>3, <1>4 DEF DecPrimBase

LEMMA SafeReadBack ==
    ASSUME NEW G, NEW s \in Seq(G), Safe(s)
    PROVE  DecStrTok(s) = Str(s) /\ (~LooksNumeric(s) => DecPrimBase(s) = Str(s))
<1>1. s # <<>> /\ Len(s) >= 1 /\ Strip(s) = s /\ s \notin Reserved /\ s[1] \notin Unsafe
    BY SafeIs, TextIs
<1>2. DecStrTok(s) = Str(s)
  <2>1. ~StartsWith(s, <<Q>>)
      BY <1>1, StartsWithGlyph DEF Unsafe
  <2> QED BY <1>1, <2>1 DEF DecStrTok
<1>3. s # <<"{", "}">> /\ s # <<"[", "]">>
    BY <1>1, ReservedIs DEF Unsafe
<1> QED BY <1>1, <1>2, <1>3 DEF DecPrimBase

\* What a quoted or a bare string begins with.
LEMMA EsIs ==
    ASSUME NEW G, Marks \subseteq G, NEW s \in Seq(G)
    PROVE  /\ Es(s) \in Seq(G) /\ Es(s) # <<>> /\ Trim(Es(s)) /\ Strip(Es(s)) = Es(s)
           /\ Es(s)[1] \notin {"$", "{", "[", "-", "#"}
           /\ DecStrTok(Es(s)) = Str(s)
<1>1. CASE Safe(s)
  <2>1. s # <<>> /\ Len(s) >= 1 /\ Trim(s) /\ Strip(s) = s /\ s[1] # "-" /\ s[1] \notin Unsafe
      BY <1>1, SafeIs, TextIs
  <2> QED BY <1>1, <2>1, SafeReadBack DEF Es, Unsafe
<1>2. CASE ~Safe(s)
  <2>1. Es(s) = Dumps(s)
      BY <1>2 DEF Es
  <2>2. Q \notin {"$", "{", "[", "-", "#"}
      BY DEF Q
  <2> QED BY <2>1, <2>2, DumpsIs, DumpsTrim, QuotedReadBack
<1> QED BY <1>1, <1>2

\* A string outside the dictionary is read back from its token.
LEMMA EpStringReadBack ==
    ASSUME NEW G, Marks \subseteq G, NEW s \in Seq(G), NEW known
    PROVE  /\ Ep(Str(s)) \in Seq(G) /\ Ep(Str(s)) # <<>> /\ Trim(Ep(Str(s)))
           /\ Ep(Str(s)) = Dumps(s) \/ (Ep(Str(s)) = s /\ Safe(s))
           /\ DecPrim(Ep(Str(s)), known) = Str(s)
<1>1. Str(s)[1] = "str" /\ Str(s)[2] = s
    BY DEF Str
<1>2. Ep(Str(s)) = IF LooksNumeric(s) THEN Dumps(s) ELSE Es(s)
    BY <1>1 DEF Ep
<1>3. CASE Ep(Str(s)) = Dumps(s)
  <2>1. PICK d \in Seq(G) : d = Dumps(s) /\ d # <<>> /\ d[1] = Q /\ Strip(d) = d /\ Trim(d)
      BY DumpsIs, DumpsTrim
  <2>2. DecPrim(d, known) = DecPrimBase(d)
      BY <2>1, OwnToken DEF Q
  <2> QED BY <1>3, <2>1, <2>2, QuotedReadBack
<1>4. CASE Ep(Str(s)) # Dumps(s)
  <2>1. ~LooksNumeric(s) /\ Safe(s) /\ Ep(Str(s)) = s
      BY <1>2, <1>4 DEF Es
  <2>2. s # <<>> /\ Trim(s) /\ Strip(s) = s /\ s[1] \notin Unsafe
      BY <2>1, SafeIs, TextIs
  <2>3. DecPrim(s, known) = DecPrimBase(s)
      BY <2>2, OwnToken DEF Unsafe
  <2> QED BY <2>1, <2>2, <2>3, SafeReadBack
<1> QED BY <1>3, <1>4

\* A constant or a number is its own token.
LEMMA OtherReadBack ==
    ASSUME NEW G, NEW v \in Primitives(G), PlainPrim(v), v[1] # "str", NEW known
    PROVE  /\ Ep(v) = v[2] /\ v[2] # <<>> /\ Trim(v[2])
           /\ v[2] \in Seq(Numerals \cup {".", "-", "null", "true", "false"})
           /\ DecPrim(v[2], known) = v
<1>1. Ep(v) = v[2]
    BY DEF Ep
<1>2. CASE v[1] = "num"
  <2>1. PICK s \in Seq(G) : v = <<"num", s>> /\ LooksNumeric(s) /\ s = Strip(s)
      BY <1>2 DEF Primitives, PlainPrim
  <2>2. s # <<>> /\ \A i \in 1..Len(s) : s[i] \in Numerals \cup {".", "-"}
      BY <2>1, NumberGlyphs
  <2>3. Len(s) \in Nat /\ Len(s) >= 1
      BY <2>2, TextIs
  <2>4. s[1] \in Numerals \cup {".", "-"}
      BY <2>2, <2>3
  <2>5. s \in Seq(Numerals \cup {".", "-", "null", "true", "false"})
    <3>1. s = [i \in 1..Len(s) |-> s[i]]
        BY LenProperties
    <3> QED BY <2>2, <2>3, <3>1
  <2>6. DecPrim(s, known) = DecPrimBase(s)
      BY <2>1, <2>2, <2>4, OwnToken DEF Numerals
  <2>7. s \notin Reserved /\ s # <<"{", "}">> /\ s # <<"[", "]">>
      BY <2>4, ReservedIs DEF Numerals
  <2>8. DecPrimBase(s) = v
      BY <2>1, <2>7 DEF DecPrimBase
  <2>9. Trim(s)
      BY <2>1, TrimOfStrip
  <2> QED BY <1>1, <2>1, <2>2, <2>5, <2>6, <2>8, <2>9
<1>3. CASE v[1] # "num"
  <2>1. PICK t \in Reserved : v = <<"const", t>>
      BY <1>3 DEF Primitives
  <2>2. t \in Seq({"null", "true", "false"}) /\ t # <<>> /\ Len(t) = 1 /\ t[1] \in {"null", "true", "false"}
    <3>1. t \in Seq({"null", "true", "false"}) /\ Len(t) = 1 /\ t[1] \in {"null", "true", "false"}
        BY ReservedIs
    <3> QED BY <3>1, EmptySeq
  <2>3. Trim(t)
      BY <2>2 DEF Trim, Blanks
  <2>4. Strip(t) = t
      BY <2>2, <2>3, StripTrim
  <2>5. DecPrim(t, known) = DecPrimBase(t)
      BY <2>2, <2>4, OwnToken
  <2>6. DecPrimBase(t) = v
    <3>1. t # <<"{", "}">> /\ t # <<"[", "]">>
        BY <2>2, ReservedIs
    <3>2. ~LooksNumeric(t)
      <4>1. t[1] \notin Numerals \cup {".", "-"}
          BY <2>2 DEF Numerals
      <4> QED BY <2>2, <2>4, <4>1, NumberGlyphs
    <3> QED BY <2>1, <3>1, <3>2, Zenon DEF DecPrimBase
  <2>7. t \in Seq(Numerals \cup {".", "-", "null", "true", "false"})
      BY <2>2, SeqMonotonic
  <2> QED BY <1>1, <2>1, <2>2, <2>3, <2>5, <2>6, <2>7
<1> QED BY <1>2, <1>3

(***************************************************************************)
(* The dictionary.                                                         *)
(***************************************************************************)
\* The entries there are tokens for.
Named == 1..5

LEMMA TokenIs ==
    ASSUME NEW i \in Named
    PROVE  /\ Numeral(i - 1) \in {"0", "1", "2", "3", "4"}
           /\ Token(i) = <<"$", Numeral(i - 1)>>
           /\ \A j \in Named : Token(j) = Token(i) => j = i
<1>1. \A j \in Named : Numeral(j - 1) = Digit[j]
    BY DEF Numeral, Named
<1>2. Digit[1] = "0" /\ Digit[2] = "1" /\ Digit[3] = "2" /\ Digit[4] = "3" /\ Digit[5] = "4"
    BY DEF Digit
<1>3. \A j \in Named : j = 1 \/ j = 2 \/ j = 3 \/ j = 4 \/ j = 5
    BY DEF Named
<1>4. Digit[i] \in {"0", "1", "2", "3", "4"} /\ \A j \in Named : Digit[j] = Digit[i] => j = i
    BY <1>2, <1>3
<1>5. \A j \in Named : Token(j) = <<"$", Digit[j]>>
    BY <1>1 DEF Token
<1>6. \A j \in Named : Token(j) = Token(i) => Digit[j] = Digit[i]
    BY <1>5
<1> QED BY <1>1, <1>4, <1>5, <1>6

\* A prefix is a piece of a string that begins as it does, and a URL or a
\* time stamp itself.
IsPrefixOf(p, s, G) ==
    /\ p \in Seq(G) /\ p # <<>> /\ Len(p) <= Len(s)
    /\ \A i \in 1..Len(p) : p[i] = s[i]
    /\ MayLosePrefix(p) /\ MayLosePrefix(s)

LEMMA NotePrefixIs ==
    ASSUME NEW G, NEW s \in Seq(G), NEW p \in NotePrefix(s)
    PROVE  IsPrefixOf(p, s, G)
<1>1. PICK n \in Nat : n = Len(s) /\ DOMAIN s = 1..n /\ \A i \in 1..n : s[i] \in G
    BY TextIs
<1>2. CASE IsURL(s) /\ Max(Slashes(s)) < Len(s)
  <2> DEFINE url == <<"http", ":", "host/">>
  <2>1. url \in Seq({"http", ":", "host/"}) /\ Len(url) = 3 /\ url[1] = "http" /\ url[2] = ":" /\ url[3] = "host/"
      OBVIOUS
  <2>2. n >= 3 /\ s[1] = "http" /\ s[2] = ":" /\ s[3] = "host/"
    <3>1. Len(url) <= Len(s) /\ \A i \in 1..Len(url) : s[i] = url[i]
        BY <1>2, <2>1, StartsWithIs DEF IsURL
    <3> QED BY <1>1, <2>1, <3>1
  <2>3. Slashes(s) \in SUBSET (1..n) /\ 3 \in Slashes(s)
      BY <1>1, <2>2 DEF Slashes
  <2>4. PICK k \in 1..n : k = Max(Slashes(s)) /\ k >= 3
    <3>1. Max(Slashes(s)) \in Slashes(s) /\ Max(Slashes(s)) >= 3
        BY <2>3, GreatestPlace
    <3> QED BY <2>3, <3>1
  <2>5. p = Piece(s, 1, k)
    <3>1. ~IsTimestamp(s)
        BY <2>2, StartsWithGlyph DEF IsTimestamp
    <3>2. NotePrefix(s) = {Piece(s, 1, Max(Slashes(s)))}
        BY <1>2, <3>1, Zenon DEF NotePrefix
    <3> QED BY <2>4, <3>2
  <2>6. p \in Seq(G) /\ Len(p) = k /\ \A i \in 1..k : p[i] = s[i]
    <3>1. 1 \in 1..Len(s) + 1 /\ k \in 0..Len(s)
        BY <1>1
    <3>2. /\ p \in Seq(G)
          /\ Len(p) = IF 1 <= k THEN k - 1 + 1 ELSE 0
          /\ \A i \in 1..k - 1 + 1 : p[i] = s[1 + i - 1]
        BY <2>5, <3>1, PieceType
    <3>3. (IF 1 <= k THEN k - 1 + 1 ELSE 0) = k /\ k - 1 + 1 = k /\ \A i \in 1..k : 1 + i - 1 = i
        OBVIOUS
    <3> QED BY <3>2, <3>3
  <2>7. IsURL(p)
    <3>1. p[1] = "http" /\ p[2] = ":" /\ p[3] = "host/"
        BY <2>2, <2>4, <2>6
    <3>2. \A i \in 1..3 : i = 1 \/ i = 2 \/ i = 3
        OBVIOUS
    <3>3. Len(url) <= Len(p) /\ \A i \in 1..Len(url) : p[i] = url[i]
        BY <2>1, <2>4, <2>6, <3>1, <3>2
    <3> QED BY <2>1, <2>6, <3>3, StartsWithIs DEF IsURL
  <2>8. p # <<>>
    <3>1. Len(p) # 0
        BY <2>4, <2>6
    <3> QED BY <3>1, EmptySeq
  <2> QED BY <1>1, <1>2, <2>4, <2>6, <2>7, <2>8 DEF IsPrefixOf, MayLosePrefix
<1>3. CASE ~(IsURL(s) /\ Max(Slashes(s)) < Len(s))
  <2>1. IsTimestamp(s) /\ p = <<"dateT">>
      BY <1>3 DEF NotePrefix
  <2>2. s # <<>> /\ s[1] = "dateT"
      BY <2>1, StartsWithGlyph DEF IsTimestamp
  <2>3. n >= 1 /\ "dateT" \in G
      BY <1>1, <2>2, TextIs
  <2>4. p \in Seq(G) /\ Len(p) = 1 /\ p[1] = "dateT"
      BY <2>1, <2>3, GlyphIs
  <2>5. p # <<>>
    <3>1. Len(p) >= 1
        BY <2>4
    <3> QED BY <2>4, <3>1, TextIs
  <2>6. IsTimestamp(p)
      BY <2>4, <2>5, StartsWithGlyph DEF IsTimestamp
  <2>7. \A i \in 1..1 : p[i] = s[i]
      BY <2>2, <2>4
  <2> QED BY <1>1, <2>1, <2>3, <2>4, <2>5, <2>6, <2>7 DEF IsPrefixOf, MayLosePrefix
<1> QED BY <1>2, <1>3

\* Only a URL or a time stamp begins with a URL or a time stamp.
LEMMA LongerMayLose ==
    ASSUME NEW G, NEW s \in Seq(G), NEW p \in Seq(G), MayLosePrefix(p), StartsWith(s, p)
    PROVE  MayLosePrefix(s)
<1>1. Len(p) <= Len(s) /\ \A i \in 1..Len(p) : s[i] = p[i]
    BY StartsWithIs
<1>2. Len(p) \in Nat /\ Len(s) \in Nat
    BY TextIs
<1>3. ASSUME NEW H, NEW u \in Seq(H), StartsWith(p, u) PROVE StartsWith(s, u)
  <2>1. Len(u) <= Len(p) /\ \A i \in 1..Len(u) : p[i] = u[i]
      BY <1>3, StartsWithIs
  <2>2. Len(u) \in Nat
      BY TextIs
  <2>3. Len(u) <= Len(s) /\ \A i \in 1..Len(u) : s[i] = u[i]
      BY <1>1, <1>2, <2>1, <2>2
  <2> QED BY <2>3, StartsWithIs
<1>4. <<"http", ":", "host/">> \in Seq({"http", ":", "host/"}) /\ <<"dateT">> \in Seq({"dateT"})
    OBVIOUS
<1> QED BY <1>3, <1>4 DEF MayLosePrefix, IsURL, IsTimestamp

\* The entries of a dictionary for plain strings.
PlainEntries(dict, G) ==
    \A i \in DOMAIN dict :
        /\ dict[i].value \in Seq(G) /\ dict[i].is_prefix \in BOOLEAN
        /\ Unbroken(Es(dict[i].value))
        /\ dict[i].is_prefix => MayLosePrefix(dict[i].value) /\ dict[i].value # <<>>

LEMMA PlainEntry ==
    ASSUME NEW G, Marks \subseteq G, NEW s \in Seq(G), PlainString(s)
    PROVE  Unbroken(Es(s))
<1>1. Str(s)[1] = "str" /\ Str(s)[2] = s
    BY DEF Str
<1>2. Ep(Str(s)) = IF LooksNumeric(s) THEN Dumps(s) ELSE Es(s)
    BY <1>1 DEF Ep
<1>3. Unbroken(Ep(Str(s)))
    BY DEF PlainString
<1>4. CASE Ep(Str(s)) = Es(s)
    BY <1>3, <1>4
<1>5. CASE Ep(Str(s)) # Es(s)
  <2>1. LooksNumeric(s) /\ Safe(s) /\ Es(s) = s
      BY <1>2, <1>5 DEF Es
  <2>2. \A i \in 1..Len(s) : s[i] \in Numerals \cup {".", "-"}
      BY <2>1, SafeIs, NumberGlyphs
  <2>3. ToSet(s) = {s[i] : i \in 1..Len(s)}
      BY TextIs
  <2> QED BY <2>1, <2>2, <2>3 DEF Unbroken, LineBreaks, Numerals
<1> QED BY <1>4, <1>5

LEMMA PrefixEntry ==
    ASSUME NEW G, Marks \subseteq G, NEW s \in Seq(G), PlainString(s), NEW p, IsPrefixOf(p, s, G)
    PROVE  Unbroken(Es(p))
<1>1. ToSet(s) \cap (LineBreaks \cup {"tab"}) = {}
    BY DEF IsPrefixOf, PlainString
<1>2. p \in Seq(G) /\ Len(p) <= Len(s) /\ \A i \in 1..Len(p) : p[i] = s[i]
    BY DEF IsPrefixOf
<1>3. ToSet(p) = {p[i] : i \in 1..Len(p)} /\ ToSet(s) = {s[i] : i \in 1..Len(s)}
      /\ Len(p) \in Nat /\ Len(s) \in Nat
    BY <1>2, TextIs
<1>4. ToSet(p) \cap LineBreaks = {}
    BY <1>1, <1>2, <1>3
<1>5. CASE Safe(p)
    BY <1>4, <1>5 DEF Es, Unbroken
<1>6. CASE ~Safe(p)
  <2>1. PICK d \in Seq(G) : d = Dumps(p) /\ d = Es(p)
      BY <1>2, <1>6, DumpsIs DEF Es
  <2>2. \A i \in 1..Len(d) : d[i] \in {Q, B, "t", "n", "v"} \/ d[i] \in ToSet(p)
      BY <1>2, <2>1, DumpsGlyphs
  <2>3. ToSet(d) = {d[i] : i \in 1..Len(d)}
      BY TextIs
  <2>4. \A g \in {Q, B, "t", "n", "v"} : g \notin LineBreaks
      BY DEF Q, B, LineBreaks
  <2> QED BY <1>4, <2>1, <2>2, <2>3, <2>4 DEF Unbroken
<1> QED BY <1>5, <1>6

LEMMA ImageFinite ==
    ASSUME NEW S, IsFiniteSet(S), NEW f
    PROVE  IsFiniteSet({f[x] : x \in S})
<1> DEFINE T == {f[x] : x \in S}
           g == [x \in S |-> f[x]]
<1>1. g \in Surjection(S, T)
    BY DEF Surjection
<1> QED BY <1>1, FS_Surjection

LEMMA SetToSeqType ==
    ASSUME NEW S, IsFiniteSet(S)
    PROVE  SetToSeq(S) \in Seq(S)
<1>1. PICK n \in Nat : n = Cardinality(S) /\ ExistsBijection(1..n, S)
    BY FS_CardinalityType
<1>2. \E f : f \in [1..n -> S] /\ IsInjective(f)
    BY <1>1 DEF ExistsBijection, Bijection, Injection
<1>3. SetToSeq(S) \in [1..n -> S]
    BY <1>1, <1>2 DEF SetToSeq
<1> QED BY <1>3, SeqDef

\* A dictionary for plain strings has plain entries.
LEMMA DictionaryIsPlain ==
    ASSUME NEW G, Marks \subseteq G, NEW ss \in Seq(Seq(G)),
           \A i \in 1..Len(ss) : PlainString(ss[i]),
           NEW dict \in DictionariesOf(ss)
    PROVE  Len(dict) \in Nat /\ DOMAIN dict = 1..Len(dict) /\ PlainEntries(dict, G)
<1>1. PICK n \in Nat : /\ n = Len(ss) /\ DOMAIN ss = 1..n /\ ToSet(ss) = {ss[i] : i \in 1..n}
                       /\ \A i \in 1..n : ss[i] \in Seq(G) /\ PlainString(ss[i])
    BY TextIs
<1> DEFINE R == {e \in [value : Seq(G), is_prefix : BOOLEAN] :
                     /\ Unbroken(Es(e.value))
                     /\ e.is_prefix => MayLosePrefix(e.value) /\ e.value # <<>>}
           Entries(strings, isPrefix) == [i \in DOMAIN SetToSeq(strings) |->
                                             Entry(SetToSeq(strings)[i], isPrefix)]
<1>2. PICK exact \in SUBSET RepeatedValues(ss) : \E prefixes \in SUBSET SharedPrefixes(ss, exact) :
          dict = Entries(exact, FALSE) \o Entries(prefixes, TRUE)
    BY DEF DictionariesOf
<1>2b. PICK prefixes \in SUBSET SharedPrefixes(ss, exact) :
          dict = Entries(exact, FALSE) \o Entries(prefixes, TRUE)
    BY <1>2
<1>3. IsFiniteSet(1..n)
    BY FS_Interval
<1>4. IsFiniteSet(exact) /\ \A s \in exact : s \in Seq(G) /\ PlainString(s)
  <2>1. exact \in SUBSET ToSet(ss)
      BY <1>2 DEF RepeatedValues
  <2>2. IsFiniteSet(ToSet(ss))
    <3>1. ToSet(ss) = {ss[i] : i \in 1..n}
        BY <1>1, TextIs
    <3>2. IsFiniteSet({ss[i] : i \in 1..n})
        BY <1>3, ImageFinite
    <3> QED BY <3>1, <3>2
  <2> QED BY <1>1, <2>1, <2>2, FS_Subset
<1>5. IsFiniteSet(prefixes) /\ \A p \in prefixes : \E i \in 1..n : IsPrefixOf(p, ss[i], G)
  <2>1. \A p \in prefixes : \E i \in 1..n : p \in NotePrefix(ss[i])
    <3>1. prefixes \in SUBSET UNION {NotePrefix(s) : s \in ToSet(ss)}
        BY <1>2b DEF SharedPrefixes
    <3> QED BY <1>1, <3>1
  <2>2. \A i \in 1..n : \A p, q \in NotePrefix(ss[i]) : p = q
      BY DEF NotePrefix
  <2> DEFINE first == [i \in 1..n |-> CHOOSE p : p \in NotePrefix(ss[i])]
  <2>3. prefixes \in SUBSET {first[i] : i \in 1..n}
    <3>1. ASSUME NEW p \in prefixes PROVE \E i \in 1..n : p = first[i]
      <4>1. PICK i \in 1..n : p \in NotePrefix(ss[i])
          BY <2>1
      <4>2. first[i] \in NotePrefix(ss[i])
          BY <4>1
      <4> QED BY <2>2, <4>1, <4>2
    <3> QED BY <3>1
  <2>4. IsFiniteSet(prefixes)
    <3>1. IsFiniteSet({first[i] : i \in 1..n})
      <4> HIDE DEF first
      <4> QED BY <1>3, ImageFinite
    <3> QED BY <2>3, <3>1, FS_Subset
  <2>5. \A p \in prefixes : \E i \in 1..n : IsPrefixOf(p, ss[i], G)
      BY <1>1, <2>1, NotePrefixIs
  <2> QED BY <2>4, <2>5
<1>6. ASSUME NEW T, IsFiniteSet(T), NEW isPrefix, \A x \in T : Entry(x, isPrefix) \in R
      PROVE  Entries(T, isPrefix) \in Seq(R)
  <2>1. PICK q \in Seq(T) : q = SetToSeq(T)
      BY <1>6, SetToSeqType
  <2>2. PICK m \in Nat : m = Len(q) /\ DOMAIN q = 1..m /\ \A i \in 1..m : q[i] \in T
      BY TextIs
  <2>3. \A i \in 1..m : Entry(q[i], isPrefix) \in R
      BY <1>6, <2>2
  <2>4. Entries(T, isPrefix) = [i \in 1..m |-> Entry(q[i], isPrefix)]
      BY <2>1, <2>2
  <2> HIDE DEF R, Entries
  <2> QED BY <2>3, <2>4
<1>7. Entries(exact, FALSE) \in Seq(R)
  <2>1. ASSUME NEW s \in exact PROVE Entry(s, FALSE) \in R
    <3>1. Unbroken(Es(s)) /\ s \in Seq(G)
        BY <1>4, PlainEntry
    <3> QED BY <3>1 DEF Entry
  <2> HIDE DEF R, Entries
  <2> QED BY <1>4, <1>6, <2>1
<1>8. Entries(prefixes, TRUE) \in Seq(R)
  <2>1. ASSUME NEW p \in prefixes PROVE Entry(p, TRUE) \in R
    <3>1. PICK i \in 1..n : IsPrefixOf(p, ss[i], G)
        BY <1>5
    <3>2. Unbroken(Es(p))
        BY <1>1, <3>1, PrefixEntry
    <3> QED BY <3>1, <3>2 DEF Entry, IsPrefixOf
  <2> HIDE DEF R, Entries
  <2> QED BY <1>5, <1>6, <2>1
<1>9. dict \in Seq(R)
  <2> HIDE DEF R, Entries
  <2> QED BY <1>2b, <1>7, <1>8, ConcatProperties
<1>10. Len(dict) \in Nat /\ DOMAIN dict = 1..Len(dict) /\ \A i \in 1..Len(dict) : dict[i] \in R
  <2> HIDE DEF R
  <2> QED BY <1>9, TextIs
<1> QED BY <1>10 DEF PlainEntries

\* A text no position is cut in is one piece.
LEMMA OnePiece ==
    ASSUME NEW G, NEW s \in Seq(G)
    PROVE  CutAt(s, {})[1] = s
<1>1. Cardinality({}) = 0
    BY FS_EmptySet
<1>2. InOrder({}) = <<>>
    BY <1>1 DEF InOrder
<1>3. Len(s) \in Nat
    BY TextIs
<1> DEFINE at == <<0>> \o InOrder({}) \o <<Len(s) + 1>>
<1>4. at[1] = 0 /\ at[1 + 1] = Len(s) + 1
  <2>1. PICK x \in Seq(Nat), y \in Seq(Nat) :
            /\ x = <<0>> /\ Len(x) = 1 /\ x[1] = 0
            /\ y = <<Len(s) + 1>> /\ Len(y) = 1 /\ y[1] = Len(s) + 1
    <3>1. 0 \in Nat /\ Len(s) + 1 \in Nat
        BY <1>3
    <3> QED BY <3>1, GlyphIs
  <2>2. x \o <<>> = x
      BY ConcatEmptySeq
  <2>3. at = x \o y
      BY <1>2, <2>1, <2>2
  <2>4. IsBehind(at, x, y)
      BY <2>3, ConcatIsBehind
  <2>5. 1 \in 1..Len(x) /\ 1 \in 1..Len(y)
      BY <2>1
  <2> HIDE DEF at
  <2> QED BY <2>1, <2>4, <2>5 DEF IsBehind
<1>5. CutAt(s, {})[1] = Piece(s, at[1] + 1, at[1 + 1] - 1)
    BY <1>1 DEF CutAt
<1> HIDE DEF at
<1>6. at[1] + 1 = 1 /\ at[1 + 1] - 1 = Len(s)
    BY <1>3, <1>4
<1> QED BY <1>5, <1>6, WholePiece

\* The entries are known as they were written.
LEMMA EntryReadBack ==
    ASSUME NEW G, Marks \subseteq G, NEW entry, NEW i,
           entry.value \in Seq(G), Unbroken(Es(entry.value))
    PROVE  DictionaryEntry(i, entry) = [token |-> Token(i), value |-> entry.value,
                                        is_prefix |-> entry.is_prefix, failed |-> FALSE]
<1>1. PICK t \in Seq(G) : t = Es(entry.value) /\ DecStrTok(t) = Str(entry.value)
    BY EsIs
<1>2. SplitOn(t, LineBreaks)[1] = t
  <2>1. {j \in DOMAIN t : t[j] \in LineBreaks} = {}
      BY <1>1 DEF Unbroken, ToSet
  <2> QED BY <2>1, OnePiece DEF SplitOn
<1>3. Str(entry.value)[2] = entry.value /\ Str(entry.value) # Error
    BY DEF Str, Error
<1> QED BY <1>1, <1>2, <1>3 DEF DictionaryEntry

\* A dictionary the tokens can name.
Readable(dict, G) ==
    Len(dict) \in 0..5 /\ DOMAIN dict = 1..Len(dict) /\ PlainEntries(dict, G)

\* What the decoder knows of entry i.
AsKnown(dict, i) == [token |-> Token(i), value |-> dict[i].value,
                     is_prefix |-> dict[i].is_prefix, failed |-> FALSE]

LEMMA KnownIs ==
    ASSUME NEW G, Marks \subseteq G, NEW dict, Readable(dict, G)
    PROVE  /\ Known(dict) = {AsKnown(dict, i) : i \in 1..Len(dict)}
           /\ \A i \in 1..Len(dict) :
                 {e \in Known(dict) : e.token = Token(i) /\ e.is_prefix = dict[i].is_prefix}
                    = {AsKnown(dict, i)}
<1>1. DOMAIN dict = 1..Len(dict) /\ 1..Len(dict) \subseteq Named
    BY DEF Readable, Named
<1>2. ASSUME NEW i \in 1..Len(dict) PROVE DictionaryEntry(i, dict[i]) = AsKnown(dict, i)
  <2>1. dict[i].value \in Seq(G) /\ Unbroken(Es(dict[i].value))
      BY <1>1 DEF Readable, PlainEntries
  <2> QED BY <2>1, EntryReadBack DEF AsKnown
<1>3. Known(dict) = {AsKnown(dict, i) : i \in 1..Len(dict)}
    BY <1>1, <1>2 DEF Known
<1>4. ASSUME NEW i \in 1..Len(dict)
      PROVE  {e \in Known(dict) : e.token = Token(i) /\ e.is_prefix = dict[i].is_prefix}
                = {AsKnown(dict, i)}
  <2>1. \A j \in 1..Len(dict) : AsKnown(dict, j).token = Token(j)
                                /\ AsKnown(dict, j).is_prefix = dict[j].is_prefix
      BY DEF AsKnown
  <2>2. \A j \in 1..Len(dict) : Token(j) = Token(i) => j = i
      BY <1>1, TokenIs
  <2> QED BY <1>3, <2>1, <2>2
<1> QED BY <1>3, <1>4

\* The three forms of a string.
Whole(t, s, dict, i) == ~dict[i].is_prefix /\ dict[i].value = s /\ t = Token(i)

Shortened(t, s, p, i) ==
    /\ StartsWith(s, p)
    /\ t = <<Open>> \o Token(i) \o <<Close>> \o From(s, Len(p) + 1)

LEMMA EncStrForms ==
    ASSUME NEW G, Marks \subseteq G, NEW dict, Readable(dict, G), NEW s \in Seq(G)
    PROVE  \/ \E i \in 1..Len(dict) : Whole(EncStr(s, dict), s, dict, i)
           \/ \E i \in 1..Len(dict) :
                 dict[i].is_prefix /\ Shortened(EncStr(s, dict), s, dict[i].value, i)
           \/ EncStr(s, dict) = Ep(Str(s))
<1>1. PICK n \in Nat : n = Len(dict) /\ DOMAIN dict = 1..n
  <2>1. Len(dict) \in Nat /\ DOMAIN dict = 1..Len(dict)
      BY DEF Readable
  <2> QED BY <2>1
<1>2. \A i \in 1..n : /\ dict[i].value \in Seq(G) /\ dict[i].is_prefix \in BOOLEAN
                      /\ dict[i].is_prefix => dict[i].value # <<>>
    BY <1>1 DEF Readable, PlainEntries
<1> DEFINE exact == {i \in DOMAIN dict : ~dict[i].is_prefix /\ dict[i].value = s}
           shared == {i \in DOMAIN dict : dict[i].is_prefix /\ StartsWith(s, dict[i].value)}
           longest == CHOOSE i \in shared : \A j \in shared :
                          Len(dict[j].value) <= Len(dict[i].value)
<1>3. EncStr(s, dict) =
          CASE exact # {} -> Token(Min(exact))
            [] exact = {} /\ shared # {} ->
                  <<Open>> \o Token(longest) \o <<Close>> \o From(s, Len(dict[longest].value) + 1)
            [] OTHER -> Ep(Str(s))
    BY DEF EncStr, Open, Close
<1>4. CASE exact # {}
  <2>1. Min(exact) \in exact
    <3>1. exact \in SUBSET (1..n)
        BY <1>1
    <3> HIDE DEF exact
    <3> QED BY <1>4, <3>1, LeastPlace
  <2>2. EncStr(s, dict) = Token(Min(exact))
    <3> HIDE DEF exact, shared, longest
    <3> QED BY <1>3, <1>4
  <2>3. PICK i \in 1..n : i = Min(exact) /\ ~dict[i].is_prefix /\ dict[i].value = s
      BY <1>1, <2>1
  <2> HIDE DEF exact
  <2> QED BY <1>1, <2>2, <2>3 DEF Whole
<1>5. CASE exact = {} /\ shared # {}
  <2>1. longest \in shared
    <3>1. PICK m \in Nat : m = Len(s)
        BY TextIs
    <3> DEFINE sizes == {Len(dict[j].value) : j \in shared}
    <3>2. \A j \in shared : Len(dict[j].value) \in 1..m
      <4>1. TAKE j \in shared
      <4>2. PICK p \in Seq(G) : p = dict[j].value /\ p # <<>> /\ StartsWith(s, p)
          BY <1>1, <1>2
      <4>3. Len(p) \in Nat /\ Len(p) >= 1 /\ Len(p) <= m
          BY <3>1, <4>2, TextIs, StartsWithIs
      <4> QED BY <4>2, <4>3
    <3>3. sizes \in SUBSET (1..m) /\ sizes # {}
        BY <1>5, <3>2
    <3>4. PICK x \in sizes : \A y \in sizes : x >= y
      <4> HIDE DEF sizes
      <4> QED BY <3>3, GreatestPlace
    <3>5. PICK i \in shared : x = Len(dict[i].value)
        BY <3>4
    <3>6. \A j \in shared : Len(dict[j].value) <= Len(dict[i].value)
      <4>1. TAKE j \in shared
      <4>2. Len(dict[j].value) \in sizes /\ Len(dict[j].value) \in 1..m /\ Len(dict[i].value) \in 1..m
          BY <3>2
      <4> QED BY <3>4, <3>5, <4>2
    <3> QED BY <3>6
  <2>2. EncStr(s, dict) = <<Open>> \o Token(longest) \o <<Close>> \o From(s, Len(dict[longest].value) + 1)
    <3> HIDE DEF exact, shared, longest
    <3> QED BY <1>3, <1>5
  <2>3. PICK i \in 1..n : i = longest /\ dict[i].is_prefix /\ StartsWith(s, dict[i].value)
      BY <1>1, <2>1
  <2> HIDE DEF longest
  <2> QED BY <1>1, <2>2, <2>3 DEF Shortened
<1>6. CASE exact = {} /\ shared = {}
  <2>1. EncStr(s, dict) = Ep(Str(s))
    <3> HIDE DEF exact, shared, longest
    <3> QED BY <1>3, <1>6
  <2> QED BY <2>1
<1> QED BY <1>4, <1>5, <1>6

\* The text from a place on.
LEMMA RestIs ==
    ASSUME NEW G, NEW s \in Seq(G), NEW k \in 0..Len(s)
    PROVE  /\ From(s, k + 1) \in Seq(G) /\ Len(From(s, k + 1)) = Len(s) - k
           /\ \A i \in 1..Len(s) - k : From(s, k + 1)[i] = s[k + i]
<1>1. PICK n \in Nat : n = Len(s)
    BY TextIs
<1>2. k + 1 \in 1..Len(s) + 1 /\ n \in 0..Len(s)
    BY <1>1
<1>3. /\ Piece(s, k + 1, n) \in Seq(G)
      /\ Len(Piece(s, k + 1, n)) = IF k + 1 <= n THEN n - (k + 1) + 1 ELSE 0
      /\ \A i \in 1..n - (k + 1) + 1 : Piece(s, k + 1, n)[i] = s[k + 1 + i - 1]
    BY <1>2, PieceType
<1>4. (IF k + 1 <= n THEN n - (k + 1) + 1 ELSE 0) = n - k /\ n - (k + 1) + 1 = n - k
    BY <1>1
<1>5. \A i \in 1..n - k : k + 1 + i - 1 = k + i
    BY <1>1
<1>6. From(s, k + 1) = Piece(s, k + 1, n)
    BY <1>1 DEF From, Piece
<1> QED BY <1>1, <1>3, <1>4, <1>5, <1>6

\* A prefix's token in braces, and what it shortens behind it: n glyphs of
\* which the prefix is the first m.
ShortenedForm(t, s, p, i, n, m, G) ==
    /\ t \in Seq(G) /\ m \in 0..n /\ Len(t) = 4 + (n - m)
    /\ t[1] = Open /\ t[2] = "$" /\ t[3] = Numeral(i - 1) /\ t[4] = Close
    /\ \A k \in 1..n - m : t[4 + k] = s[m + k]
    /\ Piece(t, 2, 3) = Token(i) /\ p \o From(t, 5) = s

LEMMA ShortenedIs ==
    ASSUME NEW G, Marks \subseteq G, NEW i \in Named, NEW s \in Seq(G), NEW p \in Seq(G),
           NEW t, Shortened(t, s, p, i)
    PROVE  ShortenedForm(t, s, p, i, Len(s), Len(p), G)
<1>1. PICK n \in Nat, m \in Nat : n = Len(s) /\ m = Len(p)
    BY TextIs
<1>2. m <= n /\ \A k \in 1..m : s[k] = p[k]
    BY <1>1, StartsWithIs DEF Shortened
<1>3. m \in 0..Len(s)
    BY <1>1, <1>2
<1>4. PICK d \in G : d = Numeral(i - 1)
    BY TokenIs DEF Marks
<1>a. "$" \in G /\ Open \in G /\ Close \in G
    BY DEF Marks
<1>b. PICK a \in Seq(G) : a = <<Open>> /\ Len(a) = 1 /\ a[1] = Open
    BY <1>a, GlyphIs
<1>c. PICK c \in Seq(G) : c = <<Close>> /\ Len(c) = 1 /\ c[1] = Close
    BY <1>a, GlyphIs
<1>d. PICK x \in Seq(G) : x = <<"$", d>> /\ Len(x) = 2 /\ x[1] = "$" /\ x[2] = d
  <2>1. <<"$", d>> \in Seq(G) /\ Len(<<"$", d>>) = 2 /\ <<"$", d>>[1] = "$" /\ <<"$", d>>[2] = d
      BY <1>a
  <2> QED BY <2>1
<1>e. PICK r \in Seq(G) : /\ r = From(s, m + 1) /\ Len(r) = n - m
                          /\ \A k \in 1..n - m : r[k] = s[m + k]
  <2>1. From(s, m + 1) \in Seq(G) /\ Len(From(s, m + 1)) = n - m
      BY <1>1, <1>3, RestIs
  <2>2. \A k \in 1..Len(s) - m : From(s, m + 1)[k] = s[m + k]
      BY <1>3, RestIs
  <2> QED BY <1>1, <2>1, <2>2
<1>5. /\ Len(a) = 1 /\ a[1] = Open /\ Len(x) = 2 /\ x[1] = "$" /\ x[2] = d
      /\ Len(c) = 1 /\ c[1] = Close
      /\ Len(r) = n - m /\ \A k \in 1..n - m : r[k] = s[m + k]
    BY <1>b, <1>c, <1>d, <1>e
<1>6. t = a \o x \o c \o r /\ Token(i) = x
    BY <1>1, <1>4, <1>b, <1>c, <1>d, <1>e, TokenIs DEF Shortened
<1>7. PICK ax \in Seq(G) : ax = a \o x /\ IsBehind(ax, a, x)
    BY ConcatIsBehind
<1>8. PICK w \in Seq(G) : w = ax \o c /\ IsBehind(w, ax, c)
    BY ConcatIsBehind
<1>9. t \in Seq(G) /\ IsBehind(t, w, r)
    BY <1>6, <1>7, <1>8, ConcatIsBehind
<1>10. Len(ax) = 3 /\ ax[1] = Open /\ ax[2] = "$" /\ ax[3] = d
  <2>1. 1 \in 1..Len(a) /\ 1 \in 1..Len(x) /\ 2 \in 1..Len(x)
      BY <1>5
  <2> QED BY <1>5, <1>7, <2>1 DEF IsBehind
<1>11. Len(w) = 4 /\ w[1] = Open /\ w[2] = "$" /\ w[3] = d /\ w[4] = Close
  <2>1. 1 \in 1..Len(ax) /\ 2 \in 1..Len(ax) /\ 3 \in 1..Len(ax) /\ 1 \in 1..Len(c)
      BY <1>5, <1>10
  <2> QED BY <1>5, <1>8, <1>10, <2>1 DEF IsBehind
<1>12. /\ Len(t) = 4 + (n - m)
       /\ t[1] = Open /\ t[2] = "$" /\ t[3] = d /\ t[4] = Close
       /\ \A k \in 1..n - m : t[4 + k] = s[m + k]
  <2>1. 1 \in 1..Len(w) /\ 2 \in 1..Len(w) /\ 3 \in 1..Len(w) /\ 4 \in 1..Len(w)
      BY <1>11
  <2> QED BY <1>5, <1>9, <1>11, <2>1 DEF IsBehind
<1>13. Piece(t, 2, 3) = x
  <2>1. 2 \in 1..Len(t) + 1 /\ 3 \in 0..Len(t)
      BY <1>2, <1>12
  <2>2. /\ Piece(t, 2, 3) \in Seq(G)
        /\ Len(Piece(t, 2, 3)) = IF 2 <= 3 THEN 3 - 2 + 1 ELSE 0
        /\ \A k \in 1..3 - 2 + 1 : Piece(t, 2, 3)[k] = t[2 + k - 1]
      BY <1>9, <2>1, PieceType
  <2>3. PICK y \in Seq(G) : y = Piece(t, 2, 3) /\ Len(y) = 2 /\ \A k \in 1..2 : y[k] = t[2 + k - 1]
      BY <2>2
  <2>4. y[1] = t[2] /\ y[2] = t[3]
    <3>1. 1 \in 1..2 /\ 2 \in 1..2 /\ 2 + 1 - 1 = 2 /\ 2 + 2 - 1 = 3
        OBVIOUS
    <3> QED BY <2>3, <3>1
  <2>5. \A k \in 1..2 : y[k] = x[k]
    <3>1. \A k \in 1..2 : k = 1 \/ k = 2
        OBVIOUS
    <3> QED BY <1>5, <1>12, <2>4, <3>1
  <2>6. y = x
    <3>1. Len(y) = Len(x) /\ \A k \in 1..Len(y) : y[k] = x[k]
        BY <1>5, <2>3, <2>5
    <3> QED BY <3>1, SeqEqual
  <2> QED BY <2>3, <2>6
<1>14. p \o From(t, 5) = s
  <2>1. 4 \in 0..Len(t)
      BY <1>2, <1>12
  <2>2. PICK z \in Seq(G) : z = From(t, 5) /\ Len(z) = n - m /\ \A k \in 1..n - m : z[k] = s[m + k]
    <3>1. /\ From(t, 4 + 1) \in Seq(G) /\ Len(From(t, 4 + 1)) = Len(t) - 4
          /\ \A k \in 1..Len(t) - 4 : From(t, 4 + 1)[k] = t[4 + k]
        BY <1>9, <2>1, RestIs
    <3>2. Len(t) - 4 = n - m /\ 4 + 1 = 5
        BY <1>12
    <3> QED BY <1>12, <3>1, <3>2
  <2>3. PICK y \in Seq(G) : y = p \o z /\ IsBehind(y, p, z)
      BY ConcatIsBehind
  <2>4. Len(y) = n
    <3>1. Len(y) = Len(p) + Len(z)
        BY <2>3 DEF IsBehind
    <3>2. Len(y) = m + (n - m)
        BY <1>1, <2>2, <3>1
    <3> QED BY <1>2, <3>2
  <2>5. ASSUME NEW k \in 1..n PROVE y[k] = s[k]
    <3>1. CASE k <= m
        BY <1>1, <1>2, <2>3, <3>1 DEF IsBehind
    <3>2. CASE ~(k <= m)
      <4>1. PICK j \in 1..n - m : k = m + j
        <5>1. k - m \in 1..n - m /\ k = m + (k - m)
            BY <3>2
        <5> QED BY <5>1
      <4>2. y[m + j] = z[j]
          BY <1>1, <2>2, <2>3 DEF IsBehind
      <4> QED BY <2>2, <4>1, <4>2
    <3> QED BY <3>1, <3>2
  <2>6. y = s
      BY <1>1, <2>4, <2>5, SeqEqual
  <2> QED BY <2>2, <2>3, <2>6
<1>15. ShortenedForm(t, s, p, i, n, m, G)
    BY <1>1, <1>3, <1>4, <1>6, <1>9, <1>12, <1>13, <1>14 DEF ShortenedForm
<1> QED BY <1>1, <1>15

\* A token of the dictionary stands for its entry.
LEMMA WholeReadBack ==
    ASSUME NEW G, Marks \subseteq G, NEW dict, Readable(dict, G), NEW i \in 1..Len(dict),
           NEW s \in Seq(G), NEW t, Whole(t, s, dict, i), NEW otherwise
    PROVE  /\ t \in Seq(G) /\ Len(t) = 2 /\ t[1] = "$" /\ t[2] \in {"0", "1", "2", "3", "4"}
           /\ Trim(t) /\ Strip(t) = t
           /\ Resolve(t, Known(dict), otherwise) = Str(s)
<1>1. i \in Named
    BY DEF Readable, Named
<1>2. PICK d \in G : d = Numeral(i - 1) /\ d \in {"0", "1", "2", "3", "4"} /\ t = <<"$", d>>
    BY <1>1, TokenIs DEF Marks, Whole
<1>3. t \in Seq(G) /\ Len(t) = 2 /\ t[1] = "$" /\ t[2] = d
  <2>1. "$" \in G
      BY DEF Marks
  <2> QED BY <1>2, <2>1
<1>4. t # <<>> /\ Trim(t)
    BY <1>2, <1>3, TextIs DEF Trim, Blanks
<1>5. Strip(t) = t
    BY <1>3, <1>4, StripTrim
<1>6. StartsWith(t, <<"$">>) /\ ~StartsWith(t, <<Open, "$">>)
    BY <1>3, <1>4, StartsWithGlyph, StartsWithTwo, MarksDiffer
<1>7. {e \in Known(dict) : e.token = t /\ e.is_prefix = FALSE} = {AsKnown(dict, i)}
  <2>1. dict[i].is_prefix = FALSE /\ t = Token(i)
      BY DEF Whole, Readable, PlainEntries
  <2> QED BY <2>1, KnownIs
<1>8. AsKnown(dict, i).value = s
    BY DEF AsKnown, Whole
<1>9. Resolve(t, Known(dict), otherwise) = Str((CHOOSE e \in {AsKnown(dict, i)} : TRUE).value)
  <2>1. ~StartsWith(t, <<"{", "$">>)
      BY <1>6 DEF Open
  <2> QED BY <1>5, <1>6, <1>7, <2>1, Zenon DEF Resolve
<1>10. (CHOOSE e \in {AsKnown(dict, i)} : TRUE) = AsKnown(dict, i)
    OBVIOUS
<1> QED BY <1>2, <1>3, <1>4, <1>5, <1>8, <1>9, <1>10

LEMMA ShortenedReadBack ==
    ASSUME NEW G, Marks \subseteq G, NEW dict, Readable(dict, G), NEW i \in 1..Len(dict),
           dict[i].is_prefix, NEW s \in Seq(G), PlainString(s),
           NEW t, Shortened(t, s, dict[i].value, i), NEW otherwise
    PROVE  /\ MayLosePrefix(s) /\ Trim(t) /\ Strip(t) = t
           /\ Resolve(t, Known(dict), otherwise) = Str(s)
<1>1. i \in Named
    BY DEF Readable, Named
<1>2. PICK p \in Seq(G) : /\ p = dict[i].value /\ MayLosePrefix(p) /\ StartsWith(s, p)
                          /\ Shortened(t, s, p, i)
    BY DEF Shortened, Readable, PlainEntries
<1>3. MayLosePrefix(s)
    BY <1>2, LongerMayLose
<1>4. PICK n \in Nat, m \in Nat : n = Len(s) /\ m = Len(p)
    BY TextIs
<1>5. /\ t \in Seq(G) /\ m \in 0..n /\ Len(t) = 4 + (n - m)
      /\ t[1] = Open /\ t[2] = "$" /\ t[3] = Numeral(i - 1) /\ t[4] = Close
      /\ \A k \in 1..n - m : t[4 + k] = s[m + k]
      /\ Piece(t, 2, 3) = Token(i) /\ p \o From(t, 5) = s
  <2>1. ShortenedForm(t, s, p, i, Len(s), Len(p), G)
      BY <1>1, <1>2, ShortenedIs
  <2>2. ShortenedForm(t, s, p, i, n, m, G)
      BY <1>4, <2>1
  <2> QED BY <2>2 DEF ShortenedForm
<1>6. Trim(t)
  <2>1. Trim(s)
      BY <1>3, TrimOfStrip DEF PlainString
  <2>2. t[Len(t)] \notin Blanks
    <3>1. CASE m = n
        BY <1>5, <3>1, MarksDiffer
    <3>2. CASE m # n
      <4>1. n - m \in 1..n - m /\ m + (n - m) = n
          BY <1>4, <1>5, <3>2
      <4>4. t[4 + (n - m)] = s[m + (n - m)]
          BY <1>5, <4>1
      <4>2. s # <<>>
        <5>1. Len(s) >= 1
            BY <1>4, <1>5, <3>2
        <5> QED BY <5>1, TextIs
      <4>3. s[n] \notin Blanks
          BY <1>4, <2>1, <4>2 DEF Trim
      <4> QED BY <1>5, <4>1, <4>3, <4>4
    <3> QED BY <3>1, <3>2
  <2> QED BY <1>5, <2>2, MarksDiffer DEF Trim
<1>7. Strip(t) = t
    BY <1>5, <1>6, StripTrim
<1>8. ~StartsWith(t, <<"$">>) /\ StartsWith(t, <<Open, "$">>)
  <2>1. Len(t) >= 2
      BY <1>5
  <2>2. t # <<>>
      BY <1>5, <2>1, TextIs
  <2> QED BY <1>5, <2>1, <2>2, StartsWithGlyph, StartsWithTwo, MarksDiffer
<1> DEFINE close == {j \in DOMAIN t : t[j] = Close}
<1>9. close # {} /\ Min(close) = 4
  <2>1. DOMAIN t = 1..Len(t) /\ 4 \in 1..Len(t)
      BY <1>5, TextIs
  <2>2. t[3] \in {"0", "1", "2", "3", "4"}
      BY <1>1, <1>5, TokenIs
  <2>3. 4 \in close /\ close \in SUBSET Int
      BY <1>5, <2>1
  <2>4. \A j \in close : 4 <= j
    <3>1. \A j \in 1..Len(t) : 4 <= j \/ j = 1 \/ j = 2 \/ j = 3
        OBVIOUS
    <3> QED BY <1>5, <2>1, <2>2, <3>1, MarksDiffer
  <2> HIDE DEF close
  <2> QED BY <2>3, <2>4, MinIs
<1>10. Piece(t, 2, Min(close) - 1) = Token(i) /\ From(t, Min(close) + 1) = From(t, 5)
  <2>1. Min(close) - 1 = 3 /\ Min(close) + 1 = 5
      BY <1>9
  <2> HIDE DEF close
  <2> QED BY <1>5, <2>1
<1>11. {e \in Known(dict) : e.token = Token(i) /\ e.is_prefix = TRUE} = {AsKnown(dict, i)}
  <2>1. dict[i].is_prefix = TRUE
      BY DEF Readable, PlainEntries
  <2> QED BY <2>1, KnownIs
<1>12. AsKnown(dict, i).value = p
    BY <1>2 DEF AsKnown
<1>13. Resolve(t, Known(dict), otherwise)
          = Str((CHOOSE e \in {AsKnown(dict, i)} : TRUE).value \o From(t, 5))
  <2>1. StartsWith(t, <<"{", "$">>)
      BY <1>8 DEF Open
  <2>2. {j \in DOMAIN t : t[j] = "}"} = close
      BY DEF Close
  <2> HIDE DEF close
  <2> QED BY <1>7, <1>8, <1>9, <1>10, <1>11, <2>1, <2>2, Zenon DEF Resolve
<1>14. (CHOOSE e \in {AsKnown(dict, i)} : TRUE) = AsKnown(dict, i)
    OBVIOUS
<1> QED BY <1>3, <1>5, <1>6, <1>7, <1>12, <1>13, <1>14

\* A plain primitive is read back from its token.
LEMMA PrimReadBack ==
    ASSUME NEW G, Marks \subseteq G, NEW dict, Readable(dict, G),
           NEW v \in Primitives(G), PlainPrim(v)
    PROVE  DecPrim(EncVal(v, dict), Known(dict)) = v
<1>1. CASE v[1] = "str"
  <2>1. PICK s \in Seq(G) : v = Str(s) /\ PlainString(s) /\ v[2] = s
      BY <1>1 DEF Primitives, PlainPrim, Str
  <2>2. EncVal(v, dict) = EncStr(s, dict)
      BY <1>1, <2>1 DEF EncVal
  <2>3. CASE \E i \in 1..Len(dict) : Whole(EncStr(s, dict), s, dict, i)
      BY <2>1, <2>2, <2>3, WholeReadBack DEF DecPrim
  <2>4. CASE \E i \in 1..Len(dict) : dict[i].is_prefix /\ Shortened(EncStr(s, dict), s, dict[i].value, i)
      BY <2>1, <2>2, <2>4, ShortenedReadBack DEF DecPrim
  <2>5. CASE EncStr(s, dict) = Ep(Str(s))
      BY <2>1, <2>2, <2>5, EpStringReadBack
  <2> QED BY <2>3, <2>4, <2>5, EncStrForms
<1>2. CASE v[1] # "str"
    BY <1>2, OtherReadBack DEF EncVal
<1> QED BY <1>1, <1>2

(***************************************************************************)
(* What a token is not taken for.                                          *)
(***************************************************************************)

\* What stands before the closing quote of a quoted text: no quote without a
\* backslash, and a backslash only behind a last backslash of s.
LEMMA InnerQuotes ==
    ASSUME NEW G, Marks \subseteq G, NEW s \in Seq(G)
    PROVE  /\ \A p \in 1..Len(Inner(s)) : Inner(s)[p] = Q => p > 1 /\ Inner(s)[p - 1] = B
           /\ s # <<>> => Len(Inner(s)) >= 1
           /\ s # <<>> /\ s[Len(s)] # B => Inner(s)[Len(Inner(s))] # B
           /\ s = <<>> => Len(Inner(s)) = 0
           /\ Q \notin ToSet(s) => \A p \in 1..Len(Inner(s)) : Inner(s)[p] # Q
<1>1. PICK off : Spread(off, s)
    BY InnerIs
<1>2. PICK n \in Nat : n = Len(s) /\ \A i \in 1..n : s[i] \in G
    BY TextIs
<1>3. PICK m \in Nat : m = Len(Inner(s))
    BY InnerIs, TextIs
<1>4. off \in [0..n -> Nat] /\ off[0] = 0 /\ m = off[n]
    BY <1>1, <1>2, <1>3 DEF Spread
<1>5. \A i \in 1..n :
          /\ off[i] <= m /\ off[i - 1] \in Nat /\ off[i] \in Nat
          /\ s[i] \in Escaped =>
                /\ off[i] = off[i - 1] + 2
                /\ Inner(s)[off[i - 1] + 1] = B
                /\ Inner(s)[off[i - 1] + 2] = Escapes[s[i]]
          /\ s[i] \notin Escaped => off[i] = off[i - 1] + 1 /\ Inner(s)[off[i - 1] + 1] = s[i]
  <2>1. \A i \in 1..n : i \in 0..n /\ i - 1 \in 0..n
      BY <1>2
  <2> QED BY <1>1, <1>2, <1>3, <1>4, <2>1 DEF Spread
<1>6. ASSUME NEW p \in 1..m, Inner(s)[p] = Q PROVE p > 1 /\ Inner(s)[p - 1] = B
  <2>1. PICK i \in 1..n : \/ p = off[i - 1] + 1
                          \/ s[i] \in Escaped /\ p = off[i - 1] + 2
      BY <1>1, <1>2, <1>3 DEF Spread
  <2>2. B # Q /\ Q \in Escaped
      BY DEF B, Q, Escaped
  <2>3. p = off[i - 1] + 2 /\ s[i] \in Escaped
      BY <1>5, <1>6, <2>1, <2>2
  <2>4. off[i - 1] \in Nat /\ p - 1 = off[i - 1] + 1
      BY <1>5, <2>3
  <2> QED BY <1>5, <2>3, <2>4
<1>7. ASSUME s # <<>> PROVE n \in 1..n
    BY <1>2, <1>7, TextIs
<1>8. ASSUME s # <<>> PROVE m >= 1
  <2>1. n \in 1..n
      BY <1>7, <1>8
  <2> QED BY <1>4, <1>5, <2>1
<1>9. ASSUME s # <<>>, s[n] # B PROVE Inner(s)[m] # B
  <2>1. n \in 1..n
      BY <1>7, <1>9
  <2>2. CASE s[n] \in Escaped
    <3>1. Escapes[s[n]] # B
        BY <1>9, <2>2, EscapesAre DEF Escaped, B, Q
    <3> QED BY <1>4, <1>5, <2>1, <2>2, <3>1
  <2>3. CASE s[n] \notin Escaped
      BY <1>4, <1>5, <1>9, <2>1, <2>3
  <2> QED BY <2>2, <2>3
<1>10. ASSUME s = <<>> PROVE m = 0
    BY <1>2, <1>4, <1>10
<1>11. ASSUME Q \notin ToSet(s), NEW p \in 1..m PROVE Inner(s)[p] # Q
  <2>1. PICK i \in 1..n : \/ p = off[i - 1] + 1
                          \/ s[i] \in Escaped /\ p = off[i - 1] + 2
      BY <1>1, <1>2, <1>3 DEF Spread
  <2>2. s[i] # Q
    <3>1. s[i] \in ToSet(s)
        BY <1>2, TextIs
    <3> QED BY <1>11, <3>1
  <2>3. CASE p = off[i - 1] + 1
      BY <1>5, <2>2, <2>3 DEF B, Q
  <2>4. CASE s[i] \in Escaped /\ p = off[i - 1] + 2
    <3>1. Escapes[s[i]] # Q
        BY <2>2, <2>4, EscapesAre DEF Escaped, B, Q
    <3> QED BY <1>5, <2>4, <3>1
  <2> QED BY <2>1, <2>3, <2>4
<1> QED BY <1>2, <1>3, <1>6, <1>8, <1>9, <1>10, <1>11

\* Behind a quoted text: within it the scan is inside quotes, and after it
\* outside unless its last glyph is a backslash.
Begins(L, t) == \A i \in 1..Len(t) : L[i] = t[i]

QuotedTo(L, d) == \A i \in 1..d - 1 : Toggles(L, i) = {1}

LEMMA QuotedToggles ==
    ASSUME NEW G, Marks \subseteq G, NEW s \in Seq(G), NEW L, NEW d \in Nat, d = Len(Dumps(s)),
           Begins(L, Dumps(s))
    PROVE  /\ d >= 2 /\ QuotedTo(L, d)
           /\ s = <<>> \/ s[Len(s)] # B => Toggles(L, d) = {1, d}
<1>1. PICK m \in Nat : m = Len(Inner(s))
    BY InnerIs, TextIs
<1>2. d = m + 2 /\ L[1] = Q /\ L[d] = Q /\ \A i \in 1..m : L[i + 1] = Inner(s)[i]
  <2>1. d = m + 2
      BY <1>1, DumpsIs
  <2>2. 1 \in 1..d /\ d \in 1..d /\ \A i \in 1..m : i + 1 \in 1..d
      BY <1>1, <2>1
  <2>3. \A i \in 1..d : L[i] = Dumps(s)[i]
      BY DEF Begins
  <2> QED BY <1>1, <2>1, <2>2, <2>3, DumpsIs
<1>3. ASSUME NEW j \in 2..d - 1, L[j] = Q PROVE L[j - 1] = B
  <2>1. j - 1 \in 1..m /\ (j - 1) + 1 = j
      BY <1>2
  <2>2. Inner(s)[j - 1] = Q
      BY <1>2, <1>3, <2>1
  <2>3. j - 1 > 1 /\ Inner(s)[(j - 1) - 1] = B
      BY <1>1, <2>1, <2>2, InnerQuotes
  <2>4. (j - 1) - 1 \in 1..m /\ ((j - 1) - 1) + 1 = j - 1
      BY <2>1, <2>3
  <2> QED BY <1>2, <2>3, <2>4
<1>4. ASSUME NEW i \in 1..d - 1 PROVE Toggles(L, i) = {1}
  <2>1. 1 \in Toggles(L, i)
      BY <1>2 DEF Toggles
  <2>2. ASSUME NEW j \in Toggles(L, i) PROVE j = 1
    <3>1. j \in 1..i /\ L[j] = Q /\ (j = 1 \/ L[j - 1] # B)
        BY DEF Toggles
    <3>2. j # 1 => j \in 2..d - 1
        BY <3>1
    <3> QED BY <1>3, <3>1, <3>2
  <2> QED BY <2>1, <2>2
<1>5. ASSUME s = <<>> \/ s[Len(s)] # B PROVE Toggles(L, d) = {1, d}
  <2>1. L[d - 1] # B
    <3>1. CASE s = <<>>
      <4>1. d - 1 = 1
        <5>1. Len(Inner(s)) = 0
            BY <3>1, InnerQuotes
        <5> QED BY <1>1, <1>2, <5>1
      <4> QED BY <1>2, <4>1 DEF B, Q
    <3>2. CASE s # <<>>
      <4>1. Inner(s)[m] # B /\ m >= 1
          BY <1>1, <1>5, <3>2, InnerQuotes
      <4>2. m \in 1..m /\ m + 1 = d - 1
          BY <1>2, <4>1
      <4> QED BY <1>2, <4>1, <4>2
    <3> QED BY <3>1, <3>2
  <2>2. 1 \in Toggles(L, d) /\ d \in Toggles(L, d)
      BY <1>2, <2>1 DEF Toggles
  <2>3. ASSUME NEW j \in Toggles(L, d) PROVE j = 1 \/ j = d
    <3>1. j \in 1..d /\ L[j] = Q /\ (j = 1 \/ L[j - 1] # B)
        BY DEF Toggles
    <3>2. j # 1 /\ j # d => j \in 2..d - 1
        BY <3>1
    <3> QED BY <1>3, <3>1, <3>2
  <2> QED BY <2>2, <2>3
<1> QED BY <1>2, <1>4, <1>5 DEF QuotedTo

\* A separator that is always inside quotes is not found.
LEMMA NotOutside ==
    ASSUME NEW t, NEW g, \A i \in DOMAIN t : t[i] = g => Cardinality(Toggles(t, i)) % 2 = 1
    PROVE  FindOutside(t, g) = 0
<1>1. {i \in DOMAIN t : t[i] = g /\ Cardinality(Toggles(t, i)) % 2 = 0} = {}
  <2>1. \A i \in DOMAIN t : t[i] = g => ~(Cardinality(Toggles(t, i)) % 2 = 0)
      OBVIOUS
  <2> QED BY <2>1
<1> QED BY <1>1 DEF FindOutside

\* Parity of the sets of QuotedToggles.
LEMMA ToggleParity ==
    /\ Cardinality({1}) % 2 = 1
    /\ \A d \in Nat : d >= 2 => Cardinality({1, d}) % 2 = 0
    /\ Cardinality({}) % 2 = 0
<1>1. Cardinality({1}) = 1
    BY FS_Singleton
<1>2. ASSUME NEW d \in Nat, d >= 2 PROVE Cardinality({1, d}) = 2
  <2>1. IsFiniteSet({1}) /\ d \notin {1} /\ {1} \cup {d} = {1, d}
      BY <1>2, FS_Singleton
  <2>2. Cardinality({1} \cup {d}) = Cardinality({1}) + 1
      BY <2>1, FS_AddElement
  <2> QED BY <1>1, <2>1, <2>2
<1>3. Cardinality({}) = 0
    BY FS_EmptySet
<1> QED BY <1>1, <1>2, <1>3

\* A quoted text holds no separator, nor does a text without one.
LEMMA QuotedIsNoLine ==
    ASSUME NEW G, Marks \subseteq G, NEW s \in Seq(G)
    PROVE  ~LooksLikeObjLine(Dumps(s))
<1>1. Dumps(s) \in Seq(G)
    BY DumpsIs
<1>2. PICK d \in Nat : d = Len(Dumps(s)) /\ DOMAIN Dumps(s) = 1..d
    BY <1>1, TextIs
<1>3. \A i \in 1..d - 1 : Toggles(Dumps(s), i) = {1}
  <2>1. Begins(Dumps(s), Dumps(s))
      BY DEF Begins
  <2>2. QuotedTo(Dumps(s), d)
      BY <1>2, <2>1, QuotedToggles
  <2> QED BY <2>2 DEF QuotedTo
<1>4. Dumps(s)[d] = Q
  <2>1. PICK m \in Nat : m = Len(Inner(s))
      BY InnerIs, TextIs
  <2> QED BY <1>2, <2>1, DumpsIs
<1>5. ASSUME NEW g \in {"=", ":"} PROVE FindOutside(Dumps(s), g) = 0
  <2>1. ASSUME NEW i \in 1..d, Dumps(s)[i] = g PROVE Cardinality(Toggles(Dumps(s), i)) % 2 = 1
    <3>1. i # d
        BY <1>4, <2>1 DEF Q
    <3>2. i \in 1..d - 1
        BY <3>1
    <3> QED BY <1>3, <3>2, ToggleParity
  <2> QED BY <1>2, <2>1, NotOutside
<1>6. FindEq(Dumps(s)) = 0 /\ FindColon(Dumps(s)) = 0
    BY <1>5 DEF FindEq, FindColon
<1> QED BY <1>6 DEF LooksLikeObjLine

LEMMA BareIsNoLine ==
    ASSUME NEW t, \A i \in DOMAIN t : t[i] # "=" /\ t[i] # ":"
    PROVE  ~LooksLikeObjLine(t)
<1>1. FindOutside(t, "=") = 0 /\ FindOutside(t, ":") = 0
    BY NotOutside
<1> QED BY <1>1 DEF LooksLikeObjLine, FindEq, FindColon

\* A first glyph that is no blank stays the first.
LEMMA StripKeepsFirst ==
    ASSUME NEW G, NEW s \in Seq(G), s # <<>>, s[1] \notin Blanks
    PROVE  s[1] \in ToSet(Strip(s))
<1>1. PICK n \in Nat : n = Len(s) /\ DOMAIN s = 1..n /\ n >= 1
    BY TextIs
<1> DEFINE solid == {i \in DOMAIN s : s[i] \notin Blanks}
<1>2. solid \in SUBSET (1..n) /\ 1 \in solid
    BY <1>1
<1>3. Strip(s) = Piece(s, Min(solid), Max(solid))
  <2>1. solid # {}
      BY <1>2
  <2> QED BY <2>1 DEF Strip
<1> HIDE DEF solid
<1>4. Min(solid) = 1
  <2>1. solid \in SUBSET Int /\ \A y \in solid : 1 <= y
      BY <1>2
  <2> QED BY <1>2, <2>1, MinIs
<1>5. Max(solid) \in 1..n
    BY <1>2, GreatestPlace
<1>6. PICK b \in 1..n : b = Max(solid) /\ Strip(s) = Piece(s, 1, b)
    BY <1>3, <1>4, <1>5
<1>7. /\ Piece(s, 1, b) \in Seq(G)
      /\ Len(Piece(s, 1, b)) = IF 1 <= b THEN b - 1 + 1 ELSE 0
      /\ \A i \in 1..b - 1 + 1 : Piece(s, 1, b)[i] = s[1 + i - 1]
  <2>1. 1 \in 1..Len(s) + 1 /\ b \in 0..Len(s)
      BY <1>1
  <2> QED BY <2>1, PieceType
<1>8. Strip(s) \in Seq(G) /\ Len(Strip(s)) = b /\ Strip(s)[1] = s[1]
  <2>1. 1 \in 1..b - 1 + 1 /\ 1 + 1 - 1 = 1
      BY <1>6
  <2> QED BY <1>6, <1>7, <2>1
<1> QED BY <1>8, TextIs

\* A line that begins with a brace is no line of an object.
LEMMA BraceIsNoLine ==
    ASSUME NEW G, NEW t \in Seq(G), t # <<>>, t[1] = Open
    PROVE  ~LooksLikeObjLine(t)
<1>1. PICK n \in Nat : n = Len(t) /\ DOMAIN t = 1..n /\ n >= 1
    BY TextIs
<1> DEFINE seps == {FindEq(t), FindColon(t)} \ {0}
<1>2. ASSUME NEW g, g # Open PROVE FindOutside(t, g) \in {0} \cup 2..n
  <2> DEFINE found == {i \in DOMAIN t : t[i] = g /\ Cardinality(Toggles(t, i)) % 2 = 0}
  <2>1. found \in SUBSET (1..n) /\ \A i \in found : i # 1
      BY <1>1, <1>2
  <2>2. FindOutside(t, g) = IF found = {} THEN 0 ELSE Min(found)
      BY DEF FindOutside
  <2> HIDE DEF found
  <2>3. CASE found = {}
      BY <2>2, <2>3
  <2>4. CASE found # {}
    <3>1. PICK x \in found : x = Min(found)
        BY <2>1, <2>4, LeastPlace
    <3>2. x \in 2..n
        BY <2>1, <3>1
    <3> QED BY <2>2, <2>4, <3>1, <3>2
  <2> QED BY <2>3, <2>4
<1>3. "=" # Open /\ ":" # Open
    BY Zenon DEF Open
<1>4. seps \in SUBSET (2..n)
    BY <1>2, <1>3 DEF FindEq, FindColon
<1>5. ASSUME seps # {} PROVE Open \in ToSet(Strip(Piece(t, 1, Min(seps) - 1)))
  <2> HIDE DEF seps
  <2>1. seps \in SUBSET (1..n)
      BY <1>4
  <2>2. PICK x \in seps : x = Min(seps)
      BY <1>5, <2>1, LeastPlace
  <2>3. PICK b \in 1..n : b = Min(seps) - 1
    <3>1. x \in 2..n
        BY <1>4
    <3>2. x - 1 \in 1..n
        BY <3>1
    <3> QED BY <2>2, <3>2
  <2>4. /\ Piece(t, 1, b) \in Seq(G)
        /\ Len(Piece(t, 1, b)) = IF 1 <= b THEN b - 1 + 1 ELSE 0
        /\ \A i \in 1..b - 1 + 1 : Piece(t, 1, b)[i] = t[1 + i - 1]
    <3>1. 1 \in 1..Len(t) + 1 /\ b \in 0..Len(t)
        BY <1>1
    <3> QED BY <3>1, PieceType
  <2>5. Len(Piece(t, 1, b)) >= 1 /\ Piece(t, 1, b)[1] = Open
    <3>1. 1 \in 1..b - 1 + 1 /\ 1 + 1 - 1 = 1
        BY <2>3
    <3> QED BY <2>4, <3>1
  <2>6. Piece(t, 1, b) # <<>> /\ Open \notin Blanks
      BY <2>4, <2>5, TextIs, MarksDiffer
  <2> QED BY <2>3, <2>4, <2>5, <2>6, StripKeepsFirst
<1>6. ToSet(Strip(Piece(t, 1, Min(seps) - 1))) \cap {",", "[", "]", "{", "}", "tab", "$"} # {}
          \/ seps = {}
  <2>1. Open \in {",", "[", "]", "{", "}", "tab", "$"}
      BY Zenon DEF Open
  <2> HIDE DEF seps
  <2> QED BY <1>5, <2>1, Zenon
<1> HIDE DEF seps
<1> QED BY <1>6, Zenon DEF LooksLikeObjLine, seps

\* A token on a line or in a row, told from headers and from lines of objects.
StandsAlone(t, G) ==
    /\ t \in Seq(G) /\ t # <<>> /\ Trim(t)
    /\ \A i \in 1..Len(t) : t[i] \notin LineBreaks \cup {"tab"}
    /\ t[1] # "[" /\ t[1] # "#" /\ ~LooksLikeObjLine(t)

LEMMA WholeStandsAlone ==
    ASSUME NEW G, Marks \subseteq G, NEW dict, Readable(dict, G), NEW i \in 1..Len(dict),
           NEW s \in Seq(G), NEW t, Whole(t, s, dict, i)
    PROVE  StandsAlone(t, G)
<1>1. /\ t \in Seq(G) /\ Len(t) = 2 /\ t[1] = "$" /\ t[2] \in {"0", "1", "2", "3", "4"}
      /\ Trim(t)
    BY WholeReadBack
<1>2. t # <<>> /\ t[1] # "[" /\ t[1] # "#"
  <2>1. Len(t) >= 1
      BY <1>1
  <2> QED BY <1>1, <2>1, TextIs
<1>3. \A k \in 1..Len(t) : t[k] \notin LineBreaks \cup {"tab"}
  <2>1. \A k \in 1..2 : k = 1 \/ k = 2
      OBVIOUS
  <2>2. \A g \in {"$", "0", "1", "2", "3", "4"} : g \notin LineBreaks \cup {"tab"}
      BY DEF LineBreaks
  <2> QED BY <1>1, <2>1, <2>2
<1>4. ~LooksLikeObjLine(t)
    BY <1>1 DEF LooksLikeObjLine
<1> QED BY <1>1, <1>2, <1>3, <1>4 DEF StandsAlone

LEMMA ShortenedStandsAlone ==
    ASSUME NEW G, Marks \subseteq G, NEW dict, Readable(dict, G), NEW i \in 1..Len(dict),
           dict[i].is_prefix, NEW s \in Seq(G), PlainString(s),
           NEW t, Shortened(t, s, dict[i].value, i)
    PROVE  StandsAlone(t, G)
<1>1. MayLosePrefix(s) /\ Trim(t)
    BY ShortenedReadBack
<1>2. i \in Named
    BY DEF Readable, Named
<1>3. PICK p \in Seq(G) : p = dict[i].value
    BY DEF Readable, PlainEntries
<1>4. PICK n \in Nat, m \in Nat : n = Len(s) /\ m = Len(p)
    BY TextIs
<1>5. ShortenedForm(t, s, p, i, n, m, G)
  <2>1. ShortenedForm(t, s, p, i, Len(s), Len(p), G)
      BY <1>2, <1>3, ShortenedIs
  <2> QED BY <1>4, <2>1
<1>6. /\ t \in Seq(G) /\ m \in 0..n /\ Len(t) = 4 + (n - m)
      /\ t[1] = Open /\ t[2] = "$" /\ t[3] = Numeral(i - 1) /\ t[4] = Close
      /\ \A k \in 1..n - m : t[4 + k] = s[m + k]
    BY <1>5 DEF ShortenedForm
<1>7. Open \notin LineBreaks \cup {"tab"} /\ Close \notin LineBreaks \cup {"tab"}
      /\ Open # "[" /\ Open # "#"
    BY Zenon DEF LineBreaks, Open, Close
<1>8. t[3] \in {"0", "1", "2", "3", "4"}
    BY <1>2, <1>6, TokenIs
<1>9. \A k \in 1..n : s[k] \notin LineBreaks \cup {"tab"}
  <2>1. ToSet(s) \cap (LineBreaks \cup {"tab"}) = {}
      BY <1>1 DEF PlainString
  <2>2. \A k \in 1..n : s[k] \in ToSet(s)
      BY <1>4, TextIs
  <2> QED BY <2>1, <2>2
<1>10. ASSUME NEW k \in 1..Len(t) PROVE t[k] \notin LineBreaks \cup {"tab"}
  <2>1. CASE k \in 1..4
    <3>1. k = 1 \/ k = 2 \/ k = 3 \/ k = 4
        BY <2>1
    <3>2. \A g \in {"$", "0", "1", "2", "3", "4"} : g \notin LineBreaks \cup {"tab"}
        BY DEF LineBreaks
    <3> QED BY <1>6, <1>7, <1>8, <3>1, <3>2
  <2>2. CASE k \notin 1..4
    <3>1. PICK j \in 1..n - m : k = 4 + j
      <4>1. k - 4 \in 1..n - m /\ k = 4 + (k - 4)
          BY <1>6, <2>2
      <4> QED BY <4>1
    <3>2. t[k] = s[m + j] /\ m + j \in 1..n
        BY <1>6, <3>1
    <3> QED BY <1>9, <3>2
  <2> QED BY <2>1, <2>2
<1>11. t # <<>>
  <2>1. Len(t) >= 1
      BY <1>6
  <2> QED BY <1>6, <2>1, TextIs
<1>12. ~LooksLikeObjLine(t)
    BY <1>6, <1>11, BraceIsNoLine
<1> QED BY <1>1, <1>6, <1>7, <1>10, <1>11, <1>12 DEF StandsAlone

LEMMA EpStandsAlone ==
    ASSUME NEW G, Marks \subseteq G, NEW s \in Seq(G), PlainString(s)
    PROVE  StandsAlone(Ep(Str(s)), G)
<1>1. PICK t \in Seq(G) : /\ t = Ep(Str(s)) /\ t # <<>> /\ Trim(t)
                          /\ t = Dumps(s) \/ (t = s /\ Safe(s))
    BY EpStringReadBack
<1>2. PICK n \in Nat : n = Len(t) /\ DOMAIN t = 1..n /\ n >= 1 /\ ToSet(t) = {t[i] : i \in 1..n}
    BY <1>1, TextIs
<1>3. \A i \in 1..n : t[i] \notin LineBreaks
    BY <1>1, <1>2 DEF PlainString, Unbroken
<1>4. CASE t = Dumps(s)
  <2>1. \A i \in 1..n : t[i] # "tab"
    <3>1. \A i \in 1..n : t[i] \in {Q, B, "t", "n", "v"} \/ t[i] \in ToSet(s) \ Escaped
        BY <1>2, <1>4, DumpsGlyphs
    <3> QED BY <3>1 DEF Q, B, Escaped
  <2>2. t[1] = Q
      BY <1>4, DumpsIs
  <2>3. t[1] # "[" /\ t[1] # "#"
      BY <2>2 DEF Q
  <2>4. ~LooksLikeObjLine(t)
      BY <1>4, QuotedIsNoLine
  <2> QED BY <1>1, <1>2, <1>3, <2>1, <2>3, <2>4 DEF StandsAlone
<1>5. CASE t = s /\ Safe(s)
  <2>1. \A i \in 1..n : t[i] \notin Unsafe
      BY <1>2, <1>5, SafeIs
  <2>2. /\ "tab" \in Unsafe /\ "[" \in Unsafe /\ "#" \in Unsafe /\ "=" \in Unsafe /\ ":" \in Unsafe
      BY Zenon DEF Unsafe
  <2>3. ~LooksLikeObjLine(t)
      BY <1>2, <2>1, <2>2, BareIsNoLine
  <2>4. 1 \in 1..n
      BY <1>2
  <2> QED BY <1>1, <1>2, <1>3, <2>1, <2>2, <2>3, <2>4 DEF StandsAlone
<1>6. StandsAlone(t, G)
    BY <1>1, <1>4, <1>5
<1> QED BY <1>1, <1>6

LEMMA OtherStandsAlone ==
    ASSUME NEW G, Marks \subseteq G, NEW v \in Primitives(G), PlainPrim(v), v[1] # "str"
    PROVE  StandsAlone(Ep(v), G)
<1>1. /\ Ep(v) = v[2] /\ v[2] # <<>> /\ Trim(v[2])
      /\ v[2] \in Seq(Numerals \cup {".", "-", "null", "true", "false"})
    BY OtherReadBack
<1>2. v[2] \in Seq(G)
  <2>1. v \in {"num", "str"} \X Seq(G) \/ \E w \in Reserved : v = <<"const", w>>
      BY DEF Primitives
  <2>2. CASE v \in {"num", "str"} \X Seq(G)
      BY <2>2
  <2>3. CASE \E w \in Reserved : v = <<"const", w>>
    <3>1. "null" \in G /\ "true" \in G /\ "false" \in G
        BY DEF Marks
    <3>2. \A w \in Reserved : w \in Seq(G)
        BY <3>1 DEF Reserved
    <3> QED BY <2>3, <3>2
  <2> QED BY <2>1, <2>2, <2>3
<1>3. PICK n \in Nat : n = Len(v[2]) /\ DOMAIN v[2] = 1..n /\ n >= 1
                       /\ \A i \in 1..n : v[2][i] \in Numerals \cup {".", "-", "null", "true", "false"}
    BY <1>1, TextIs
<1>4. \A g \in Numerals \cup {".", "-", "null", "true", "false"} :
          g \notin LineBreaks \cup {"tab"} /\ g # "=" /\ g # ":" /\ g # "[" /\ g # "#"
    BY DEF Numerals, LineBreaks
<1>5. ~LooksLikeObjLine(v[2])
    BY <1>3, <1>4, BareIsNoLine
<1>6. 1 \in 1..n
    BY <1>3
<1>7. StandsAlone(v[2], G)
    BY <1>1, <1>2, <1>3, <1>4, <1>5, <1>6 DEF StandsAlone
<1> QED BY <1>1, <1>7

LEMMA PrimStandsAlone ==
    ASSUME NEW G, Marks \subseteq G, NEW dict, Readable(dict, G),
           NEW v \in Primitives(G), PlainPrim(v)
    PROVE  StandsAlone(EncVal(v, dict), G)
<1>1. CASE v[1] = "str"
  <2>1. PICK s \in Seq(G) : v = Str(s) /\ PlainString(s) /\ v[2] = s
      BY <1>1 DEF Primitives, PlainPrim, Str
  <2>2. EncVal(v, dict) = EncStr(s, dict)
      BY <1>1, <2>1 DEF EncVal
  <2>3. CASE \E i \in 1..Len(dict) : Whole(EncStr(s, dict), s, dict, i)
      BY <2>2, <2>3, WholeStandsAlone
  <2>4. CASE \E i \in 1..Len(dict) : dict[i].is_prefix /\ Shortened(EncStr(s, dict), s, dict[i].value, i)
      BY <2>1, <2>2, <2>4, ShortenedStandsAlone
  <2>5. CASE EncStr(s, dict) = Ep(Str(s))
      BY <2>1, <2>2, <2>5, EpStandsAlone
  <2> QED BY <2>3, <2>4, <2>5, EncStrForms
<1>2. CASE v[1] # "str"
    BY <1>2, OtherStandsAlone DEF EncVal
<1> QED BY <1>1, <1>2

\* A dictionary that Readable asks for.
LEMMA DictionaryIsReadable ==
    ASSUME NEW G, Marks \subseteq G, NEW ss \in Seq(Seq(G)),
           \A i \in 1..Len(ss) : PlainString(ss[i]),
           NEW dict \in DictionariesOf(ss), Len(dict) <= 5
    PROVE  Readable(dict, G)
<1>1. Len(dict) \in Nat /\ DOMAIN dict = 1..Len(dict) /\ PlainEntries(dict, G)
    BY DictionaryIsPlain
<1>2. Len(dict) \in 0..5
  <2>1. PICK n \in Nat : n = Len(dict)
      BY <1>1
  <2>2. n <= 5
      BY <2>1
  <2>3. n \in 0..5
      BY <2>2
  <2> QED BY <2>1, <2>3
<1> QED BY <1>1, <1>2 DEF Readable

(***************************************************************************)
(* Lines of objects.                                                       *)
(***************************************************************************)

\* A key as it is written: no separator outside quotes in it, and the scan
\* behind it is outside quotes.
KeyWritten(L, k, K) ==
    /\ K >= 1 /\ Begins(L, k)
    /\ \A i \in 1..K : L[i] = "=" \/ L[i] = ":" => Cardinality(Toggles(L, i)) % 2 = 1
    /\ L[K + 1] # Q => Cardinality(Toggles(L, K + 1)) % 2 = 0

LEMMA KeyIsWritten ==
    ASSUME NEW G, Marks \subseteq G, NEW key \in Seq(G), PlainKey(key), NEW L,
           NEW K \in Nat, K = Len(Es(key)), Begins(L, Es(key))
    PROVE  KeyWritten(L, Es(key), K)
<1>1. PICK k \in Seq(G) : k = Es(key) /\ k # <<>>
    BY EsIs
<1>2. K >= 1 /\ \A i \in 1..K : L[i] = k[i]
    BY <1>1, TextIs DEF Begins
<1>3. CASE Safe(key)
  <2>1. k = key
      BY <1>1, <1>3 DEF Es
  <2>2. \A i \in 1..K : L[i] \notin Unsafe
      BY <1>1, <1>2, <1>3, <2>1, SafeIs
  <2>3. "=" \in Unsafe /\ ":" \in Unsafe /\ Q \in Unsafe
      BY Zenon DEF Unsafe
  <2>4. ASSUME L[K + 1] # Q PROVE Toggles(L, K + 1) = {}
    <3>1. \A j \in 1..K + 1 : j \in 1..K \/ j = K + 1
        OBVIOUS
    <3>2. \A j \in 1..K + 1 : L[j] # Q
        BY <2>2, <2>3, <2>4, <3>1
    <3> QED BY <3>2 DEF Toggles
  <2>5. L[K + 1] # Q => Cardinality(Toggles(L, K + 1)) % 2 = 0
      BY <2>4, ToggleParity
  <2> QED BY <1>2, <2>2, <2>3, <2>5 DEF KeyWritten
<1>4. CASE ~Safe(key)
  <2>1. k = Dumps(key)
      BY <1>1, <1>4 DEF Es
  <2>2. key = <<>> \/ key[Len(key)] # B
      BY DEF PlainKey, Last
  <2>3. Begins(L, Dumps(key)) /\ K = Len(Dumps(key))
      BY <1>1, <2>1
  <2>4. K >= 2 /\ (\A i \in 1..K - 1 : Toggles(L, i) = {1}) /\ Toggles(L, K) = {1, K}
    <3>0. K >= 2
        BY <2>3, QuotedToggles
    <3>1. QuotedTo(L, K)
        BY <2>3, QuotedToggles
    <3>2. Toggles(L, K) = {1, K}
        BY <2>2, <2>3, QuotedToggles
    <3> QED BY <3>0, <3>1, <3>2 DEF QuotedTo
  <2>5. L[K] = Q
    <3>1. K \in 1..K
        BY <1>2
    <3>2. PICK m \in Nat : m = Len(Inner(key))
        BY InnerIs, TextIs
    <3>3. k[K] = Q
        BY <2>1, <2>3, <3>2, DumpsIs
    <3> QED BY <1>2, <3>1, <3>3
  <2>6. ASSUME NEW i \in 1..K, L[i] = "=" \/ L[i] = ":"
        PROVE  Cardinality(Toggles(L, i)) % 2 = 1
    <3>1. i # K
        BY <2>5, <2>6 DEF Q
    <3>2. i \in 1..K - 1
        BY <3>1
    <3>3. Toggles(L, i) = {1}
        BY <2>4, <3>2
    <3> QED BY <3>3, ToggleParity
  <2>7. ASSUME L[K + 1] # Q PROVE Toggles(L, K + 1) = {1, K}
    <3>1. \A j \in 1..K + 1 : j \in 1..K \/ j = K + 1
        OBVIOUS
    <3>2. \A j \in 1..K : j \in 1..K + 1
        OBVIOUS
    <3>3. \A j : j \in Toggles(L, K + 1) <=> j \in Toggles(L, K)
        BY <2>7, <3>1, <3>2 DEF Toggles
    <3> QED BY <2>4, <3>3
  <2>8. L[K + 1] # Q => Cardinality(Toggles(L, K + 1)) % 2 = 0
      BY <2>4, <2>7, ToggleParity
  <2> QED BY <1>1, <1>2, <2>6, <2>8 DEF KeyWritten
<1> QED BY <1>3, <1>4

\* The text of a field's line: the written key of K glyphs, a separator, and
\* what is written behind it.
FieldText(L, k, sep, e, K, G) ==
    /\ L \in Seq(G) /\ Begins(L, k) /\ L[K + 1] = sep
    /\ Len(L) = K + 1 + Len(e) /\ \A i \in 1..Len(e) : L[K + 1 + i] = e[i]
    /\ Piece(L, 1, K) = k /\ From(L, K + 2) = e

LEMMA FieldLineIs ==
    ASSUME NEW G, NEW sep \in G, NEW k \in Seq(G), NEW e \in Seq(G)
    PROVE  FieldText(k \o <<sep>> \o e, k, sep, e, Len(k), G)
<1>1. PICK K \in Nat, N \in Nat : K = Len(k) /\ N = Len(e)
    BY TextIs
<1>2. PICK a \in Seq(G) : a = <<sep>> /\ Len(a) = 1 /\ a[1] = sep
    BY GlyphIs
<1>3. PICK ka \in Seq(G) : ka = k \o a /\ IsBehind(ka, k, a)
    BY ConcatIsBehind
<1>4. PICK L \in Seq(G) : L = ka \o e /\ IsBehind(L, ka, e)
    BY ConcatIsBehind
<1>5. Len(ka) = K + 1 /\ (\A i \in 1..K : ka[i] = k[i]) /\ ka[K + 1] = sep
  <2>1. 1 \in 1..Len(a)
      BY <1>2
  <2> QED BY <1>1, <1>2, <1>3, <2>1 DEF IsBehind
<1>6. /\ Len(L) = K + 1 + N /\ (\A i \in 1..K : L[i] = k[i]) /\ L[K + 1] = sep
      /\ \A i \in 1..N : L[K + 1 + i] = e[i]
  <2>1. \A i \in 1..K + 1 : L[i] = ka[i]
      BY <1>4, <1>5 DEF IsBehind
  <2>2. K + 1 \in 1..K + 1 /\ \A i \in 1..K : i \in 1..K + 1
      BY <1>1
  <2>3. Len(L) = K + 1 + N /\ \A i \in 1..N : L[K + 1 + i] = e[i]
      BY <1>1, <1>4, <1>5 DEF IsBehind
  <2> QED BY <1>5, <2>1, <2>2, <2>3
<1>7. Piece(L, 1, K) = k
  <2>1. /\ Piece(L, 1, K) \in Seq(G)
        /\ Len(Piece(L, 1, K)) = IF 1 <= K THEN K - 1 + 1 ELSE 0
        /\ \A i \in 1..K - 1 + 1 : Piece(L, 1, K)[i] = L[1 + i - 1]
    <3>1. 1 \in 1..Len(L) + 1 /\ K \in 0..Len(L)
        BY <1>6
    <3> QED BY <3>1, PieceType
  <2>2. PICK y \in Seq(G) : y = Piece(L, 1, K) /\ Len(y) = K /\ \A i \in 1..K : y[i] = L[i]
    <3>1. Len(Piece(L, 1, K)) = K
        BY <2>1
    <3>2. K - 1 + 1 = K /\ \A i \in 1..K : 1 + i - 1 = i
        BY <1>1
    <3> QED BY <2>1, <3>1, <3>2
  <2>3. Len(y) = Len(k) /\ \A i \in 1..Len(y) : y[i] = k[i]
      BY <1>1, <1>6, <2>2
  <2> QED BY <2>2, <2>3, SeqEqual
<1>8. From(L, K + 2) = e
  <2>1. /\ From(L, (K + 1) + 1) \in Seq(G) /\ Len(From(L, (K + 1) + 1)) = Len(L) - (K + 1)
        /\ \A i \in 1..Len(L) - (K + 1) : From(L, (K + 1) + 1)[i] = L[(K + 1) + i]
    <3>1. K + 1 \in 0..Len(L)
        BY <1>6
    <3> QED BY <3>1, RestIs
  <2>2. (K + 1) + 1 = K + 2 /\ Len(L) - (K + 1) = N
      BY <1>6
  <2>3. PICK y \in Seq(G) : y = From(L, K + 2) /\ Len(y) = N /\ \A i \in 1..N : y[i] = L[K + 1 + i]
      BY <2>1, <2>2
  <2>4. Len(y) = Len(e) /\ \A i \in 1..Len(y) : y[i] = e[i]
      BY <1>1, <1>6, <2>3
  <2> QED BY <2>3, <2>4, SeqEqual
<1>9. Begins(L, k)
    BY <1>1, <1>6 DEF Begins
<1>10. L = k \o <<sep>> \o e
    BY <1>2, <1>3, <1>4
<1>11. FieldText(L, k, sep, e, K, G)
    BY <1>1, <1>6, <1>7, <1>8, <1>9 DEF FieldText
<1> QED BY <1>1, <1>10, <1>11

\* Where the scan finds the separator of a field's line, and none before it.
LEMMA SeparatorIs ==
    ASSUME NEW G, NEW L \in Seq(G), NEW k, NEW K \in Nat, K + 1 <= Len(L),
           KeyWritten(L, k, K), NEW g \in {"=", ":"}
    PROVE  /\ L[K + 1] = g => FindOutside(L, g) = K + 1
           /\ L[K + 1] # g => /\ FindOutside(L, g) \in Int
                              /\ FindOutside(L, g) = 0 \/ FindOutside(L, g) > K + 1
<1>1. PICK n \in Nat : n = Len(L) /\ DOMAIN L = 1..n
    BY TextIs
<1> DEFINE at == {i \in DOMAIN L : L[i] = g /\ Cardinality(Toggles(L, i)) % 2 = 0}
<1>2. ASSUME NEW i \in at PROVE i \in 1..n /\ i >= K + 1 /\ L[i] = g
  <2>1. i \in 1..n /\ L[i] = g /\ Cardinality(Toggles(L, i)) % 2 = 0
      BY <1>1, <1>2
  <2>2. i \in 1..K => Cardinality(Toggles(L, i)) % 2 = 1
      BY <1>2, <2>1 DEF KeyWritten
  <2>3. i \notin 1..K
      BY <2>1, <2>2
  <2> QED BY <2>1, <2>3
<1>3. FindOutside(L, g) = IF at = {} THEN 0 ELSE Min(at)
    BY DEF FindOutside
<1>4. ASSUME L[K + 1] = g PROVE K + 1 \in at
  <2>1. L[K + 1] # Q
      BY <1>4 DEF Q
  <2> QED BY <1>1, <1>4, <2>1 DEF KeyWritten
<1> HIDE DEF at
<1>5. ASSUME L[K + 1] = g PROVE FindOutside(L, g) = K + 1
  <2>1. at \in SUBSET Int /\ \A y \in at : K + 1 <= y
      BY <1>2
  <2>2. Min(at) = K + 1
      BY <1>4, <1>5, <2>1, MinIs
  <2> QED BY <1>3, <1>4, <1>5, <2>2
<1>6. ASSUME L[K + 1] # g
      PROVE  FindOutside(L, g) \in Int /\ (FindOutside(L, g) = 0 \/ FindOutside(L, g) > K + 1)
  <2>1. CASE at # {}
    <3>1. at \in SUBSET (1..n)
        BY <1>2
    <3>2. PICK x \in at : x = Min(at)
        BY <2>1, <3>1, LeastPlace
    <3>3. x \in 1..n /\ x >= K + 1 /\ x # K + 1
        BY <1>2, <1>6
    <3>4. x > K + 1
        BY <3>3
    <3> QED BY <1>3, <2>1, <3>2, <3>3, <3>4
  <2> QED BY <1>3, <2>1
<1> QED BY <1>5, <1>6

\* The glyphs of a key as it is written.
KeyMarks == {",", "[", "]", "{", "}", "tab", "$"}

LEMMA KeyGlyphs ==
    ASSUME NEW G, Marks \subseteq G, NEW key \in Seq(G), PlainKey(key)
    PROVE  ToSet(Es(key)) \cap KeyMarks = {}
<1>1. PICK k \in Seq(G) : k = Es(key)
    BY EsIs
<1>2. PICK n \in Nat : n = Len(k) /\ ToSet(k) = {k[i] : i \in 1..n}
    BY <1>1, TextIs
<1>3. CASE Safe(key)
  <2>1. k = key
      BY <1>1, <1>3 DEF Es
  <2>2. \A i \in 1..n : k[i] \notin Unsafe
      BY <1>2, <1>3, <2>1, SafeIs
  <2>3. KeyMarks \subseteq Unsafe
      BY Zenon DEF Unsafe, KeyMarks
  <2> QED BY <1>1, <1>2, <2>2, <2>3
<1>4. CASE ~Safe(key)
  <2>1. k = Dumps(key)
      BY <1>1, <1>4 DEF Es
  <2>2. \A i \in 1..n : k[i] \in {Q, B, "t", "n", "v"} \/ k[i] \in ToSet(key) \ Escaped
      BY <1>2, <2>1, DumpsGlyphs
  <2>3. \A g \in KeyMarks : g = "tab" \/ g \notin ToSet(key)
      BY Zenon DEF PlainKey, KeyMarks
  <2>4. \A g \in KeyMarks : g \notin {Q, B, "t", "n", "v"}
      BY Zenon DEF Q, B, KeyMarks
  <2>5. "tab" \in Escaped
      BY DEF Escaped
  <2> QED BY <1>1, <1>2, <2>2, <2>3, <2>4, <2>5
<1> QED BY <1>3, <1>4

\* A field's line is taken for one, and is cut where it was joined.
LineIsCut(L, key, sep, e) ==
    /\ LooksLikeObjLine(L) /\ (OpensBlock(L) <=> sep = ":")
    /\ KeyToken(L) = Es(key) /\ ValueToken(L) = e

LEMMA FieldIsCut ==
    ASSUME NEW G, Marks \subseteq G, NEW key \in Seq(G), PlainKey(key),
           NEW sep \in {"=", ":"}, NEW e \in Seq(G), Trim(e)
    PROVE  LineIsCut(Es(key) \o <<sep>> \o e, key, sep, e)
<1>0. PICK L : L = Es(key) \o <<sep>> \o e
    OBVIOUS
<1>1. PICK k \in Seq(G) : k = Es(key) /\ k # <<>> /\ Strip(k) = k
    BY EsIs
<1>16. k[1] \notin {"$", "[", "-", "#"}
  <2>1. Es(key)[1] \notin {"$", "{", "[", "-", "#"}
      BY EsIs
  <2> QED BY <1>1, <2>1, Zenon
<1>2. PICK K \in Nat : K = Len(k)
    BY TextIs
<1>3. Strip(e) = e
    BY StripTrim
<1>4. /\ L \in Seq(G) /\ Begins(L, k) /\ L[K + 1] = sep
      /\ Len(L) = K + 1 + Len(e)
      /\ Piece(L, 1, K) = k /\ From(L, K + 2) = e
  <2>1. sep \in G
      BY DEF Marks
  <2>2. FieldText(k \o <<sep>> \o e, k, sep, e, Len(k), G)
      BY <2>1, FieldLineIs
  <2>3. FieldText(L, k, sep, e, K, G)
      BY <1>0, <1>1, <1>2, <2>2
  <2> QED BY <2>3 DEF FieldText
<1>5. KeyWritten(L, k, K)
    BY <1>1, <1>2, <1>4, KeyIsWritten
<1>6. K + 1 <= Len(L)
  <2>1. Len(e) \in Nat
      BY TextIs
  <2> QED BY <1>4, <2>1
<1> DEFINE eq == FindEq(L)
           colon == FindColon(L)
<1>7. /\ sep = "=" => eq = K + 1 /\ colon \in Int /\ (colon = 0 \/ colon > K + 1)
      /\ sep = ":" => colon = K + 1 /\ eq \in Int /\ (eq = 0 \/ eq > K + 1)
    BY <1>4, <1>5, <1>6, SeparatorIs DEF FindEq, FindColon
<1> HIDE DEF eq, colon
<1>8. (OpensBlock(L) <=> sep = ":") /\ Separator(L) = K + 1
    BY <1>7 DEF OpensBlock, Separator, eq, colon
<1>9. KeyToken(L) = k
  <2>1. (K + 1) - 1 = K
      OBVIOUS
  <2> QED BY <1>4, <1>8, <2>1 DEF KeyToken
<1>10. ValueToken(L) = e
  <2>1. (K + 1) + 1 = K + 2
      OBVIOUS
  <2> QED BY <1>3, <1>4, <1>8, <2>1 DEF ValueToken
<1>11. L[1] = k[1]
  <2>1. 1 \in 1..Len(k)
      BY <1>1, <1>2, TextIs
  <2> QED BY <1>4, <2>1 DEF Begins
<1> DEFINE seps == {eq, colon} \ {0}
<1>12. seps # {} /\ Min(seps) = K + 1
  <2>1. K + 1 \in seps /\ seps \in SUBSET Int /\ \A y \in seps : K + 1 <= y
      BY <1>7
  <2> HIDE DEF seps
  <2> QED BY <2>1, MinIs
<1>13. Strip(Piece(L, 1, Min(seps) - 1)) = k
  <2>1. (K + 1) - 1 = K
      OBVIOUS
  <2> HIDE DEF seps
  <2> QED BY <1>1, <1>4, <1>12, <2>1
<1>14. ToSet(k) \cap KeyMarks = {}
    BY <1>1, KeyGlyphs
<1>15. LooksLikeObjLine(L)
  <2>1. L[1] \notin {"[", "-", "#", "$"}
      BY <1>11, <1>16
  <2> HIDE DEF seps
  <2> QED BY <1>12, <1>13, <1>14, <2>1, Zenon DEF LooksLikeObjLine, KeyMarks, seps, eq, colon
<1>17. LineIsCut(L, key, sep, e)
    BY <1>1, <1>8, <1>9, <1>10, <1>15 DEF LineIsCut
<1> QED BY <1>0, <1>17

\* A token by itself: on its line, and as what follows a key or a dash.
TokenReadBack(t, v, dict) ==
    /\ Unbroken(t) /\ t # <<>> /\ Strip(t) = t
    /\ ~IsTabHeader(t) /\ ~IsArrHeader(t) /\ ~LooksLikeObjLine(t)
    /\ DecPrim(t, Known(dict)) = v

LEMMA PrimTokenReadBack ==
    ASSUME NEW G, Marks \subseteq G, NEW dict, Readable(dict, G),
           NEW v \in Primitives(G), PlainPrim(v)
    PROVE  TokenReadBack(EncVal(v, dict), v, dict)
<1>1. PICK t \in Seq(G) : t = EncVal(v, dict) /\ StandsAlone(t, G)
    BY PrimStandsAlone DEF StandsAlone
<1>2. DecPrim(t, Known(dict)) = v
    BY <1>1, PrimReadBack
<1>3. /\ t # <<>> /\ Trim(t) /\ t[1] # "[" /\ t[1] # "#" /\ ~LooksLikeObjLine(t)
      /\ \A i \in 1..Len(t) : t[i] \notin LineBreaks
    BY <1>1 DEF StandsAlone
<1>4. Strip(t) = t
    BY <1>3, StripTrim
<1>5. Unbroken(t)
  <2>1. ToSet(t) = {t[i] : i \in 1..Len(t)}
      BY TextIs
  <2> QED BY <1>3, <2>1 DEF Unbroken
<1>6. ~IsTabHeader(t) /\ ~IsArrHeader(t)
    BY <1>3 DEF IsTabHeader, IsArrHeader
<1> QED BY <1>1, <1>2, <1>3, <1>4, <1>5, <1>6 DEF TokenReadBack

\* A line of an object: taken for one, its key read, and what follows the key
\* as it was written.
LineReadBack(L, key, sep, e, dict) ==
    /\ Unbroken(L) /\ Strip(L) # <<>>
    /\ LooksLikeObjLine(L) /\ (OpensBlock(L) <=> sep = ":")
    /\ DecStr(KeyToken(L), Known(dict)) = Str(key)
    /\ ValueToken(L) = e

LEMMA LineIsReadBack ==
    ASSUME NEW G, Marks \subseteq G, NEW key \in Seq(G), PlainKey(key), NEW dict,
           NEW sep \in {"=", ":"}, NEW e \in Seq(G), Trim(e), Unbroken(e)
    PROVE  LineReadBack(Es(key) \o <<sep>> \o e, key, sep, e, dict)
<1>1. PICK L : L = Es(key) \o <<sep>> \o e
    OBVIOUS
<1>2. LineIsCut(L, key, sep, e)
    BY <1>1, FieldIsCut
<1>3. DecStr(Es(key), Known(dict)) = Str(key)
  <2>1. PICK k \in Seq(G) : /\ k = Es(key) /\ k # <<>> /\ Strip(k) = k /\ DecStrTok(k) = Str(key)
      BY EsIs
  <2>2. k[1] # "$" /\ k[1] # "{"
    <3>1. Es(key)[1] \notin {"$", "{", "[", "-", "#"}
        BY EsIs
    <3> QED BY <2>1, <3>1, Zenon
  <2>3. DecStr(k, Known(dict)) = DecStrTok(k)
      BY <2>1, <2>2, OwnToken, Zenon
  <2> QED BY <2>1, <2>3
<1>4. PICK k \in Seq(G) : k = Es(key) /\ k # <<>> /\ Trim(k)
    BY EsIs
<1>5. PICK K \in Nat, N \in Nat : K = Len(k) /\ N = Len(e) /\ K >= 1
    BY <1>4, TextIs
<1>6. /\ L \in Seq(G) /\ (\A i \in 1..K : L[i] = k[i]) /\ L[K + 1] = sep
      /\ Len(L) = K + 1 + N /\ \A i \in 1..N : L[K + 1 + i] = e[i]
  <2>1. sep \in G
      BY DEF Marks
  <2>2. FieldText(k \o <<sep>> \o e, k, sep, e, Len(k), G)
      BY <2>1, FieldLineIs
  <2>3. FieldText(L, k, sep, e, K, G)
      BY <1>1, <1>4, <1>5, <2>2
  <2> QED BY <1>5, <2>3 DEF FieldText, Begins
<1>7. Unbroken(L)
  <2>1. \A i \in 1..K : k[i] \notin LineBreaks
    <3>1. \A i \in 1..K : k[i] \in ToSet(k)
        BY <1>5, TextIs
    <3> QED BY <1>4, <3>1 DEF PlainKey, Unbroken
  <2>2. \A i \in 1..N : e[i] \notin LineBreaks
    <3>1. \A i \in 1..N : e[i] \in ToSet(e)
        BY <1>5, TextIs
    <3> QED BY <3>1 DEF Unbroken
  <2>3. sep \notin LineBreaks
      BY DEF LineBreaks
  <2>4. ASSUME NEW p \in 1..Len(L) PROVE L[p] \notin LineBreaks
    <3>1. p \in 1..K \/ p = K + 1 \/ \E i \in 1..N : p = K + 1 + i
      <4>1. p > K + 1 => p - (K + 1) \in 1..N /\ p = K + 1 + (p - (K + 1))
          BY <1>6
      <4> QED BY <1>6, <4>1
    <3> QED BY <1>6, <2>1, <2>2, <2>3, <3>1
  <2>5. ToSet(L) = {L[p] : p \in 1..Len(L)}
      BY <1>6, TextIs
  <2> QED BY <2>4, <2>5 DEF Unbroken
<1>8. Strip(L) # <<>>
  <2>1. 1 \in 1..K
      BY <1>5
  <2>2. L[1] \notin Blanks
      BY <1>4, <1>6, <2>1 DEF Trim
  <2>3. Len(L) >= 1
      BY <1>6
  <2>4. L[1] \in ToSet(Strip(L))
      BY <1>6, <2>2, <2>3, TextIs, StripKeepsFirst
  <2> QED BY <2>4 DEF ToSet
<1>9. LineReadBack(L, key, sep, e, dict)
    BY <1>2, <1>3, <1>7, <1>8 DEF LineReadBack, LineIsCut
<1> QED BY <1>1, <1>9

(***************************************************************************)
(* Rows and inline arrays: joined with a separator, cut at it again.       *)
(***************************************************************************)

\* The first n places of c, in order.
Rising(c, n) ==
    /\ \A i \in 1..n : c[i] \in Int
    /\ \A i \in 1..n - 1 : c[i] < c[i + 1]

LEMMA RisingPairs ==
    ASSUME NEW n \in Nat, NEW c, Rising(c, n)
    PROVE  \A i \in 1..n : \A j \in 1..n : i < j => c[i] < c[j]
<1>1. TAKE i \in 1..n
<1> DEFINE Bad == {j \in 1..n : i < j /\ ~(c[i] < c[j])}
<1>2. SUFFICES ASSUME Bad # {} PROVE FALSE
    OBVIOUS
<1>3. PICK j \in Bad : \A m \in Bad : j <= m
  <2>1. Bad \in SUBSET Nat
      OBVIOUS
  <2> HIDE DEF Bad
  <2> QED BY <1>2, <2>1, LeastNat
<1>4. j \in 1..n /\ i < j /\ ~(c[i] < c[j])
    BY <1>3
<1>5. PICK k \in 1..n - 1 : k + 1 = j
  <2>1. j - 1 \in 1..n - 1 /\ (j - 1) + 1 = j
      BY <1>4
  <2> QED BY <2>1
<1>6. c[k] < c[j] /\ c[k] \in Int /\ c[j] \in Int /\ c[i] \in Int
  <2>1. k \in 1..n
      BY <1>5
  <2> QED BY <1>4, <1>5, <2>1 DEF Rising
<1>7. CASE k = i
    BY <1>4, <1>6, <1>7
<1>8. CASE k # i
  <2>1. k \in 1..n /\ i < k /\ k < j
      BY <1>4, <1>5, <1>8
  <2>2. k \notin Bad
    <3> HIDE DEF Bad
    <3>1. j \in Int /\ k \in Int
        BY <1>4, <2>1
    <3> QED BY <1>3, <2>1, <3>1
  <2>3. c[i] < c[k]
      BY <2>1, <2>2
  <2> QED BY <1>4, <1>6, <2>3
<1> QED BY <1>7, <1>8

\* As many places as there are.
LEMMA RisingSize ==
    ASSUME NEW n \in Nat, NEW c, Rising(c, n), NEW m \in 0..n
    PROVE  Cardinality({c[i] : i \in 1..m}) = m /\ IsFiniteSet({c[i] : i \in 1..m})
<1> DEFINE T == {c[i] : i \in 1..m}
           g == [i \in 1..m |-> c[i]]
<1>1. ASSUME NEW i \in 1..m, NEW j \in 1..m PROVE i # j => c[i] # c[j]
  <2>2. i \in 1..n /\ j \in 1..n
      OBVIOUS
  <2>3. c[i] \in Int /\ c[j] \in Int
      BY <2>2 DEF Rising
  <2>4. (i < j => c[i] < c[j]) /\ (j < i => c[j] < c[i])
      BY <2>2, RisingPairs
  <2> QED BY <2>3, <2>4
<1>2. g \in Bijection(1..m, T)
    BY <1>1, Zenon DEF Bijection, Injection, Surjection, IsInjective
<1>3. ExistsBijection(1..m, T)
    BY <1>2 DEF ExistsBijection
<1>4. IsFiniteSet(1..m) /\ Cardinality(1..m) = m
    BY FS_Interval
<1> HIDE DEF T, g
<1>5. IsFiniteSet(T) /\ Cardinality(T) = m
    BY <1>3, <1>4, FS_Bijection
<1> QED BY <1>5 DEF T

\* InOrder puts rising places in their order.
LEMMA InOrderIs ==
    ASSUME NEW n \in Nat, NEW c, Rising(c, n), NEW P, P = {c[i] : i \in 1..n}
    PROVE  /\ Cardinality(P) = n
           /\ InOrder(P) = [i \in 1..n |-> c[i]]
<1>1. Cardinality(P) = n
  <2>1. n \in 0..n
      OBVIOUS
  <2> QED BY <2>1, RisingSize
<1>2. ASSUME NEW k \in 1..n PROVE Cardinality({j \in P : j <= c[k]}) = k
  <2>1. {j \in P : j <= c[k]} = {c[i] : i \in 1..k}
    <3>1. ASSUME NEW i \in 1..n PROVE c[i] <= c[k] <=> i <= k
      <4>1. c[i] \in Int /\ c[k] \in Int
          BY DEF Rising
      <4>2. (i < k => c[i] < c[k]) /\ (k < i => c[k] < c[i])
          BY RisingPairs
      <4> QED BY <4>1, <4>2
    <3>2. \A i : i \in 1..k <=> i \in 1..n /\ i <= k
        OBVIOUS
    <3> QED BY <3>1, <3>2
  <2>2. k \in 0..n
      OBVIOUS
  <2> QED BY <2>1, <2>2, RisingSize
<1>3. ASSUME NEW k \in 1..n
      PROVE  (CHOOSE i \in P : Cardinality({j \in P : j <= i}) = k) = c[k]
  <2>1. c[k] \in P /\ Cardinality({j \in P : j <= c[k]}) = k
      BY <1>2
  <2>2. ASSUME NEW i \in P, Cardinality({j \in P : j <= i}) = k PROVE i = c[k]
    <3>1. PICK m \in 1..n : i = c[m]
        OBVIOUS
    <3>2. Cardinality({j \in P : j <= c[m]}) = m
        BY <1>2
    <3> QED BY <2>2, <3>1, <3>2
  <2> QED BY <2>1, <2>2
<1> QED BY <1>1, <1>3 DEF InOrder

\* Where the tokens are in the text F they are joined to: token i between the
\* places c[i - 1] and c[i], and the separator at those between two tokens.
Joined(c, ss, F, g) ==
    /\ c \in [0..Len(ss) -> Nat] /\ c[0] = 0 /\ c[Len(ss)] = Len(F) + 1
    /\ \A i \in 1..Len(ss) :
          /\ c[i] = c[i - 1] + Len(ss[i]) + 1
          /\ \A k \in 1..Len(ss[i]) : F[c[i - 1] + k] = ss[i][k]
          /\ i < Len(ss) => F[c[i]] = g
    /\ \A p \in 1..Len(F) :
          \/ \E i \in 1..Len(ss) - 1 : p = c[i]
          \/ \E i \in 1..Len(ss) : \E k \in 1..Len(ss[i]) : p = c[i - 1] + k

LEMMA JoinIs ==
    ASSUME NEW G, NEW ss \in Seq(Seq(G)), ss # <<>>, NEW g \in G
    PROVE  Join(ss, g) \in Seq(G) /\ \E c : Joined(c, ss, Join(ss, g), g)
<1>1. PICK n \in Nat : n = Len(ss) /\ DOMAIN ss = 1..n /\ n >= 1 /\ \A i \in 1..n : ss[i] \in Seq(G)
    BY TextIs
<1> DEFINE seqs == [i \in DOMAIN ss |-> IF i = 1 THEN ss[i] ELSE <<g>> \o ss[i]]
           F == Join(ss, g)
<1>2. PICK a \in Seq(G) : a = <<g>> /\ Len(a) = 1 /\ a[1] = g
    BY GlyphIs
<1>3. \A i \in 1..n : Len(ss[i]) \in Nat
    BY <1>1, TextIs
<1>4. ASSUME NEW i \in 1..n, i # 1
      PROVE  /\ seqs[i] \in Seq(G) /\ Len(seqs[i]) = 1 + Len(ss[i]) /\ seqs[i][1] = g
             /\ \A k \in 1..Len(ss[i]) : seqs[i][1 + k] = ss[i][k]
  <2>1. PICK x \in Seq(G) : x = ss[i]
      BY <1>1
  <2>2. PICK y \in Seq(G) : y = a \o x /\ IsBehind(y, a, x)
      BY ConcatIsBehind
  <2>3. seqs[i] = y
      BY <1>1, <1>2, <1>4, <2>1, <2>2
  <2>4. 1 \in 1..Len(a)
      BY <1>2
  <2>5. Len(y) = 1 + Len(x) /\ y[1] = g /\ \A k \in 1..Len(x) : y[1 + k] = x[k]
      BY <1>2, <2>2, <2>4 DEF IsBehind
  <2> HIDE DEF seqs
  <2> QED BY <2>1, <2>3, <2>5
<1>5. seqs[1] = ss[1]
    BY <1>1
<1>6. seqs \in Seq(Seq(G)) /\ Len(seqs) = n
  <2>1. DOMAIN seqs = 1..n
      BY <1>1
  <2>2. \A i \in 1..n : seqs[i] \in Seq(G)
    <3> HIDE DEF seqs
    <3> QED BY <1>1, <1>4, <1>5
  <2>3. seqs \in [1..n -> Seq(G)]
      BY <1>1, <2>2
  <2> HIDE DEF seqs
  <2> QED BY <2>3, SeqDef
<1>7. F = FlattenSeq(seqs)
    BY DEF Join
<1> HIDE DEF seqs, F
<1>8. F \in Seq(G) /\ \E off : Places(off, seqs, F)
    BY <1>6, <1>7, FlattenPlaces
<1>9. PICK off : Places(off, seqs, F)
    BY <1>8
<1>10. PICK N \in Nat : N = Len(F)
    BY <1>8, TextIs
<1>11. /\ off \in [0..n -> Nat] /\ off[0] = 0 /\ N = off[n]
       /\ \A i \in 1..n :
             /\ off[i] = off[i - 1] + Len(seqs[i])
             /\ \A k \in 1..Len(seqs[i]) : F[off[i - 1] + k] = seqs[i][k]
       /\ \A p \in 1..N : \E i \in 1..n : \E k \in 1..Len(seqs[i]) : p = off[i - 1] + k
    BY <1>6, <1>9, <1>10 DEF Places
<1>12. PICK c : c = [i \in 0..n |-> IF i = 0 THEN 0 ELSE off[i] + 1]
    OBVIOUS
<1>13. /\ c \in [0..n -> Nat] /\ c[0] = 0 /\ c[n] = N + 1
       /\ \A i \in 1..n : c[i] = off[i] + 1 /\ off[i - 1] \in Nat /\ off[i] \in Nat
       /\ \A i \in 1..n : i # 1 => c[i - 1] = off[i - 1] + 1
  <2>1. 0 \in 0..n /\ n \in 0..n /\ n # 0 /\ \A i \in 1..n : i \in 0..n /\ i - 1 \in 0..n /\ i # 0
      BY <1>1
  <2> QED BY <1>11, <1>12, <2>1
<1>14. ASSUME NEW i \in 1..n
       PROVE  /\ c[i] = c[i - 1] + Len(ss[i]) + 1
              /\ \A k \in 1..Len(ss[i]) : F[c[i - 1] + k] = ss[i][k]
              /\ i < n => F[c[i]] = g
  <2>1. CASE i = 1
    <3>1. c[1] = Len(ss[1]) + 1 /\ c[0] = 0 /\ off[0] = 0
      <4>1. off[1] = off[1 - 1] + Len(seqs[1]) /\ 1 - 1 = 0
          BY <1>1, <1>11
      <4>2. off[1] = Len(ss[1])
          BY <1>3, <1>5, <1>11, <4>1
      <4>3. c[1] = off[1] + 1
          BY <1>1, <1>13
      <4> QED BY <1>11, <1>13, <4>2, <4>3
    <3>2. ASSUME NEW k \in 1..Len(ss[1]) PROVE F[0 + k] = ss[1][k]
      <4>1. F[off[1 - 1] + k] = seqs[1][k] /\ 1 - 1 = 0
          BY <1>1, <1>5, <1>11
      <4> QED BY <1>5, <1>11, <4>1
    <3>3. 1 - 1 = 0 /\ 0 + Len(ss[1]) + 1 = Len(ss[1]) + 1
        BY <1>1, <1>3
    <3>4. c[i] = c[i - 1] + Len(ss[i]) + 1
        BY <2>1, <3>1, <3>3
    <3>5. \A k \in 1..Len(ss[i]) : F[c[i - 1] + k] = ss[i][k]
        BY <2>1, <3>1, <3>2, <3>3
    <3>6. ASSUME i < n PROVE F[c[i]] = g
      <4>1. 2 \in 1..n
          BY <1>1, <2>1, <3>6
      <4>2. Len(seqs[2]) = 1 + Len(ss[2]) /\ seqs[2][1] = g
          BY <1>4, <4>1
      <4>3. 1 \in 1..Len(seqs[2]) /\ 2 - 1 = 1
          BY <1>3, <4>1, <4>2
      <4>4. F[off[2 - 1] + 1] = g
          BY <1>11, <4>1, <4>2, <4>3
      <4> QED BY <1>13, <2>1, <4>3, <4>4
    <3> QED BY <3>4, <3>5, <3>6
  <2>2. CASE i # 1
    <3>1. PICK m \in Nat : m = Len(ss[i])
        BY <1>3
    <3>2. Len(seqs[i]) = 1 + m /\ \A k \in 1..m : seqs[i][1 + k] = ss[i][k]
        BY <1>4, <2>2, <3>1
    <3>3. c[i] = c[i - 1] + m + 1
      <4>1. off[i] = off[i - 1] + (1 + m)
          BY <1>11, <3>2
      <4>2. PICK x \in Nat : x = off[i - 1]
          BY <1>13
      <4>3. c[i] = off[i] + 1 /\ c[i - 1] = x + 1
          BY <1>13, <2>2, <4>2
      <4>4. c[i] = x + (1 + m) + 1
          BY <4>1, <4>2, <4>3
      <4>5. x + (1 + m) + 1 = (x + 1) + m + 1
          OBVIOUS
      <4> QED BY <4>3, <4>4, <4>5
    <3>4. ASSUME NEW k \in 1..m PROVE F[c[i - 1] + k] = ss[i][k]
      <4>1. 1 + k \in 1..Len(seqs[i])
          BY <3>2
      <4>2. F[off[i - 1] + (1 + k)] = ss[i][k]
          BY <1>11, <3>2, <4>1
      <4>3. off[i - 1] + (1 + k) = c[i - 1] + k
          BY <1>13, <2>2
      <4> QED BY <4>2, <4>3
    <3>5. ASSUME i < n PROVE F[c[i]] = g
      <4>1. PICK j \in 1..n : j = i + 1 /\ j # 1 /\ j - 1 = i
          BY <1>1, <3>5
      <4>2. Len(seqs[j]) = 1 + Len(ss[j]) /\ seqs[j][1] = g
          BY <1>4, <4>1
      <4>3. 1 \in 1..Len(seqs[j])
          BY <1>3, <4>2
      <4>4. F[off[j - 1] + 1] = seqs[j][1]
          BY <1>11, <4>3
      <4> QED BY <1>13, <4>1, <4>2, <4>4
    <3> QED BY <1>1, <3>1, <3>3, <3>4, <3>5
  <2> QED BY <2>1, <2>2
<1>15. ASSUME NEW p \in 1..N
       PROVE  \/ \E i \in 1..n - 1 : p = c[i]
              \/ \E i \in 1..n : \E k \in 1..Len(ss[i]) : p = c[i - 1] + k
  <2>1. PICK i \in 1..n : \E k \in 1..Len(seqs[i]) : p = off[i - 1] + k
      BY <1>11
  <2>2. PICK k \in 1..Len(seqs[i]) : p = off[i - 1] + k
      BY <2>1
  <2>3. CASE i = 1
    <3>1. k \in 1..Len(ss[i]) /\ c[i - 1] = 0 /\ off[i - 1] = 0
      <4>1. 1 - 1 = 0
          OBVIOUS
      <4> QED BY <1>5, <1>11, <1>13, <2>3, <4>1
    <3> QED BY <2>2, <3>1
  <2>4. CASE i # 1
    <3>1. Len(seqs[i]) = 1 + Len(ss[i]) /\ Len(ss[i]) \in Nat
        BY <1>3, <1>4, <2>4
    <3>2. c[i - 1] = off[i - 1] + 1 /\ off[i - 1] \in Nat
        BY <1>13, <2>4
    <3>3. CASE k = 1
      <4>1. i - 1 \in 1..n - 1
          BY <1>1, <2>4
      <4> QED BY <2>2, <3>2, <3>3, <4>1
    <3>4. CASE k # 1
      <4>1. k - 1 \in 1..Len(ss[i]) /\ p = c[i - 1] + (k - 1)
          BY <2>2, <3>1, <3>2, <3>4
      <4> QED BY <4>1
    <3> QED BY <3>3, <3>4
  <2> QED BY <2>3, <2>4
<1>16. Joined(c, ss, F, g)
    BY <1>1, <1>10, <1>13, <1>14, <1>15 DEF Joined
<1> QED BY <1>8, <1>16 DEF F

\* Cut at its separators, a joined text gives the tokens back.
Separators(c, n) == {c[i] : i \in 1..n - 1}

LEMMA CutIsJoined ==
    ASSUME NEW G, NEW ss \in Seq(Seq(G)), ss # <<>>, NEW g, NEW F \in Seq(G), NEW c,
           Joined(c, ss, F, g), NEW P, P = Separators(c, Len(ss))
    PROVE  CutAt(F, P) = ss
<1>1. PICK n \in Nat : n = Len(ss) /\ DOMAIN ss = 1..n /\ n >= 1 /\ \A i \in 1..n : ss[i] \in Seq(G)
    BY TextIs
<1>2. PICK N \in Nat : N = Len(F)
    BY TextIs
<1>3. \A i \in 1..n : Len(ss[i]) \in Nat
    BY <1>1, TextIs
<1>4. /\ c \in [0..n -> Nat] /\ c[0] = 0 /\ c[n] = N + 1
      /\ \A i \in 1..n :
            /\ c[i] = c[i - 1] + Len(ss[i]) + 1
            /\ \A k \in 1..Len(ss[i]) : F[c[i - 1] + k] = ss[i][k]
    BY <1>1, <1>2 DEF Joined
<1>5. ASSUME NEW i \in 1..n
      PROVE  c[i] \in Nat /\ c[i - 1] \in Nat /\ c[i - 1] < c[i]
  <2>1. i \in 0..n /\ i - 1 \in 0..n
      BY <1>1
  <2>2. PICK x \in Nat, y \in Nat, m \in Nat : x = c[i - 1] /\ y = c[i] /\ m = Len(ss[i])
      BY <1>3, <1>4, <2>1
  <2>3. y = x + m + 1
      BY <1>4, <2>2
  <2> QED BY <2>2, <2>3
<1>6. Rising(c, n)
  <2>1. ASSUME NEW i \in 1..n - 1 PROVE c[i] < c[i + 1]
    <3>1. i + 1 \in 1..n /\ (i + 1) - 1 = i
        BY <1>1
    <3> QED BY <1>5, <3>1
  <2> QED BY <1>5, <2>1 DEF Rising
<1>7. Rising(c, n - 1) /\ n - 1 \in Nat
  <2>1. \A i \in 1..n - 1 : i \in 1..n
      BY <1>1
  <2>2. \A i \in 1..(n - 1) - 1 : i \in 1..n - 1
      BY <1>1
  <2> QED BY <1>1, <1>6, <2>1, <2>2 DEF Rising
<1>8. /\ Cardinality(P) = n - 1
      /\ InOrder(P) = [i \in 1..n - 1 |-> c[i]]
  <2>1. PICK m \in Nat : m = n - 1
      BY <1>7
  <2>2. P = {c[i] : i \in 1..m} /\ Rising(c, m)
      BY <1>1, <1>7, <2>1 DEF Separators
  <2>3. Cardinality(P) = m /\ InOrder(P) = [i \in 1..m |-> c[i]]
      BY <2>2, InOrderIs
  <2> QED BY <2>1, <2>3
<1> DEFINE at == <<0>> \o InOrder(P) \o <<N + 1>>
<1>9. \A i \in 1..n + 1 : at[i] = c[i - 1]
  <2>1. PICK x \in Seq(Nat) : x = <<0>> /\ Len(x) = 1 /\ x[1] = 0
      BY GlyphIs
  <2>2. PICK z \in Seq(Nat) : z = <<N + 1>> /\ Len(z) = 1 /\ z[1] = N + 1
    <3>1. N + 1 \in Nat
        OBVIOUS
    <3> QED BY <3>1, GlyphIs
  <2>3. PICK y \in Seq(Nat) : y = InOrder(P) /\ Len(y) = n - 1 /\ \A i \in 1..n - 1 : y[i] = c[i]
    <3>1. PICK y : y = [i \in 1..n - 1 |-> c[i]]
        OBVIOUS
    <3>2. \A i \in 1..n - 1 : c[i] \in Nat
      <4>1. \A i \in 1..n - 1 : i \in 1..n
          BY <1>1
      <4> QED BY <1>5, <4>1
    <3>3. y \in [1..n - 1 -> Nat] /\ \A i \in 1..n - 1 : y[i] = c[i]
        BY <3>1, <3>2
    <3>4. y \in Seq(Nat) /\ Len(y) = n - 1
        BY <1>7, <3>3, SeqDef
    <3> QED BY <1>8, <3>1, <3>3, <3>4
  <2>4. PICK u \in Seq(Nat) : u = x \o y /\ IsBehind(u, x, y)
      BY ConcatIsBehind
  <2>5. PICK w \in Seq(Nat) : w = u \o z /\ IsBehind(w, u, z)
      BY ConcatIsBehind
  <2>6. at = w
      BY <2>1, <2>2, <2>3, <2>4, <2>5
  <2>7. Len(u) = n /\ u[1] = 0 /\ \A i \in 1..n - 1 : u[1 + i] = c[i]
    <3>1. Len(u) = 1 + (n - 1) /\ 1 + (n - 1) = n
        BY <2>1, <2>3, <2>4 DEF IsBehind
    <3>2. 1 \in 1..Len(x)
        BY <2>1
    <3> QED BY <2>1, <2>3, <2>4, <3>1, <3>2 DEF IsBehind
  <2>8. (\A i \in 1..n : w[i] = u[i]) /\ w[n + 1] = N + 1
    <3>1. 1 \in 1..Len(z)
        BY <2>2
    <3> QED BY <2>2, <2>5, <2>7, <3>1 DEF IsBehind
  <2>9. ASSUME NEW i \in 1..n + 1 PROVE w[i] = c[i - 1]
    <3>1. CASE i = 1
      <4>1. 1 \in 1..n /\ 1 - 1 = 0
          BY <1>1
      <4> QED BY <1>4, <2>7, <2>8, <3>1, <4>1
    <3>2. CASE i = n + 1
      <4>1. (n + 1) - 1 = n
          OBVIOUS
      <4> QED BY <1>4, <2>8, <3>2, <4>1
    <3>3. CASE i # 1 /\ i # n + 1
      <4>1. i \in 1..n /\ i - 1 \in 1..n - 1 /\ 1 + (i - 1) = i
          BY <3>3
      <4>2. u[1 + (i - 1)] = c[i - 1]
          BY <2>7, <4>1
      <4> QED BY <2>8, <4>1, <4>2
    <3> QED BY <3>1, <3>2, <3>3
  <2> QED BY <2>6, <2>9
<1>10. ASSUME NEW i \in 1..n PROVE Piece(F, at[i] + 1, at[i + 1] - 1) = ss[i]
  <2>1. PICK x \in Nat, y \in Nat, m \in Nat :
            x = c[i - 1] /\ y = c[i] /\ m = Len(ss[i]) /\ y = x + m + 1
      BY <1>3, <1>4, <1>5
  <2>2. at[i] = x /\ at[i + 1] = y
    <3>1. i \in 1..n + 1 /\ i + 1 \in 1..n + 1 /\ (i + 1) - 1 = i
        BY <1>1
    <3> HIDE DEF at
    <3> QED BY <1>9, <2>1, <3>1
  <2>3. y <= N + 1
    <3>1. CASE i = n
        BY <1>4, <2>1, <3>1
    <3>2. CASE i # n
      <4>1. n \in 1..n /\ i < n
          BY <1>1, <3>2
      <4>2. c[i] < c[n]
          BY <1>6, <4>1, RisingPairs
      <4> QED BY <1>4, <2>1, <4>2
    <3> QED BY <3>1, <3>2
  <2>4. x + 1 \in 1..N + 1 /\ x + m \in 0..N /\ y - 1 = x + m
    <3>1. y = x + m + 1
        BY <2>1
    <3> QED BY <2>3, <3>1
  <2>5. /\ Piece(F, x + 1, x + m) \in Seq(G)
        /\ Len(Piece(F, x + 1, x + m)) = IF x + 1 <= x + m THEN x + m - (x + 1) + 1 ELSE 0
        /\ \A k \in 1..x + m - (x + 1) + 1 : Piece(F, x + 1, x + m)[k] = F[x + 1 + k - 1]
    <3>1. PICK a \in 1..Len(F) + 1, b \in 0..Len(F) : a = x + 1 /\ b = x + m
        BY <1>2, <2>4
    <3>2. /\ Piece(F, a, b) \in Seq(G)
          /\ Len(Piece(F, a, b)) = IF a <= b THEN b - a + 1 ELSE 0
          /\ \A k \in 1..b - a + 1 : Piece(F, a, b)[k] = F[a + k - 1]
        BY PieceType
    <3> QED BY <3>1, <3>2
  <2>6. PICK p \in Seq(G) : /\ p = Piece(F, x + 1, x + m) /\ Len(p) = m
                            /\ \A k \in 1..m : p[k] = F[x + k]
    <3>1. /\ (IF x + 1 <= x + m THEN x + m - (x + 1) + 1 ELSE 0) = m
          /\ x + m - (x + 1) + 1 = m /\ \A k \in 1..m : x + 1 + k - 1 = x + k
        OBVIOUS
    <3> QED BY <2>5, <3>1
  <2>7. \A k \in 1..m : F[x + k] = ss[i][k]
      BY <1>4, <2>1
  <2>8. PICK q \in Seq(G) : q = ss[i]
      BY <1>1
  <2>9. p = q
    <3>1. Len(p) = Len(q) /\ \A k \in 1..Len(p) : p[k] = q[k]
        BY <2>1, <2>6, <2>7, <2>8
    <3> QED BY <3>1, SeqEqual
  <2> HIDE DEF at
  <2> QED BY <2>2, <2>4, <2>6, <2>8, <2>9
<1>11. CutAt(F, P) = [i \in 1..n |-> Piece(F, at[i] + 1, at[i + 1] - 1)]
  <2>1. (n - 1) + 1 = n
      OBVIOUS
  <2> QED BY <1>2, <1>8, <2>1 DEF CutAt
<1>12. ss = [i \in 1..n |-> ss[i]]
    BY <1>1
<1> HIDE DEF at
<1> QED BY <1>10, <1>11, <1>12

\* The places in a joined text of N glyphs.
TokenPlaces(c, ss, n, N) ==
    /\ Rising(c, n) /\ \A i \in 1..n - 1 : c[i] \in 1..N
    /\ \A i \in 1..n : /\ c[i - 1] \in Nat /\ c[i] = c[i - 1] + Len(ss[i]) + 1
                       /\ c[i - 1] + Len(ss[i]) <= N

LEMMA SeparatorPlace ==
    ASSUME NEW ss, NEW g, NEW F, NEW c, Joined(c, ss, F, g), NEW n \in Nat, n = Len(ss),
           NEW N \in Nat, N = Len(F), \A i \in 1..n : Len(ss[i]) \in Nat
    PROVE  TokenPlaces(c, ss, n, N)
<1>1. c \in [0..n -> Nat] /\ c[n] = N + 1 /\ \A i \in 1..n : c[i] = c[i - 1] + Len(ss[i]) + 1
    BY DEF Joined
<1>2. ASSUME NEW i \in 1..n
      PROVE  c[i] \in Nat /\ c[i - 1] \in Nat /\ c[i - 1] < c[i] /\ c[i - 1] + Len(ss[i]) = c[i] - 1
  <2>1. i \in 0..n /\ i - 1 \in 0..n
      OBVIOUS
  <2>2. PICK x \in Nat, y \in Nat, m \in Nat : x = c[i - 1] /\ y = c[i] /\ m = Len(ss[i])
      BY <1>1, <2>1
  <2>3. y = x + m + 1
      BY <1>1, <2>2
  <2> QED BY <2>2, <2>3
<1>3. Rising(c, n)
  <2>1. ASSUME NEW i \in 1..n - 1 PROVE c[i] < c[i + 1]
    <3>1. i + 1 \in 1..n /\ (i + 1) - 1 = i
        OBVIOUS
    <3> QED BY <1>2, <3>1
  <2> QED BY <1>2, <2>1 DEF Rising
<1>4. ASSUME NEW i \in 1..n PROVE c[i] <= N + 1 /\ (i < n => c[i] <= N)
  <2>1. CASE i = n
      BY <1>1, <2>1
  <2>2. CASE i # n
    <3>1. n \in 1..n /\ i < n
        BY <2>2
    <3>2. c[i] < c[n]
        BY <1>3, <3>1, RisingPairs
    <3> QED BY <1>1, <1>2, <3>2
  <2> QED BY <2>1, <2>2
<1>5. ASSUME NEW i \in 1..n - 1 PROVE c[i] \in 1..N
  <2>1. i \in 1..n /\ i < n
      OBVIOUS
  <2>2. PICK x \in Nat, y \in Nat : x = c[i - 1] /\ y = c[i] /\ x < y /\ y <= N
      BY <1>2, <1>4, <2>1
  <2> QED BY <2>2
<1>6. ASSUME NEW i \in 1..n PROVE c[i - 1] + Len(ss[i]) <= N
  <2>1. PICK y \in Nat : y = c[i] /\ y <= N + 1
      BY <1>2, <1>4
  <2>2. c[i - 1] + Len(ss[i]) = y - 1
      BY <1>2, <2>1
  <2> QED BY <2>1, <2>2
<1> QED BY <1>1, <1>2, <1>3, <1>5, <1>6 DEF TokenPlaces

\* No separator in the tokens: a joined text is cut where it was joined.
Without(ss, g) == \A i \in 1..Len(ss) : \A k \in 1..Len(ss[i]) : ss[i][k] # g

LEMMA SplitIsJoined ==
    ASSUME NEW G, NEW ss \in Seq(Seq(G)), ss # <<>>, NEW g \in G, Without(ss, g)
    PROVE  SplitOn(Join(ss, g), {g}) = ss
<1>1. PICK F \in Seq(G) : F = Join(ss, g) /\ \E c : Joined(c, ss, F, g)
    BY JoinIs
<1>2. PICK c : Joined(c, ss, F, g)
    BY <1>1
<1>3. PICK n \in Nat : n = Len(ss) /\ n >= 1 /\ \A i \in 1..n : Len(ss[i]) \in Nat
  <2>1. Len(ss) \in Nat /\ Len(ss) >= 1 /\ \A i \in 1..Len(ss) : ss[i] \in Seq(G)
      BY TextIs
  <2>2. \A i \in 1..Len(ss) : Len(ss[i]) \in Nat
      BY <2>1, TextIs
  <2> QED BY <2>1, <2>2
<1>4. PICK N \in Nat : N = Len(F) /\ DOMAIN F = 1..N
    BY TextIs
<1>5. {p \in 1..N : F[p] = g} = Separators(c, n)
  <2>1. ASSUME NEW p \in 1..N, F[p] = g PROVE p \in {c[i] : i \in 1..n - 1}
    <3>1. ASSUME NEW i \in 1..n, NEW k \in 1..Len(ss[i]), p = c[i - 1] + k PROVE FALSE
      <4>1. F[c[i - 1] + k] = ss[i][k] /\ ss[i][k] # g
          BY <1>2, <1>3 DEF Joined, Without
      <4> QED BY <2>1, <3>1, <4>1
    <3>2. \/ \E i \in 1..n - 1 : p = c[i]
          \/ \E i \in 1..n : \E k \in 1..Len(ss[i]) : p = c[i - 1] + k
        BY <1>2, <1>3, <1>4 DEF Joined
    <3> QED BY <3>1, <3>2
  <2>2. ASSUME NEW i \in 1..n - 1 PROVE c[i] \in 1..N /\ F[c[i]] = g
    <3>1. i \in 1..n /\ i < n
        BY <1>3
    <3>2. F[c[i]] = g
        BY <1>2, <1>3, <3>1 DEF Joined
    <3>3. c[i] \in 1..N
      <4>1. TokenPlaces(c, ss, n, N)
          BY <1>2, <1>3, <1>4, SeparatorPlace
      <4> QED BY <4>1 DEF TokenPlaces
    <3> QED BY <3>2, <3>3
  <2> QED BY <2>1, <2>2 DEF Separators
<1>6. SplitOn(F, {g}) = CutAt(F, Separators(c, n))
  <2>1. {p \in DOMAIN F : F[p] \in {g}} = {p \in 1..N : F[p] = g}
      BY <1>4
  <2> QED BY <1>5, <2>1 DEF SplitOn
<1>7. CutAt(F, Separators(c, n)) = ss
    BY <1>2, <1>3, CutIsJoined
<1> QED BY <1>1, <1>6, <1>7

\* The tokens of plain values, and what they are joined to.
Tokens(vs, dict) == [i \in DOMAIN vs |-> EncVal(vs[i], dict)]

LEMMA TokensAre ==
    ASSUME NEW G, Marks \subseteq G, NEW dict, Readable(dict, G),
           NEW vs \in Seq(Primitives(G)), \A i \in 1..Len(vs) : PlainPrim(vs[i])
    PROVE  /\ Tokens(vs, dict) \in Seq(Seq(G)) /\ Len(Tokens(vs, dict)) = Len(vs)
           /\ \A i \in 1..Len(vs) : StandsAlone(Tokens(vs, dict)[i], G)
                                    /\ Tokens(vs, dict)[i] = EncVal(vs[i], dict)
           /\ DecPrims(Tokens(vs, dict), Known(dict)) = vs
<1>1. PICK n \in Nat : n = Len(vs) /\ DOMAIN vs = 1..n /\ \A i \in 1..n : vs[i] \in Primitives(G)
    BY TextIs
<1>2. ASSUME NEW i \in 1..n
      PROVE  StandsAlone(EncVal(vs[i], dict), G) /\ DecPrim(EncVal(vs[i], dict), Known(dict)) = vs[i]
  <2>1. PICK v \in Primitives(G) : v = vs[i] /\ PlainPrim(v)
      BY <1>1
  <2>2. StandsAlone(EncVal(v, dict), G) /\ DecPrim(EncVal(v, dict), Known(dict)) = v
      BY <2>1, PrimStandsAlone, PrimReadBack
  <2> QED BY <2>1, <2>2
<1>3. PICK ts : ts = [i \in 1..n |-> EncVal(vs[i], dict)]
    OBVIOUS
<1>4. Tokens(vs, dict) = ts
    BY <1>1, <1>3 DEF Tokens
<1>5. ts \in Seq(Seq(G)) /\ Len(ts) = n /\ DOMAIN ts = 1..n
  <2>1. \A i \in 1..n : EncVal(vs[i], dict) \in Seq(G)
      BY <1>2 DEF StandsAlone
  <2>2. ts \in [1..n -> Seq(G)]
      BY <1>3, <2>1
  <2> QED BY <2>2, SeqDef
<1>6. \A i \in 1..n : StandsAlone(ts[i], G) /\ ts[i] = EncVal(vs[i], dict)
    BY <1>2, <1>3
<1>7. DecPrims(ts, Known(dict)) = vs
  <2>1. DecPrims(ts, Known(dict)) = [i \in 1..n |-> DecPrim(ts[i], Known(dict))]
      BY <1>5 DEF DecPrims
  <2>2. \A i \in 1..n : DecPrim(ts[i], Known(dict)) = vs[i]
      BY <1>2, <1>6
  <2>3. vs = [i \in 1..n |-> vs[i]]
      BY <1>1
  <2> QED BY <2>1, <2>2, <2>3
<1> QED BY <1>1, <1>4, <1>5, <1>6, <1>7

\* A joined text begins as its first token and ends as its last one.
LEMMA JoinedEnds ==
    ASSUME NEW G, NEW ss \in Seq(Seq(G)), ss # <<>>, NEW g, NEW F \in Seq(G),
           NEW c, Joined(c, ss, F, g), \A i \in 1..Len(ss) : ss[i] # <<>> /\ Trim(ss[i])
    PROVE  F # <<>> /\ Trim(F) /\ F[1] = ss[1][1]
<1>1. PICK n \in Nat : n = Len(ss) /\ n >= 1 /\ \A i \in 1..n : ss[i] \in Seq(G)
    BY TextIs
<1>2. PICK N \in Nat : N = Len(F)
    BY TextIs
<1>3. ASSUME NEW i \in 1..n
      PROVE  /\ Len(ss[i]) \in Nat /\ Len(ss[i]) >= 1
             /\ ss[i][1] \notin Blanks /\ ss[i][Len(ss[i])] \notin Blanks
  <2>1. PICK s \in Seq(G) : s = ss[i] /\ s # <<>> /\ Trim(s)
      BY <1>1
  <2>2. Len(s) \in Nat /\ Len(s) >= 1 /\ s[1] \notin Blanks /\ s[Len(s)] \notin Blanks
      BY <2>1, TextIs DEF Trim
  <2> QED BY <2>1, <2>2
<1>4. \A i \in 1..n : /\ c[i - 1] \in Nat /\ c[i] = c[i - 1] + Len(ss[i]) + 1
                      /\ c[i - 1] + Len(ss[i]) <= N
  <2>1. \A i \in 1..n : Len(ss[i]) \in Nat
      BY <1>3
  <2>2. TokenPlaces(c, ss, n, N)
      BY <1>1, <1>2, <2>1, SeparatorPlace
  <2> QED BY <2>2 DEF TokenPlaces
<1>5. /\ c[0] = 0 /\ c[n] = N + 1
      /\ \A i \in 1..n : \A k \in 1..Len(ss[i]) : F[c[i - 1] + k] = ss[i][k]
    BY <1>1, <1>2 DEF Joined
<1>6. F[1] = ss[1][1] /\ N >= 1
  <2>1. 1 \in 1..n /\ 1 - 1 = 0
      BY <1>1
  <2>2. PICK m \in Nat : m = Len(ss[1]) /\ m >= 1
      BY <1>3, <2>1
  <2>3. 1 \in 1..m /\ c[1 - 1] + 1 = 1
      BY <1>5, <2>1, <2>2
  <2>4. F[c[1 - 1] + 1] = ss[1][1]
      BY <1>5, <2>1, <2>2, <2>3
  <2>5. m <= N
    <3>1. c[1 - 1] + m <= N
        BY <1>4, <2>1, <2>2
    <3> QED BY <1>5, <2>1, <3>1
  <2> QED BY <2>2, <2>3, <2>4, <2>5
<1>7. F[N] \notin Blanks
  <2>1. n \in 1..n
      BY <1>1
  <2>2. PICK x \in Nat, m \in Nat : x = c[n - 1] /\ m = Len(ss[n]) /\ m >= 1
      BY <1>3, <1>4, <2>1
  <2>3. N + 1 = x + m + 1
      BY <1>4, <1>5, <2>1, <2>2
  <2>4. N = x + m /\ m \in 1..m
    <3>1. N = x + m
        BY <2>3
    <3> QED BY <2>2, <3>1
  <2>5. F[x + m] = ss[n][m]
      BY <1>5, <2>1, <2>2, <2>4
  <2> QED BY <1>3, <2>1, <2>2, <2>4, <2>5
<1>8. F[1] \notin Blanks
  <2>1. 1 \in 1..n
      BY <1>1
  <2> QED BY <1>3, <1>6, <2>1
<1> QED BY <1>2, <1>6, <1>7, <1>8, TextIs DEF Trim

\* What no token has and the separator is not, the joined text has not.
LEMMA JoinedGlyphs ==
    ASSUME NEW ss, NEW g, NEW F, NEW c, Joined(c, ss, F, g), NEW S, g \notin S,
           \A i \in 1..Len(ss) : \A k \in 1..Len(ss[i]) : ss[i][k] \notin S,
           Len(ss) \in Nat
    PROVE  \A p \in 1..Len(F) : F[p] \notin S
<1>1. TAKE p \in 1..Len(F)
<1>2. PICK n \in Nat : n = Len(ss)
    OBVIOUS
<1>3. \/ \E i \in 1..n - 1 : p = c[i]
      \/ \E i \in 1..n : \E k \in 1..Len(ss[i]) : p = c[i - 1] + k
    BY <1>2 DEF Joined
<1>4. ASSUME NEW i \in 1..n - 1, p = c[i] PROVE F[p] \notin S
  <2>1. i \in 1..n /\ i < n
      OBVIOUS
  <2>2. F[c[i]] = g
      BY <1>2, <2>1 DEF Joined
  <2> QED BY <1>4, <2>2
<1>5. ASSUME NEW i \in 1..n, NEW k \in 1..Len(ss[i]), p = c[i - 1] + k PROVE F[p] \notin S
  <2>1. F[c[i - 1] + k] = ss[i][k]
      BY <1>2 DEF Joined
  <2>2. ss[i][k] \notin S
      BY <1>2
  <2> QED BY <1>5, <2>1, <2>2
<1> QED BY <1>3, <1>4, <1>5

\* A row: one line, its cells cut at the tabs and read.
RowReadBack(row, vs, dict) ==
    /\ Unbroken(row) /\ Strip(row) = row /\ row # <<>>
    /\ DecPrims(SplitOn(row, {"tab"}), Known(dict)) = vs

LEMMA RowIsReadBack ==
    ASSUME NEW G, Marks \subseteq G, NEW dict, Readable(dict, G),
           NEW vs \in Seq(Primitives(G)), vs # <<>>, \A i \in 1..Len(vs) : PlainPrim(vs[i])
    PROVE  RowReadBack(EncVals(vs, dict, "tab"), vs, dict)
<1>1. PICK n \in Nat : n = Len(vs) /\ n >= 1
    BY TextIs
<1>2. PICK ts \in Seq(Seq(G)) :
          /\ ts = Tokens(vs, dict) /\ Len(ts) = n /\ DecPrims(ts, Known(dict)) = vs
          /\ \A i \in 1..n : StandsAlone(ts[i], G)
    BY <1>1, TokensAre
<1>3. "tab" \in G
    BY DEF Marks, Escaped
<1>4. ts # <<>>
    BY <1>1, <1>2, TextIs
<1>5. PICK F \in Seq(G) : F = Join(ts, "tab") /\ \E c : Joined(c, ts, F, "tab")
    BY <1>3, <1>4, JoinIs
<1>6. PICK c : Joined(c, ts, F, "tab")
    BY <1>5
<1>7. EncVals(vs, dict, "tab") = F
    BY <1>2, <1>5 DEF EncVals, Tokens
<1>8. \A i \in 1..n : /\ ts[i] # <<>> /\ Trim(ts[i])
                      /\ \A k \in 1..Len(ts[i]) : ts[i][k] \notin LineBreaks /\ ts[i][k] # "tab"
    BY <1>2 DEF StandsAlone
<1>9. SplitOn(F, {"tab"}) = ts
  <2>1. Without(ts, "tab")
      BY <1>2, <1>8 DEF Without
  <2> QED BY <1>3, <1>4, <1>5, <2>1, SplitIsJoined
<1>10. F # <<>> /\ Trim(F)
    BY <1>2, <1>4, <1>6, <1>8, JoinedEnds
<1>11. Strip(F) = F
    BY <1>10, StripTrim
<1>12. Unbroken(F)
  <2>1. "tab" \notin LineBreaks
      BY DEF LineBreaks
  <2>2. \A p \in 1..Len(F) : F[p] \notin LineBreaks
      BY <1>2, <1>6, <1>8, <2>1, JoinedGlyphs
  <2>3. ToSet(F) = {F[p] : p \in 1..Len(F)}
      BY TextIs
  <2> QED BY <2>2, <2>3 DEF Unbroken
<1>13. RowReadBack(F, vs, dict)
    BY <1>2, <1>9, <1>10, <1>11, <1>12 DEF RowReadBack
<1> QED BY <1>7, <1>13

\* A token CsvSplit leaves alone: without quotes and commas, or between the
\* only two quotes it has.
Bare(t) == \A k \in 1..Len(t) : t[k] # Q /\ t[k] # Comma
Quoted(t) ==
    Len(t) >= 2 /\ t[1] = Q /\ t[Len(t)] = Q /\ \A k \in 2..Len(t) - 1 : t[k] # Q

LEMMA QuotesIn ==
    ASSUME NEW t, Len(t) \in Nat
    PROVE  /\ QuotesUpTo(t, 0) = 0
           /\ Bare(t) => \A k \in 0..Len(t) : QuotesUpTo(t, k) = 0
           /\ Quoted(t) => /\ \A k \in 1..Len(t) - 1 : QuotesUpTo(t, k) = 1
                           /\ QuotesUpTo(t, Len(t)) = 2
<1>1. PICK n \in Nat : n = Len(t)
    OBVIOUS
<1>2. Cardinality({}) = 0 /\ Cardinality({1}) = 1
    BY FS_EmptySet, FS_Singleton
<1>3. QuotesUpTo(t, 0) = 0
  <2>1. {j \in 1..0 : t[j] = Q} = {}
      OBVIOUS
  <2> QED BY <1>2, <2>1 DEF QuotesUpTo
<1>4. ASSUME Bare(t), NEW k \in 0..n PROVE QuotesUpTo(t, k) = 0
  <2>1. \A j \in 1..k : t[j] # Q
    <3>1. \A j \in 1..k : j \in 1..n
        OBVIOUS
    <3> QED BY <1>1, <1>4, <3>1 DEF Bare
  <2>2. {j \in 1..k : t[j] = Q} = {}
      BY <2>1
  <2> QED BY <1>2, <2>2 DEF QuotesUpTo
<1>5. ASSUME Quoted(t) PROVE n >= 2 /\ t[1] = Q /\ t[n] = Q /\ \A j \in 2..n - 1 : t[j] # Q
    BY <1>1, <1>5 DEF Quoted
<1>6. ASSUME Quoted(t), NEW k \in 1..n - 1 PROVE QuotesUpTo(t, k) = 1
  <2>1. \A j \in 1..k : j = 1 \/ j \in 2..n - 1
      OBVIOUS
  <2>2. {j \in 1..k : t[j] = Q} = {1}
      BY <1>5, <1>6, <2>1
  <2> QED BY <1>2, <2>2 DEF QuotesUpTo
<1>7. ASSUME Quoted(t) PROVE QuotesUpTo(t, n) = 2
  <2>1. \A j \in 1..n : j = 1 \/ j = n \/ j \in 2..n - 1
      OBVIOUS
  <2>2. 1 \in 1..n /\ n \in 1..n /\ n # 1
      BY <1>5, <1>7
  <2>3. {j \in 1..n : t[j] = Q} = {1} \cup {n}
      BY <1>5, <1>7, <2>1, <2>2
  <2>4. IsFiniteSet({1}) /\ n \notin {1}
      BY <2>2, FS_Singleton
  <2>5. Cardinality({1} \cup {n}) = 2
    <3>1. Cardinality({1} \cup {n}) = Cardinality({1}) + 1
        BY <2>4, FS_AddElement
    <3>2. 1 + 1 = 2
        OBVIOUS
    <3> QED BY <1>2, <3>1, <3>2, Zenon
  <2> QED BY <2>3, <2>5 DEF QuotesUpTo
<1> QED BY <1>1, <1>3, <1>4, <1>6, <1>7

\* The quotes up to a place in a token that stands behind place a of F.
Stands(F, a, t, m) == \A k \in 1..m : F[a + k] = t[k]

LEMMA QuotesBehind ==
    ASSUME NEW F, NEW t, NEW a \in Nat, NEW m \in Nat, Stands(F, a, t, m)
    PROVE  /\ QuotesUpTo(F, a) \in Nat /\ QuotesUpTo(t, m) \in Nat
           /\ QuotesUpTo(F, a + m) = QuotesUpTo(F, a) + QuotesUpTo(t, m)
<1> DEFINE A == {j \in 1..a : F[j] = Q}
           T == {j \in 1..m : t[j] = Q}
           U == {a + j : j \in T}
           g == [j \in T |-> a + j]
<1>0. \A k \in 1..m : F[a + k] = t[k]
    BY DEF Stands
<1>1. IsFiniteSet(1..a) /\ IsFiniteSet(1..m)
    BY FS_Interval
<1>2. IsFiniteSet(A) /\ IsFiniteSet(T)
    BY <1>1, FS_Subset
<1>3. g \in Bijection(T, U)
  <2>1. \A i \in T : \A j \in T : a + i = a + j => i = j
      OBVIOUS
  <2>2. g \in [T -> U] /\ \A u \in U : \E j \in T : g[j] = u
      OBVIOUS
  <2>3. \A i \in T : \A j \in T : g[i] = g[j] => i = j
      BY <2>1
  <2> HIDE DEF T, U, g
  <2> QED BY <2>2, <2>3, Zenon DEF Bijection, Injection, Surjection, IsInjective
<1>4. {j \in 1..a + m : F[j] = Q} = A \cup U
  <2>1. ASSUME NEW j \in 1..a + m, F[j] = Q PROVE j \in A \cup U
    <3>1. CASE j \in 1..a
        BY <2>1, <3>1
    <3>2. CASE j \notin 1..a
      <4>1. PICK k \in 1..m : j = a + k
        <5>1. j - a \in 1..m /\ j = a + (j - a)
            BY <3>2
        <5> QED BY <5>1
      <4>2. t[k] = Q
          BY <1>0, <2>1, <4>1
      <4> QED BY <4>1, <4>2
    <3> QED BY <3>1, <3>2
  <2>2. ASSUME NEW j \in A PROVE j \in 1..a + m /\ F[j] = Q
      OBVIOUS
  <2>3. ASSUME NEW j \in T PROVE a + j \in 1..a + m /\ F[a + j] = Q
      BY <1>0
  <2> QED BY <2>1, <2>2, <2>3
<1>5. A \cap U = {}
    OBVIOUS
<1>6. QuotesUpTo(F, a) = Cardinality(A) /\ QuotesUpTo(t, m) = Cardinality(T)
      /\ QuotesUpTo(F, a + m) = Cardinality(A \cup U)
    BY <1>4 DEF QuotesUpTo
<1> HIDE DEF A, T, U, g
<1>7. IsFiniteSet(U) /\ Cardinality(U) = Cardinality(T)
    BY <1>2, <1>3, FS_Bijection DEF ExistsBijection
<1>8. Cardinality(A) \in Nat /\ Cardinality(T) \in Nat
    BY <1>2, FS_CardinalityType
<1>9. Cardinality(A \cup U) = Cardinality(A) + Cardinality(T)
  <2>1. Cardinality(A \cap U) = 0
      BY <1>5, FS_EmptySet
  <2>2. Cardinality(A \cup U) = Cardinality(A) + Cardinality(U) - Cardinality(A \cap U)
      BY <1>2, <1>7, FS_Union
  <2> QED BY <1>7, <1>8, <2>1, <2>2
<1> QED BY <1>6, <1>8, <1>9

\* A token that is bare or quoted has no doubled quote.
LEMMA UndoubledIs ==
    ASSUME NEW G, NEW t \in Seq(G), Bare(t) \/ Quoted(t)
    PROVE  Undoubled(t) = t
<1>1. PICK n \in Nat : n = Len(t) /\ DOMAIN t = 1..n
    BY TextIs
<1>2. ASSUME NEW i \in 1..n, i > 1, t[i] = Q, t[i - 1] = Q, InQuotes(t, i - 1) PROVE FALSE
  <2>1. CASE Bare(t)
      BY <1>1, <1>2, <2>1 DEF Bare
  <2>2. CASE Quoted(t)
    <3>1. \A k \in 2..n - 1 : t[k] # Q
        BY <1>1, <2>2 DEF Quoted
    <3>2. i = n /\ i - 1 = 1
      <4>1. i \notin 2..n - 1 /\ i - 1 \notin 2..n - 1
          BY <1>2, <3>1
      <4> QED BY <1>2, <4>1
    <3>3. QuotesUpTo(t, (i - 1) - 1) = 0
      <4>1. (i - 1) - 1 = 0
          BY <3>2
      <4> QED BY <1>1, <4>1, QuotesIn
    <3>4. QuotesUpTo(t, (i - 1) - 1) % 2 = 1
        BY <1>2 DEF InQuotes
    <3> QED BY <3>3, <3>4
  <2> QED BY <2>1, <2>2
<1> DEFINE rest == {i \in DOMAIN t : ~(i > 1 /\ t[i] = Q /\ t[i - 1] = Q /\ InQuotes(t, i - 1))}
<1>3. rest = 1..n
    BY <1>1, <1>2
<1>4. PICK c : c = [i \in 1..n |-> i]
    OBVIOUS
<1>5. InOrder(1..n) = [i \in 1..n |-> c[i]]
  <2>1. Rising(c, n)
    <3>1. ASSUME NEW i \in 1..n - 1 PROVE c[i] < c[i + 1]
      <4>1. i \in 1..n /\ i + 1 \in 1..n
          OBVIOUS
      <4> QED BY <1>4, <4>1
    <3>2. \A i \in 1..n : c[i] \in Int
        BY <1>4
    <3> QED BY <3>1, <3>2 DEF Rising
  <2>2. 1..n = {c[i] : i \in 1..n}
      BY <1>4
  <2> QED BY <2>1, <2>2, InOrderIs
<1>6. InOrder(1..n) = c
    BY <1>4, <1>5
<1>7. Undoubled(t) = [i \in DOMAIN InOrder(rest) |-> t[InOrder(rest)[i]]]
    BY DEF Undoubled
<1>8. Undoubled(t) = [i \in 1..n |-> t[i]]
  <2>1. InOrder(rest) = c
      BY <1>3, <1>6
  <2>2. DOMAIN c = 1..n /\ \A i \in 1..n : c[i] = i
      BY <1>4
  <2> HIDE DEF rest
  <2> QED BY <1>7, <2>1, <2>2
<1>9. t = [i \in 1..n |-> t[i]]
    BY <1>1
<1> QED BY <1>8, <1>9

\* Between tokens the scan is outside quotes, and at a comma within one inside.
Elements(ss) == \A i \in 1..Len(ss) : Bare(ss[i]) \/ Quoted(ss[i])

EvenNat == {q \in Nat : q % 2 = 0}

LEMMA EvenAnd ==
    /\ 0 \in EvenNat
    /\ \A q \in EvenNat : q + 0 \in EvenNat /\ q + 2 \in EvenNat /\ (q + 1) % 2 = 1 /\ q % 2 # 1
<1>1. 0 \in EvenNat
    BY DEF EvenNat
<1>2. ASSUME NEW q \in EvenNat
      PROVE  q + 0 \in EvenNat /\ q + 2 \in EvenNat /\ (q + 1) % 2 = 1 /\ q % 2 # 1
  <2>1. q \in Nat /\ q % 2 = 0
      BY DEF EvenNat
  <2>2. (q + 2) % 2 = 0 /\ (q + 1) % 2 = 1
      BY <2>1
  <2> QED BY <2>1, <2>2 DEF EvenNat
<1> QED BY <1>1, <1>2

LEMMA CommasAre ==
    ASSUME NEW G, NEW ss \in Seq(Seq(G)), ss # <<>>, Elements(ss), NEW F \in Seq(G), NEW c,
           Joined(c, ss, F, Comma)
    PROVE  {p \in DOMAIN F : F[p] = Comma /\ ~InQuotes(F, p)} = Separators(c, Len(ss))
<1>1. PICK n \in Nat : n = Len(ss) /\ n >= 1 /\ \A i \in 1..n : Len(ss[i]) \in Nat
  <2>1. Len(ss) \in Nat /\ Len(ss) >= 1 /\ \A i \in 1..Len(ss) : ss[i] \in Seq(G)
      BY TextIs
  <2>2. \A i \in 1..Len(ss) : Len(ss[i]) \in Nat
      BY <2>1, TextIs
  <2> QED BY <2>1, <2>2
<1>2. PICK N \in Nat : N = Len(F) /\ DOMAIN F = 1..N
    BY TextIs
<1>3. /\ c[0] = 0
      /\ \A i \in 1..n : /\ \A k \in 1..Len(ss[i]) : F[c[i - 1] + k] = ss[i][k]
                         /\ i < n => F[c[i]] = Comma
      /\ \A p \in 1..N :
            \/ \E i \in 1..n - 1 : p = c[i]
            \/ \E i \in 1..n : \E k \in 1..Len(ss[i]) : p = c[i - 1] + k
    BY <1>1, <1>2 DEF Joined
<1>4. /\ \A i \in 1..n - 1 : c[i] \in 1..N
      /\ \A i \in 1..n : c[i - 1] \in Nat /\ c[i] = c[i - 1] + Len(ss[i]) + 1
  <2>1. TokenPlaces(c, ss, n, N)
      BY <1>1, <1>2, SeparatorPlace
  <2> QED BY <2>1 DEF TokenPlaces
<1>5. ASSUME NEW i \in 1..n, QuotesUpTo(F, c[i - 1]) \in EvenNat
      PROVE  QuotesUpTo(F, c[i - 1] + Len(ss[i])) \in EvenNat
  <2>1. PICK x \in Nat, m \in Nat : x = c[i - 1] /\ m = Len(ss[i])
      BY <1>1, <1>4
  <2>2. Stands(F, x, ss[i], m)
      BY <1>3, <2>1 DEF Stands
  <2>3. QuotesUpTo(F, x + m) = QuotesUpTo(F, x) + QuotesUpTo(ss[i], m)
      BY <2>2, QuotesBehind
  <2>4. QuotesUpTo(ss[i], m) = 0 \/ QuotesUpTo(ss[i], m) = 2
    <3>1. Bare(ss[i]) \/ Quoted(ss[i])
        BY <1>1 DEF Elements
    <3>2. CASE Bare(ss[i])
      <4>1. m \in 0..Len(ss[i]) /\ Len(ss[i]) \in Nat
          BY <2>1
      <4> QED BY <3>2, <4>1, QuotesIn
    <3>3. CASE Quoted(ss[i])
      <4>1. Len(ss[i]) \in Nat
          BY <2>1
      <4> QED BY <2>1, <3>3, <4>1, QuotesIn
    <3> QED BY <3>1, <3>2, <3>3
  <2> QED BY <1>5, <2>1, <2>3, <2>4, EvenAnd
<1>6. \A i \in 1..n : QuotesUpTo(F, c[i - 1]) \in EvenNat
  <2>1. PICK M \in Nat : M = n - 1
    <3>1. n >= 1
        BY <1>1
    <3>2. n - 1 \in Nat
        BY <3>1
    <3> QED BY <3>2
  <2>2. PICK f : f = [i \in 0..M |-> QuotesUpTo(F, c[i])]
      OBVIOUS
  <2>3. PICK A : A = [i \in 0..M |-> EvenNat]
      OBVIOUS
  <2>4. f[0] \in A[0]
    <3>1. 0 \in 0..M
        OBVIOUS
    <3>2. Len(ss[1]) \in Nat
      <4>1. 1 \in 1..n
          BY <1>1
      <4> QED BY <1>1, <4>1
    <3>3. QuotesUpTo(F, 0) = 0
        BY <1>2, QuotesIn
    <3> QED BY <1>3, <2>2, <2>3, <3>1, <3>3, EvenAnd
  <2>5. ASSUME NEW i \in 1..M, f[i - 1] \in A[i - 1] PROVE f[i] \in A[i]
    <3>1. i \in 1..n /\ i < n /\ i \in 0..M /\ i - 1 \in 0..M
        BY <2>1
    <3>2. QuotesUpTo(F, c[i - 1]) \in EvenNat
        BY <2>2, <2>3, <2>5, <3>1
    <3>3. QuotesUpTo(F, c[i - 1] + Len(ss[i])) \in EvenNat
        BY <1>5, <3>1, <3>2
    <3>4. PICK y \in Nat : y = c[i - 1] + Len(ss[i]) /\ c[i] = y + 1
      <4>1. PICK x \in Nat, m \in Nat : x = c[i - 1] /\ m = Len(ss[i]) /\ c[i] = x + m + 1
          BY <1>1, <1>4, <3>1
      <4>2. x + m \in Nat
          OBVIOUS
      <4> QED BY <4>1, <4>2
    <3>5. F[y + 1] = Comma
        BY <1>3, <3>1, <3>4
    <3>6. QuotesUpTo(F, y + 1) = QuotesUpTo(F, y)
      <4>1. {j \in 1..y + 1 : F[j] = Q} = {j \in 1..y : F[j] = Q}
        <5>1. \A j : j \in 1..y + 1 <=> j \in 1..y \/ j = y + 1
            OBVIOUS
        <5> QED BY <3>5, <5>1, MarksDiffer
      <4> QED BY <4>1 DEF QuotesUpTo
    <3> QED BY <2>2, <2>3, <3>1, <3>3, <3>4, <3>6
  <2>6. \A i \in 0..M : f[i] \in A[i]
      BY <2>4, <2>5, LoopInvariant
  <2>7. ASSUME NEW i \in 1..n PROVE QuotesUpTo(F, c[i - 1]) \in EvenNat
    <3>1. i - 1 \in 0..M
        BY <2>1
    <3> QED BY <2>2, <2>3, <2>6, <3>1
  <2> QED BY <2>7
<1>7. ASSUME NEW i \in 1..n - 1 PROVE c[i] \in 1..N /\ F[c[i]] = Comma /\ ~InQuotes(F, c[i])
  <2>1. i \in 1..n /\ i < n
      BY <1>1
  <2>2. QuotesUpTo(F, c[i - 1] + Len(ss[i])) \in EvenNat
      BY <1>5, <1>6, <2>1
  <2>3. c[i] - 1 = c[i - 1] + Len(ss[i])
    <3>1. PICK x \in Nat, m \in Nat : x = c[i - 1] /\ m = Len(ss[i]) /\ c[i] = x + m + 1
        BY <1>1, <1>4, <2>1
    <3>2. (x + m + 1) - 1 = x + m
        OBVIOUS
    <3> QED BY <3>1, <3>2
  <2>4. ~InQuotes(F, c[i])
      BY <2>2, <2>3, EvenAnd DEF InQuotes
  <2> QED BY <1>3, <1>4, <2>1, <2>4
<1>8. ASSUME NEW i \in 1..n, NEW k \in 1..Len(ss[i]), F[c[i - 1] + k] = Comma
      PROVE  InQuotes(F, c[i - 1] + k)
  <2>1. PICK x \in Nat, m \in Nat : x = c[i - 1] /\ m = Len(ss[i])
      BY <1>1, <1>4
  <2>2. (\A j \in 1..m : F[x + j] = ss[i][j]) /\ ss[i][k] = Comma /\ k \in 1..m
      BY <1>3, <1>8, <2>1
  <2>3. Quoted(ss[i])
    <3>1. Bare(ss[i]) \/ Quoted(ss[i])
        BY <1>1 DEF Elements
    <3>2. ~Bare(ss[i])
        BY <2>1, <2>2 DEF Bare
    <3> QED BY <3>1, <3>2
  <2>4. k - 1 \in 1..m - 1 /\ k - 1 \in Nat
    <3>1. k # 1 /\ k # m
        BY <2>1, <2>2, <2>3, MarksDiffer DEF Quoted
    <3> QED BY <2>2, <3>1
  <2>5. QuotesUpTo(ss[i], k - 1) = 1
      BY <2>1, <2>3, <2>4, QuotesIn
  <2>6. QuotesUpTo(F, x + (k - 1)) = QuotesUpTo(F, x) + 1
    <3>1. Stands(F, x, ss[i], k - 1)
        BY <2>2 DEF Stands
    <3>2. QuotesUpTo(F, x + (k - 1)) = QuotesUpTo(F, x) + QuotesUpTo(ss[i], k - 1)
        BY <2>4, <3>1, QuotesBehind
    <3> QED BY <2>5, <3>2
  <2>7. QuotesUpTo(F, x) \in EvenNat
      BY <1>6, <2>1
  <2>8. (x + k) - 1 = x + (k - 1)
      BY <2>2
  <2>9. InQuotes(F, x + k)
      BY <2>6, <2>7, <2>8, EvenAnd DEF InQuotes
  <2> QED BY <2>1, <2>9
<1>9. ASSUME NEW p \in 1..N, F[p] = Comma, ~InQuotes(F, p) PROVE p \in Separators(c, n)
  <2>1. ASSUME NEW i \in 1..n, NEW k \in 1..Len(ss[i]), p = c[i - 1] + k PROVE FALSE
    <3>1. F[c[i - 1] + k] = Comma /\ ~InQuotes(F, c[i - 1] + k)
        BY <1>9, <2>1
    <3> QED BY <1>8, <3>1
  <2>2. \E i \in 1..n - 1 : p = c[i]
      BY <1>3, <2>1
  <2> QED BY <2>2 DEF Separators
<1>10. {p \in 1..N : F[p] = Comma /\ ~InQuotes(F, p)} = Separators(c, n)
    BY <1>7, <1>9 DEF Separators
<1> QED BY <1>1, <1>2, <1>10

\* Joined by commas, bare and quoted tokens are split and left as they were.
LEMMA CsvIsJoined ==
    ASSUME NEW G, Comma \in G, NEW ss \in Seq(Seq(G)), ss # <<>>, Elements(ss)
    PROVE  CsvSplit(Join(ss, Comma)) = ss
<1>1. PICK F \in Seq(G) : F = Join(ss, Comma) /\ \E c : Joined(c, ss, F, Comma)
    BY JoinIs
<1>2. PICK c : Joined(c, ss, F, Comma)
    BY <1>1
<1>3. CutAt(F, Separators(c, Len(ss))) = ss
    BY <1>2, CutIsJoined
<1> DEFINE commas == {p \in DOMAIN F : F[p] = Comma /\ ~InQuotes(F, p)}
<1>4. commas = Separators(c, Len(ss))
    BY <1>2, CommasAre
<1>5. CsvSplit(F) = [i \in DOMAIN CutAt(F, commas) |-> Undoubled(CutAt(F, commas)[i])]
    BY Zenon DEF CsvSplit, Comma
<1>6. CsvSplit(F) = [i \in DOMAIN ss |-> Undoubled(ss[i])]
  <2> HIDE DEF commas
  <2> QED BY <1>3, <1>4, <1>5
<1>7. PICK n \in Nat : n = Len(ss) /\ DOMAIN ss = 1..n /\ \A i \in 1..n : ss[i] \in Seq(G)
    BY TextIs
<1>8. ASSUME NEW i \in 1..n PROVE Undoubled(ss[i]) = ss[i]
    BY <1>7, UndoubledIs DEF Elements
<1>9. ss = [i \in 1..n |-> ss[i]]
    BY <1>7
<1> QED BY <1>1, <1>6, <1>7, <1>8, <1>9

\* A plain element's token is one CsvSplit leaves alone.
LEMMA DumpsQuoted ==
    ASSUME NEW G, Marks \subseteq G, NEW s \in Seq(G), Q \notin ToSet(s)
    PROVE  Quoted(Dumps(s))
<1>1. PICK m \in Nat : m = Len(Inner(s))
    BY InnerIs, TextIs
<1>2. PICK d \in Nat : d = Len(Dumps(s)) /\ d = m + 2
    BY <1>1, DumpsIs
<1>3. Dumps(s)[1] = Q /\ Dumps(s)[d] = Q
    BY <1>1, <1>2, DumpsIs
<1>4. \A i \in 1..m : Dumps(s)[i + 1] = Inner(s)[i]
    BY <1>1, DumpsIs
<1>5. \A p \in 1..m : Inner(s)[p] # Q
    BY <1>1, InnerQuotes
<1>6. ASSUME NEW k \in 2..d - 1 PROVE Dumps(s)[k] # Q
  <2>1. k - 1 \in 1..m /\ (k - 1) + 1 = k
      BY <1>2
  <2> QED BY <1>4, <1>5, <2>1
<1> QED BY <1>2, <1>3, <1>6 DEF Quoted

LEMMA ShortenedBare ==
    ASSUME NEW G, Marks \subseteq G, NEW dict, Readable(dict, G), NEW i \in 1..Len(dict),
           dict[i].is_prefix, NEW s \in Seq(G), PlainString(s), Q \notin ToSet(s),
           MayLosePrefix(s) => Comma \notin ToSet(s),
           NEW t, Shortened(t, s, dict[i].value, i)
    PROVE  Bare(t)
<1>1. MayLosePrefix(s)
    BY ShortenedReadBack
<1>2. i \in Named
    BY DEF Readable, Named
<1>3. PICK p \in Seq(G) : p = dict[i].value
    BY DEF Readable, PlainEntries
<1>4. PICK n \in Nat, m \in Nat : n = Len(s) /\ m = Len(p)
    BY TextIs
<1>5. ShortenedForm(t, s, p, i, n, m, G)
  <2>1. ShortenedForm(t, s, p, i, Len(s), Len(p), G)
      BY <1>2, <1>3, ShortenedIs
  <2> QED BY <1>4, <2>1
<1>6. /\ m \in 0..n /\ Len(t) = 4 + (n - m)
      /\ t[1] = Open /\ t[2] = "$" /\ t[3] = Numeral(i - 1) /\ t[4] = Close
      /\ \A k \in 1..n - m : t[4 + k] = s[m + k]
    BY <1>5 DEF ShortenedForm
<1>7. t[3] \in {"0", "1", "2", "3", "4"}
    BY <1>2, <1>6, TokenIs
<1>8. /\ \A g \in {"0", "1", "2", "3", "4"} : g # Q /\ g # Comma
      /\ "$" # Q /\ "$" # Comma /\ Open # Q /\ Open # Comma /\ Close # Q /\ Close # Comma
  <2>1. \A g \in {"$", "0", "1", "2", "3", "4"} : g # Q
      BY DEF Q
  <2> QED BY <2>1, MarksDiffer
<1>9. \A k \in 1..n : s[k] # Q /\ s[k] # Comma
  <2>1. \A k \in 1..n : s[k] \in ToSet(s)
      BY <1>4, TextIs
  <2> QED BY <1>1, <2>1
<1>10. ASSUME NEW k \in 1..Len(t) PROVE t[k] # Q /\ t[k] # Comma
  <2>1. CASE k \in 1..4
    <3>1. k = 1 \/ k = 2 \/ k = 3 \/ k = 4
        BY <2>1
    <3> QED BY <1>6, <1>7, <1>8, <3>1
  <2>2. CASE k \notin 1..4
    <3>1. PICK j \in 1..n - m : k = 4 + j
      <4>1. k - 4 \in 1..n - m /\ k = 4 + (k - 4)
          BY <1>6, <2>2
      <4> QED BY <4>1
    <3>2. t[k] = s[m + j] /\ m + j \in 1..n
        BY <1>6, <3>1
    <3> QED BY <1>9, <3>2
  <2> QED BY <2>1, <2>2
<1> QED BY <1>10 DEF Bare

LEMMA ElementToken ==
    ASSUME NEW G, Marks \subseteq G, NEW dict, Readable(dict, G),
           NEW v \in Primitives(G), PlainElement(v)
    PROVE  Bare(EncVal(v, dict)) \/ Quoted(EncVal(v, dict))
<1>1. PlainPrim(v)
    BY DEF PlainElement
<1>2. CASE v[1] = "str"
  <2>1. PICK s \in Seq(G) : v = Str(s) /\ PlainString(s) /\ v[2] = s
      BY <1>1, <1>2 DEF Primitives, PlainPrim, Str
  <2>2. EncVal(v, dict) = EncStr(s, dict)
      BY <1>2, <2>1 DEF EncVal
  <2>3. Q \notin ToSet(s) /\ (MayLosePrefix(s) => Comma \notin ToSet(s))
    <3>1. Q \notin ToSet(v[2]) /\ (MayLosePrefix(v[2]) => "," \notin ToSet(v[2]))
        BY <1>2, Zenon DEF PlainElement
    <3> QED BY <2>1, <3>1, Zenon DEF Comma
  <2>4. ASSUME NEW i \in 1..Len(dict), Whole(EncStr(s, dict), s, dict, i) PROVE Bare(EncStr(s, dict))
    <3>1. PICK t : t = EncStr(s, dict)
        OBVIOUS
    <3>2. Len(t) = 2 /\ t[1] = "$" /\ t[2] \in {"0", "1", "2", "3", "4"}
        BY <2>1, <2>4, <3>1, WholeReadBack
    <3>3. \A g \in {"$", "0", "1", "2", "3", "4"} : g # Q /\ g # Comma
        BY MarksDiffer DEF Q
    <3>4. \A k \in 1..2 : k = 1 \/ k = 2
        OBVIOUS
    <3>5. Bare(t)
        BY <3>2, <3>3, <3>4 DEF Bare
    <3> QED BY <3>1, <3>5
  <2>5. ASSUME NEW i \in 1..Len(dict), dict[i].is_prefix,
               Shortened(EncStr(s, dict), s, dict[i].value, i)
        PROVE  Bare(EncStr(s, dict))
      BY <2>1, <2>3, <2>5, ShortenedBare
  <2>6. ASSUME EncStr(s, dict) = Ep(Str(s)) PROVE Bare(EncStr(s, dict)) \/ Quoted(EncStr(s, dict))
    <3>1. PICK t \in Seq(G) : /\ t = EncStr(s, dict)
                              /\ t = Dumps(s) \/ (t = s /\ Safe(s))
        BY <2>6, EpStringReadBack
    <3>2. CASE t = Dumps(s)
        BY <2>3, <3>1, <3>2, DumpsQuoted
    <3>3. CASE t = s /\ Safe(s)
      <4>1. \A k \in 1..Len(t) : t[k] \notin Unsafe
          BY <3>3, SafeIs
      <4>2. Q \in Unsafe /\ Comma \in Unsafe
          BY Zenon DEF Unsafe, Comma
      <4>3. Bare(t)
          BY <4>1, <4>2 DEF Bare
      <4> QED BY <3>1, <4>3
    <3> QED BY <3>1, <3>2, <3>3
  <2> QED BY <2>2, <2>4, <2>5, <2>6, EncStrForms
<1>3. CASE v[1] # "str"
  <2>1. PICK t : /\ t = EncVal(v, dict)
                 /\ t \in Seq(Numerals \cup {".", "-", "null", "true", "false"})
      BY <1>1, <1>3, OtherReadBack DEF EncVal
  <2>2. \A k \in 1..Len(t) : t[k] \in Numerals \cup {".", "-", "null", "true", "false"}
      BY <2>1, TextIs
  <2>3. \A g \in Numerals \cup {".", "-", "null", "true", "false"} : g # Q /\ g # Comma
    <3>1. \A g \in Numerals \cup {".", "-", "null", "true", "false"} : g # Q
        BY DEF Numerals, Q
    <3>2. \A g \in Numerals \cup {".", "-", "null", "true", "false"} : g # Comma
        BY Zenon DEF Numerals, Comma
    <3> QED BY <3>1, <3>2
  <2>4. Bare(t)
      BY <2>2, <2>3 DEF Bare
  <2> QED BY <2>1, <2>4
<1> QED BY <1>2, <1>3

\* A blank before a token is stripped.
LEMMA StripBlank ==
    ASSUME NEW G, "space" \in G, NEW t \in Seq(G), t # <<>>, Trim(t)
    PROVE  Strip(<<"space">> \o t) = t
<1>1. PICK n \in Nat : n = Len(t) /\ n >= 1
    BY TextIs
<1>2. t[1] \notin Blanks /\ t[n] \notin Blanks
    BY <1>1 DEF Trim
<1>3. PICK a \in Seq(G) : a = <<"space">> /\ Len(a) = 1 /\ a[1] = "space"
    BY GlyphIs
<1>4. PICK y \in Seq(G) : y = a \o t /\ IsBehind(y, a, t)
    BY ConcatIsBehind
<1>5. Len(y) = 1 + n /\ y[1] = "space" /\ \A k \in 1..n : y[1 + k] = t[k]
  <2>1. 1 \in 1..Len(a)
      BY <1>3
  <2> QED BY <1>1, <1>3, <1>4, <2>1 DEF IsBehind
<1>6. y[2] \notin Blanks /\ y[n + 1] \notin Blanks
  <2>1. 1 \in 1..n /\ n \in 1..n /\ 1 + 1 = 2 /\ 1 + n = n + 1
      BY <1>1
  <2> QED BY <1>2, <1>5, <2>1
<1> DEFINE solid == {i \in DOMAIN y : y[i] \notin Blanks}
<1>7. 2 \in solid /\ n + 1 \in solid /\ solid \in SUBSET Int
      /\ \A i \in solid : 2 <= i /\ n + 1 >= i
  <2>1. DOMAIN y = 1..n + 1
      BY <1>5, TextIs
  <2>2. 2 \in 1..n + 1 /\ n + 1 \in 1..n + 1
      BY <1>1
  <2>3. "space" \in Blanks
      BY DEF Blanks
  <2>4. \A i \in solid : i \in 1..n + 1 /\ i # 1
      BY <1>5, <2>1, <2>3
  <2> QED BY <1>6, <2>1, <2>2, <2>4
<1>8. Strip(y) = Piece(y, Min(solid), Max(solid))
  <2>1. solid # {}
      BY <1>7
  <2> QED BY <2>1 DEF Strip
<1> HIDE DEF solid
<1>9. Min(solid) = 2 /\ Max(solid) = n + 1
  <2>1. Min(solid) = 2
      BY <1>7, MinIs
  <2>2. Max(solid) = n + 1
      BY <1>7, MaxIs
  <2> QED BY <2>1, <2>2
<1>10. Strip(y) = From(y, 1 + 1)
    BY <1>5, <1>8, <1>9 DEF From, Piece
<1>11. /\ From(y, 1 + 1) \in Seq(G) /\ Len(From(y, 1 + 1)) = Len(y) - 1
       /\ \A i \in 1..Len(y) - 1 : From(y, 1 + 1)[i] = y[1 + i]
  <2>1. 1 \in 0..Len(y)
      BY <1>5
  <2> QED BY <2>1, RestIs
<1>12. Strip(y) = t
  <2>1. PICK z \in Seq(G) : z = From(y, 1 + 1) /\ Len(z) = n /\ \A i \in 1..n : z[i] = y[1 + i]
    <3>1. Len(y) - 1 = n
        BY <1>5
    <3> QED BY <1>11, <3>1
  <2>2. Len(z) = Len(t) /\ \A i \in 1..Len(z) : z[i] = t[i]
      BY <1>1, <1>5, <2>1
  <2>3. z = t
      BY <2>2, SeqEqual
  <2> QED BY <1>10, <2>1, <2>3
<1> QED BY <1>3, <1>4, <1>12

\* The size on an array's line.
LEMMA SizeIs ==
    ASSUME NEW n \in 0..4
    PROVE  /\ Numeral(n) \in {"0", "1", "2", "3", "4"} /\ Numeral(n) \in Digits
           /\ ValueOf(Numeral(n)) = n
<1>1. n + 1 \in Named /\ (n + 1) - 1 = n
    BY DEF Named
<1>2. Numeral(n) \in {"0", "1", "2", "3", "4"}
    BY <1>1, TokenIs
<1>3. \A m \in 0..4 : Numeral(m) = Numeral(n) => m = n
  <2>1. TAKE m \in 0..4
  <2>2. m + 1 \in Named /\ (m + 1) - 1 = m
      BY DEF Named
  <2>3. Numeral(m) = Numeral(n) => Token(m + 1) = Token(n + 1)
      BY <1>1, <2>2 DEF Token
  <2>4. Token(m + 1) = Token(n + 1) => m + 1 = n + 1
      BY <1>1, <2>2, TokenIs
  <2> QED BY <2>3, <2>4
<1>4. ValueOf(Numeral(n)) = n
    BY <1>3 DEF ValueOf
<1>5. Numeral(n) \in Digits
    BY <1>2, DigitsAre DEF Numerals
<1> QED BY <1>2, <1>4, <1>5

\* The text of an array's line: its size in brackets, a blank, the values.
SizedText(L, d, A, G) ==
    /\ L \in Seq(G) /\ Len(L) = 4 + Len(A)
    /\ L[1] = "[" /\ L[2] = d /\ L[3] = "]" /\ L[4] = "space"
    /\ \A k \in 1..Len(A) : L[4 + k] = A[k]
    /\ From(L, 4) = <<"space">> \o A

LEMMA SizedTextIs ==
    ASSUME NEW G, Marks \subseteq G, NEW d \in G, NEW A \in Seq(G)
    PROVE  SizedText(<<"[", d, "]", "space">> \o A, d, A, G)
<1>1. PICK n \in Nat : n = Len(A)
    BY TextIs
<1>2. PICK h \in Seq(G) : /\ h = <<"[", d, "]", "space">> /\ Len(h) = 4
                          /\ h[1] = "[" /\ h[2] = d /\ h[3] = "]" /\ h[4] = "space"
  <2>1. "[" \in G /\ "]" \in G /\ "space" \in G
      BY DEF Marks
  <2>2. /\ <<"[", d, "]", "space">> \in Seq(G) /\ Len(<<"[", d, "]", "space">>) = 4
        /\ <<"[", d, "]", "space">>[1] = "[" /\ <<"[", d, "]", "space">>[2] = d
        /\ <<"[", d, "]", "space">>[3] = "]" /\ <<"[", d, "]", "space">>[4] = "space"
      BY <2>1
  <2> QED BY <2>2
<1>3. PICK L \in Seq(G) : L = h \o A /\ IsBehind(L, h, A)
    BY ConcatIsBehind
<1>4. /\ Len(L) = 4 + n
      /\ L[1] = "[" /\ L[2] = d /\ L[3] = "]" /\ L[4] = "space"
      /\ \A k \in 1..n : L[4 + k] = A[k]
  <2>1. 1 \in 1..Len(h) /\ 2 \in 1..Len(h) /\ 3 \in 1..Len(h) /\ 4 \in 1..Len(h)
      BY <1>2
  <2> QED BY <1>1, <1>2, <1>3, <2>1 DEF IsBehind
<1>5. PICK y \in Seq(G) : /\ y = <<"space">> \o A /\ Len(y) = 1 + n /\ y[1] = "space"
                          /\ \A k \in 1..n : y[1 + k] = A[k]
  <2>1. PICK a \in Seq(G) : a = <<"space">> /\ Len(a) = 1 /\ a[1] = "space"
    <3>1. "space" \in G
        BY DEF Marks
    <3> QED BY <3>1, GlyphIs
  <2>2. PICK y \in Seq(G) : y = a \o A /\ IsBehind(y, a, A)
      BY ConcatIsBehind
  <2>3. 1 \in 1..Len(a)
      BY <2>1
  <2> QED BY <1>1, <2>1, <2>2, <2>3 DEF IsBehind
<1>6. PICK z \in Seq(G) : z = From(L, 4) /\ Len(z) = 1 + n /\ \A i \in 1..1 + n : z[i] = L[3 + i]
  <2>1. /\ From(L, 3 + 1) \in Seq(G) /\ Len(From(L, 3 + 1)) = Len(L) - 3
        /\ \A i \in 1..Len(L) - 3 : From(L, 3 + 1)[i] = L[3 + i]
    <3>1. 3 \in 0..Len(L)
        BY <1>4
    <3> QED BY <3>1, RestIs
  <2>2. Len(L) - 3 = 1 + n /\ 3 + 1 = 4
      BY <1>4
  <2> QED BY <2>1, <2>2
<1>7. z = y
  <2>1. ASSUME NEW i \in 1..1 + n PROVE z[i] = y[i]
    <3>1. z[i] = L[3 + i]
        BY <1>6
    <3>2. CASE i = 1
      <4>1. 3 + 1 = 4
          OBVIOUS
      <4> QED BY <1>4, <1>5, <3>1, <3>2, <4>1
    <3>3. CASE i # 1
      <4>1. PICK k \in 1..n : i = 1 + k /\ 3 + i = 4 + k
        <5>1. i - 1 \in 1..n /\ i = 1 + (i - 1) /\ 3 + i = 4 + (i - 1)
            BY <3>3
        <5> QED BY <5>1
      <4> QED BY <1>4, <1>5, <3>1, <4>1
    <3> QED BY <3>2, <3>3
  <2>2. Len(z) = Len(y) /\ \A i \in 1..Len(z) : z[i] = y[i]
      BY <1>5, <1>6, <2>1
  <2> QED BY <2>2, SeqEqual
<1>8. SizedText(L, d, A, G)
    BY <1>1, <1>4, <1>5, <1>6, <1>7 DEF SizedText
<1> QED BY <1>2, <1>3, <1>8

\* An array's line: taken for one, its size and its values read.
ArrayReadBack(L, vs, dict) ==
    /\ Unbroken(L) /\ Strip(L) = L /\ L # <<>>
    /\ IsArrHeader(L) /\ ~IsTabHeader(L) /\ ~LooksLikeObjLine(L)
    /\ ValueOf(L[2]) = Len(vs)
    /\ AfterSize(L) # <<>>
    /\ DecPrims(CsvSplit(AfterSize(L)), Known(dict)) = vs

LEMMA ArrayIsReadBack ==
    ASSUME NEW G, Marks \subseteq G, NEW dict, Readable(dict, G),
           NEW vs \in Seq(Primitives(G)), Len(vs) \in 1..4,
           \A i \in 1..Len(vs) : PlainElement(vs[i])
    PROVE  ArrayReadBack(ArrayLine(vs, dict), vs, dict)
<1>1. PICK n \in 1..4 : n = Len(vs) /\ vs # <<>> /\ \A i \in 1..n : vs[i] \in Primitives(G)
  <2>1. Len(vs) >= 1
      OBVIOUS
  <2> QED BY <2>1, TextIs
<1>2. PICK ts \in Seq(Seq(G)) :
          /\ ts = Tokens(vs, dict) /\ Len(ts) = n /\ DecPrims(ts, Known(dict)) = vs
          /\ \A i \in 1..n : StandsAlone(ts[i], G) /\ ts[i] = EncVal(vs[i], dict)
  <2>1. \A i \in 1..Len(vs) : PlainPrim(vs[i])
      BY DEF PlainElement
  <2> QED BY <1>1, <2>1, TokensAre
<1>3. Comma \in G
    BY DEF Marks
<1>4. ts # <<>>
  <2>1. Len(ts) >= 1
      BY <1>2
  <2> QED BY <2>1, TextIs
<1>5. Elements(ts)
  <2>1. ASSUME NEW i \in 1..n PROVE Bare(ts[i]) \/ Quoted(ts[i])
    <3>1. PICK v \in Primitives(G) : v = vs[i] /\ PlainElement(v)
        BY <1>1
    <3>2. Bare(EncVal(v, dict)) \/ Quoted(EncVal(v, dict))
        BY <3>1, ElementToken
    <3> QED BY <1>2, <3>1, <3>2
  <2> QED BY <1>2, <2>1 DEF Elements
<1>6. PICK A \in Seq(G) : A = Join(ts, Comma) /\ \E c : Joined(c, ts, A, Comma)
    BY <1>3, <1>4, JoinIs
<1>7. PICK c : Joined(c, ts, A, Comma)
    BY <1>6
<1>8. \A i \in 1..n : /\ ts[i] # <<>> /\ Trim(ts[i])
                      /\ \A k \in 1..Len(ts[i]) : ts[i][k] \notin LineBreaks
    BY <1>2 DEF StandsAlone
<1>9. A # <<>> /\ Trim(A)
    BY <1>2, <1>4, <1>7, <1>8, JoinedEnds
<1>10. \A p \in 1..Len(A) : A[p] \notin LineBreaks
  <2>1. Comma \notin LineBreaks
      BY Zenon DEF Comma, LineBreaks
  <2> QED BY <1>2, <1>7, <1>8, <2>1, JoinedGlyphs
<1>11. CsvSplit(A) = ts
    BY <1>3, <1>4, <1>5, <1>6, CsvIsJoined
<1>12. PICK d \in G : d = Numeral(n) /\ d \in {"0", "1", "2", "3", "4"} /\ d \in Digits /\ ValueOf(d) = n
    BY SizeIs DEF Marks
<1>13. PICK L : L = <<"[", d, "]", "space">> \o A
    OBVIOUS
<1>14. ArrayLine(vs, dict) = L
  <2>1. EncVals(vs, dict, ",") = A
      BY <1>2, <1>6, Zenon DEF EncVals, Tokens, Comma
  <2> QED BY <1>1, <1>12, <1>13, <2>1, Zenon DEF ArrayLine
<1>15. SizedText(L, d, A, G)
    BY <1>13, SizedTextIs
<1>16. PICK N \in Nat : N = Len(A) /\ N >= 1 /\ A[N] \notin Blanks
    BY <1>9, TextIs DEF Trim
<1>17. /\ L \in Seq(G) /\ Len(L) = 4 + N
       /\ L[1] = "[" /\ L[2] = d /\ L[3] = "]" /\ L[4] = "space"
       /\ \A k \in 1..N : L[4 + k] = A[k]
       /\ From(L, 4) = <<"space">> \o A
    BY <1>15, <1>16 DEF SizedText
<1>18. L # <<>> /\ Trim(L)
  <2>1. N \in 1..N
      BY <1>16
  <2>2. L[4 + N] = A[N]
      BY <1>17, <2>1
  <2>3. L[1] \notin Blanks
      BY <1>17 DEF Blanks
  <2> QED BY <1>16, <1>17, <2>2, <2>3, TextIs DEF Trim
<1>19. Strip(L) = L
    BY <1>17, <1>18, StripTrim
<1>20. Unbroken(L)
  <2>1. ASSUME NEW k \in 1..4 + N PROVE L[k] \notin LineBreaks
    <3>1. CASE k \in 1..4
      <4>1. k = 1 \/ k = 2 \/ k = 3 \/ k = 4
          BY <3>1
      <4>2. \A g \in {"[", "]", "space", "0", "1", "2", "3", "4"} : g \notin LineBreaks
          BY DEF LineBreaks
      <4> QED BY <1>12, <1>17, <4>1, <4>2
    <3>2. CASE k \notin 1..4
      <4>1. PICK j \in 1..N : k = 4 + j
        <5>1. k - 4 \in 1..N /\ k = 4 + (k - 4)
            BY <3>2
        <5> QED BY <5>1
      <4>2. L[k] = A[j]
          BY <1>17, <4>1
      <4> QED BY <1>10, <1>16, <4>2
    <3> QED BY <3>1, <3>2
  <2>2. ToSet(L) = {L[k] : k \in 1..4 + N}
      BY <1>17, TextIs
  <2> QED BY <2>1, <2>2 DEF Unbroken
<1>21. IsArrHeader(L) /\ ~IsTabHeader(L) /\ ~LooksLikeObjLine(L)
  <2>1. IsArrHeader(L) /\ ~IsTabHeader(L)
      BY <1>12, <1>17 DEF IsArrHeader, IsTabHeader
  <2>2. ~LooksLikeObjLine(L)
      BY <1>17, Zenon DEF LooksLikeObjLine
  <2> QED BY <2>1, <2>2
<1>22. AfterSize(L) = A
  <2>1. "space" \in G
      BY DEF Marks
  <2>2. Strip(<<"space">> \o A) = A
      BY <1>9, <2>1, StripBlank
  <2> QED BY <1>17, <2>2 DEF AfterSize
<1>23. ValueOf(L[2]) = Len(vs)
    BY <1>1, <1>12, <1>17
<1>24. ArrayReadBack(L, vs, dict)
    BY <1>2, <1>9, <1>11, <1>18, <1>19, <1>20, <1>21, <1>22, <1>23 DEF ArrayReadBack
<1> QED BY <1>14, <1>24

(***************************************************************************)
(* Lines that begin with a mark of their own: an item's dash and the size  *)
(* of a table.                                                             *)
(***************************************************************************)

\* A line of a head and the text behind it.
Headed(L, h, A, G) ==
    /\ L \in Seq(G) /\ Len(L) = Len(h) + Len(A)
    /\ Unbroken(L) /\ Strip(L) = L /\ L # <<>>
    /\ \A i \in 1..Len(h) : L[i] = h[i]

LEMMA BehindHead ==
    ASSUME NEW G, NEW h \in Seq(G), NEW A \in Seq(G), NEW k \in Nat, k = Len(h)
    PROVE  From(h \o A, k + 1) = A
<1>1. PICK n \in Nat : n = Len(A)
    BY TextIs
<1>2. PICK L \in Seq(G) : L = h \o A /\ IsBehind(L, h, A)
    BY ConcatIsBehind
<1>3. Len(L) = k + n /\ \A i \in 1..n : L[k + i] = A[i]
    BY <1>1, <1>2 DEF IsBehind
<1>4. k \in 0..Len(L) /\ Len(L) - k = n
    BY <1>3
<1>5. PICK z \in Seq(G) : z = From(L, k + 1) /\ Len(z) = n /\ \A i \in 1..n : z[i] = L[k + i]
  <2>1. /\ From(L, k + 1) \in Seq(G) /\ Len(From(L, k + 1)) = Len(L) - k
        /\ \A i \in 1..Len(L) - k : From(L, k + 1)[i] = L[k + i]
      BY <1>4, RestIs
  <2> QED BY <1>4, <2>1
<1>6. Len(z) = Len(A) /\ \A i \in 1..Len(z) : z[i] = A[i]
    BY <1>1, <1>3, <1>5
<1>7. z = A
    BY <1>6, SeqEqual
<1> QED BY <1>2, <1>5, <1>7

LEMMA HeadedIs ==
    ASSUME NEW G, NEW h \in Seq(G), h # <<>>, h[1] \notin Blanks,
           \A i \in 1..Len(h) : h[i] \notin LineBreaks,
           NEW A \in Seq(G), A # <<>>, Trim(A), Unbroken(A)
    PROVE  Headed(h \o A, h, A, G)
<1>1. PICK k \in Nat, n \in Nat : k = Len(h) /\ n = Len(A) /\ k >= 1 /\ n >= 1
    BY TextIs
<1>2. PICK L \in Seq(G) : L = h \o A /\ IsBehind(L, h, A)
    BY ConcatIsBehind
<1>3. /\ Len(L) = k + n /\ (\A i \in 1..k : L[i] = h[i])
      /\ \A i \in 1..n : L[k + i] = A[i]
    BY <1>1, <1>2 DEF IsBehind
<1>4. L # <<>> /\ Trim(L)
  <2>1. 1 \in 1..k /\ n \in 1..n
      BY <1>1
  <2>2. L[1] \notin Blanks
      BY <1>3, <2>1
  <2>3. A[n] \notin Blanks
      BY <1>1 DEF Trim
  <2>4. L[k + n] \notin Blanks
      BY <1>3, <2>1, <2>3
  <2> QED BY <1>1, <1>3, <2>2, <2>4, TextIs DEF Trim
<1>5. Strip(L) = L
    BY <1>4, StripTrim
<1>6. Unbroken(L)
  <2>1. \A i \in 1..n : A[i] \notin LineBreaks
      BY <1>1, TextIs DEF Unbroken
  <2>2. ASSUME NEW p \in 1..k + n PROVE L[p] \notin LineBreaks
    <3>1. CASE p \in 1..k
        BY <1>1, <1>3, <3>1
    <3>2. CASE p \notin 1..k
      <4>1. PICK i \in 1..n : p = k + i
        <5>1. p - k \in 1..n /\ p = k + (p - k)
            BY <1>1, <3>2
        <5> QED BY <5>1
      <4> QED BY <1>3, <2>1, <4>1
    <3> QED BY <3>1, <3>2
  <2>3. ToSet(L) = {L[p] : p \in 1..k + n}
      BY <1>3, TextIs
  <2> QED BY <2>2, <2>3 DEF Unbroken
<1>7. Headed(L, h, A, G)
    BY <1>1, <1>3, <1>4, <1>5, <1>6 DEF Headed
<1> QED BY <1>2, <1>7

\* The first line of an item: no header and no line of an object, and what is
\* behind its dash is the text of the item's first line.
DashReadBack(L, x) ==
    /\ Unbroken(L) /\ Strip(L) = L /\ L # <<>>
    /\ StartsWith(L, <<"-">>)
    /\ ~IsTabHeader(L) /\ ~IsArrHeader(L) /\ ~LooksLikeObjLine(L)
    /\ AfterDash(L) = x

LEMMA DashIsReadBack ==
    ASSUME NEW G, "-" \in G, "space" \in G,
           NEW x \in Seq(G), x # <<>>, Trim(x), Unbroken(x)
    PROVE  DashReadBack(DashLine(x), x)
<1>1. PICK a \in Seq(G) : a = <<"-">> /\ Len(a) = 1 /\ a[1] = "-"
    BY GlyphIs
<1>2. PICK b \in Seq(G) : b = <<"space">> /\ Len(b) = 1 /\ b[1] = "space"
    BY GlyphIs
<1>3. PICK h \in Seq(G) : h = <<"-", "space">> /\ Len(h) = 2 /\ h[1] = "-" /\ h[2] = "space" /\ h = a \o b
  <2>1. /\ <<"-", "space">> \in Seq(G) /\ Len(<<"-", "space">>) = 2
        /\ <<"-", "space">>[1] = "-" /\ <<"-", "space">>[2] = "space"
      OBVIOUS
  <2>2. <<"-", "space">> = <<"-">> \o <<"space">>
      OBVIOUS
  <2> QED BY <1>1, <1>2, <2>1, <2>2
<1>4. PICK L : L = h \o x
    OBVIOUS
<1>5. Headed(L, h, x, G)
  <2>1. h # <<>> /\ h[1] \notin Blanks
      BY <1>3, TextIs DEF Blanks
  <2>2. \A i \in 1..Len(h) : h[i] \notin LineBreaks
    <3>1. \A i \in 1..2 : i = 1 \/ i = 2
        OBVIOUS
    <3> QED BY <1>3, <3>1 DEF LineBreaks
  <2> QED BY <1>4, <2>1, <2>2, HeadedIs
<1>6. L \in Seq(G) /\ L # <<>> /\ L[1] = "-" /\ Unbroken(L) /\ Strip(L) = L
  <2>1. 1 \in 1..Len(h)
      BY <1>3
  <2> QED BY <1>3, <1>5, <2>1 DEF Headed
<1>7. AfterDash(L) = x
  <2>1. PICK y \in Seq(G) : y = b \o x
      BY ConcatProperties
  <2>2. L = a \o y
      BY <1>3, <1>4, <2>1, ConcatAssociative
  <2>3. From(L, 1 + 1) = y
      BY <1>1, <2>2, BehindHead
  <2>4. Tail(L) = From(L, 2)
      BY <1>6, TailIsSubSeq DEF From
  <2>5. Strip(y) = x
      BY <1>2, <2>1, StripBlank
  <2>6. 1 + 1 = 2
      OBVIOUS
  <2> QED BY <2>3, <2>4, <2>5, <2>6 DEF AfterDash
<1>8. StartsWith(L, <<"-">>)
    BY <1>6, StartsWithGlyph
<1>9. ~IsTabHeader(L) /\ ~IsArrHeader(L)
    BY <1>6 DEF IsTabHeader, IsArrHeader
<1>10. ~LooksLikeObjLine(L)
    BY <1>6, Zenon DEF LooksLikeObjLine
<1>11. DashReadBack(L, x)
    BY <1>6, <1>7, <1>8, <1>9, <1>10 DEF DashReadBack
<1> QED BY <1>3, <1>4, <1>11 DEF DashLine

\* The columns of a table, bare or behind "csv:".
NamesReadBack(K, paths, G) ==
    /\ K \in Seq(G \cup {"csv:"}) /\ K # <<>> /\ Trim(K) /\ Unbroken(K)
    /\ ColumnNames(K) = [i \in DOMAIN paths |-> Str(paths[i])]

LEMMA BareNamesReadBack ==
    ASSUME NEW G, Marks \subseteq G, "csv:" \notin G, NEW paths \in Seq(Seq(G)), paths # <<>>,
           \A i \in 1..Len(paths) : Safe(paths[i]) /\ Unbroken(paths[i])
                                    /\ "space" \notin ToSet(paths[i])
    PROVE  NamesReadBack(Join(paths, "space"), paths, G)
<1>1. PICK n \in Nat : n = Len(paths) /\ DOMAIN paths = 1..n /\ \A i \in 1..n : paths[i] \in Seq(G)
    BY TextIs
<1>2. "space" \in G
    BY DEF Marks
<1>3. PICK K \in Seq(G) : K = Join(paths, "space") /\ \E c : Joined(c, paths, K, "space")
    BY <1>2, JoinIs
<1>4. PICK c : Joined(c, paths, K, "space")
    BY <1>3
<1>5. ASSUME NEW i \in 1..n
      PROVE  /\ paths[i] # <<>> /\ Trim(paths[i])
             /\ \A k \in 1..Len(paths[i]) : paths[i][k] \notin LineBreaks /\ paths[i][k] # "space"
  <2>1. PICK p \in Seq(G) : p = paths[i]
      BY <1>1
  <2>2. p # <<>> /\ Trim(p)
      BY <1>1, <2>1, SafeIs
  <2>3. Unbroken(p) /\ "space" \notin ToSet(p)
      BY <1>1, <2>1
  <2>4. ToSet(p) = {p[k] : k \in 1..Len(p)}
      BY TextIs
  <2>5. \A k \in 1..Len(p) : p[k] \notin LineBreaks /\ p[k] # "space"
      BY <2>3, <2>4 DEF Unbroken
  <2> QED BY <2>1, <2>2, <2>5
<1>6. K # <<>> /\ Trim(K)
    BY <1>1, <1>4, <1>5, JoinedEnds
<1>7. Unbroken(K)
  <2>1. "space" \notin LineBreaks
      BY DEF LineBreaks
  <2>2. \A p \in 1..Len(K) : K[p] \notin LineBreaks
      BY <1>1, <1>4, <1>5, <2>1, JoinedGlyphs
  <2>3. ToSet(K) = {K[p] : p \in 1..Len(K)}
      BY TextIs
  <2> QED BY <2>2, <2>3 DEF Unbroken
<1>8. SplitOn(K, {"space"}) = paths
  <2>1. Without(paths, "space")
      BY <1>1, <1>5 DEF Without
  <2> QED BY <1>2, <1>3, <2>1, SplitIsJoined
<1>9. K[1] # "csv:"
  <2>1. K[1] \in G
      BY <1>6, TextIs
  <2> QED BY <2>1
<1>10. ColumnNames(K) = [i \in DOMAIN paths |-> Str(paths[i])]
    BY <1>8, <1>9 DEF ColumnNames
<1>11. K \in Seq(G \cup {"csv:"})
    BY SeqMonotonic
<1> QED BY <1>3, <1>6, <1>7, <1>10, <1>11 DEF NamesReadBack

LEMMA CsvNamesReadBack ==
    ASSUME NEW G, Marks \subseteq G, NEW paths \in Seq(Seq(G)), paths # <<>>,
           \A i \in 1..Len(paths) : Unbroken(Es(paths[i])) /\ Q \notin ToSet(paths[i])
    PROVE  NamesReadBack(<<"csv:">> \o Join([i \in DOMAIN paths |-> Es(paths[i])], ","), paths, G)
<1>1. PICK n \in Nat : /\ n = Len(paths) /\ n >= 1 /\ DOMAIN paths = 1..n
                       /\ \A i \in 1..n : paths[i] \in Seq(G)
    BY TextIs
<1>2. PICK ts : ts = [i \in DOMAIN paths |-> Es(paths[i])]
    OBVIOUS
<1>3. ASSUME NEW i \in 1..n
      PROVE  /\ ts[i] \in Seq(G) /\ ts[i] # <<>> /\ Trim(ts[i])
             /\ (\A k \in 1..Len(ts[i]) : ts[i][k] \notin LineBreaks)
             /\ (Bare(ts[i]) \/ Quoted(ts[i]))
             /\ DecStrTok(ts[i]) = Str(paths[i])
  <2>1. PICK p \in Seq(G) : p = paths[i] /\ Unbroken(Es(p)) /\ Q \notin ToSet(p)
      BY <1>1
  <2>2. PICK t \in Seq(G) : t = Es(p) /\ t # <<>> /\ Trim(t) /\ DecStrTok(t) = Str(p)
      BY EsIs
  <2>3. ts[i] = t
      BY <1>1, <1>2, <2>1, <2>2
  <2>4. \A k \in 1..Len(t) : t[k] \notin LineBreaks
    <3>1. ToSet(t) = {t[k] : k \in 1..Len(t)}
        BY TextIs
    <3> QED BY <2>1, <2>2, <3>1 DEF Unbroken
  <2>5. Bare(t) \/ Quoted(t)
    <3>1. CASE Safe(p)
      <4>1. t = p /\ \A k \in 1..Len(p) : p[k] \notin Unsafe
          BY <2>2, <3>1, SafeIs DEF Es
      <4>2. Q \in Unsafe /\ Comma \in Unsafe
          BY Zenon DEF Unsafe, Comma
      <4>3. Bare(t)
          BY <4>1, <4>2, Zenon DEF Bare
      <4> QED BY <4>3
    <3>2. CASE ~Safe(p)
      <4>1. t = Dumps(p)
          BY <2>2, <3>2 DEF Es
      <4> QED BY <2>1, <4>1, DumpsQuoted
    <3> QED BY <3>1, <3>2
  <2> QED BY <2>1, <2>2, <2>3, <2>4, <2>5
<1>4. PICK us \in Seq(Seq(G)) : us = ts /\ Len(us) = n /\ us # <<>>
  <2>1. DOMAIN ts = 1..n
      BY <1>1, <1>2
  <2>2. ts \in [1..n -> Seq(G)]
      BY <1>1, <1>2, <1>3, <2>1
  <2>3. ts \in Seq(Seq(G)) /\ Len(ts) = n
      BY <2>2
  <2> QED BY <1>1, <2>3, TextIs
<1>ends. \A i \in 1..Len(us) : us[i] # <<>> /\ Trim(us[i])
    BY <1>3, <1>4
<1>5. Comma \in G
    BY DEF Marks
<1>6. PICK J \in Seq(G) : J = Join(us, Comma) /\ \E c : Joined(c, us, J, Comma)
    BY <1>4, <1>5, JoinIs
<1>7. PICK c : Joined(c, us, J, Comma)
    BY <1>6
<1>8. J # <<>> /\ Trim(J)
    BY <1>4, <1>7, <1>ends, JoinedEnds
<1>9. Unbroken(J)
  <2>1. Comma \notin LineBreaks
      BY Zenon DEF Comma, LineBreaks
  <2>2. \A p \in 1..Len(J) : J[p] \notin LineBreaks
      BY <1>3, <1>4, <1>7, <2>1, JoinedGlyphs
  <2>3. ToSet(J) = {J[p] : p \in 1..Len(J)}
      BY TextIs
  <2> QED BY <2>2, <2>3 DEF Unbroken
<1>10. CsvSplit(J) = us
  <2>1. Elements(us)
      BY <1>3, <1>4 DEF Elements
  <2> QED BY <1>4, <1>5, <1>6, <2>1, CsvIsJoined
<1> DEFINE H == G \cup {"csv:"}
<1>11. PICK h \in Seq(H) : h = <<"csv:">> /\ Len(h) = 1 /\ h[1] = "csv:"
    BY GlyphIs
<1>12. J \in Seq(H)
    BY SeqMonotonic
<1> HIDE DEF H
<1>13. PICK K : K = h \o J
    OBVIOUS
<1>14. Headed(K, h, J, H)
  <2>1. h # <<>> /\ h[1] \notin Blanks
      BY <1>11, TextIs DEF Blanks
  <2>2. \A i \in 1..Len(h) : h[i] \notin LineBreaks
    <3>1. \A i \in 1..1 : i = 1
        OBVIOUS
    <3> QED BY <1>11, <3>1 DEF LineBreaks
  <2> QED BY <1>8, <1>9, <1>12, <1>13, <2>1, <2>2, HeadedIs
<1>15. K \in Seq(H) /\ K # <<>> /\ K[1] = "csv:" /\ Unbroken(K) /\ Strip(K) = K
  <2>1. 1 \in 1..Len(h)
      BY <1>11
  <2> QED BY <1>11, <1>14, <2>1 DEF Headed
<1>16. Trim(K)
    BY <1>15, TrimOfStrip
<1>17. Tail(K) = J
  <2>1. From(K, 1 + 1) = J
      BY <1>11, <1>12, <1>13, BehindHead
  <2>2. Tail(K) = From(K, 2)
      BY <1>15, TailIsSubSeq DEF From
  <2> QED BY <2>1, <2>2
<1>18. ColumnNames(K) = [i \in DOMAIN paths |-> Str(paths[i])]
  <2>1. ColumnNames(K) = [i \in DOMAIN ts |-> DecStrTok(ts[i])]
      BY <1>4, <1>10, <1>15, <1>17 DEF ColumnNames
  <2>2. DOMAIN ts = DOMAIN paths
      BY <1>2
  <2>3. \A i \in DOMAIN paths : DecStrTok(ts[i]) = Str(paths[i])
      BY <1>1, <1>3
  <2> QED BY <2>1, <2>2, <2>3
<1>19. NamesReadBack(K, paths, G)
    BY <1>15, <1>16, <1>18 DEF NamesReadBack, H
<1>20. K = <<"csv:">> \o Join([i \in DOMAIN paths |-> Es(paths[i])], ",")
    BY <1>2, <1>4, <1>6, <1>11, <1>13, Zenon DEF Comma
<1> QED BY <1>19, <1>20, Zenon

LEMMA ColumnsReadBack ==
    ASSUME NEW G, Marks \subseteq G, "csv:" \notin G, NEW paths \in Seq(Seq(G)), paths # <<>>,
           \A i \in 1..Len(paths) : Unbroken(Es(paths[i])) /\ Q \notin ToSet(paths[i])
    PROVE  NamesReadBack(TabularHeader(paths), paths, G)
<1>1. ToSet(paths) = {paths[i] : i \in 1..Len(paths)}
    BY TextIs
<1>2. CASE \A p \in ToSet(paths) : Safe(p) /\ "space" \notin ToSet(p)
  <2>1. TabularHeader(paths) = Join(paths, "space")
      BY <1>2 DEF TabularHeader
  <2>2. \A i \in 1..Len(paths) : Safe(paths[i]) /\ Unbroken(paths[i])
                                 /\ "space" \notin ToSet(paths[i])
      BY <1>1, <1>2 DEF Es
  <2> QED BY <2>1, <2>2, BareNamesReadBack
<1>3. CASE ~(\A p \in ToSet(paths) : Safe(p) /\ "space" \notin ToSet(p))
  <2>1. TabularHeader(paths) = <<"csv:">> \o Join([i \in DOMAIN paths |-> Es(paths[i])], ",")
      BY <1>3, Zenon DEF TabularHeader
  <2>2. NamesReadBack(<<"csv:">> \o Join([i \in DOMAIN paths |-> Es(paths[i])], ","), paths, G)
      BY CsvNamesReadBack, Zenon
  <2> QED BY <2>1, <2>2, Zenon
<1> QED BY <1>2, <1>3

\* A table's line: taken for one, its size and the names of its columns read.
TableReadBack(L, paths, size) ==
    /\ Unbroken(L) /\ Strip(L) = L /\ L # <<>>
    /\ IsTabHeader(L) /\ ~LooksLikeObjLine(L)
    /\ ValueOf(L[2]) = size
    /\ ColumnNames(AfterSize(L)) = [i \in DOMAIN paths |-> Str(paths[i])]

LEMMA TableIsReadBack ==
    ASSUME NEW G, Marks \subseteq G, "#" \in G, "csv:" \notin G,
           NEW paths \in Seq(Seq(G)), paths # <<>>, NEW size \in 0..4,
           \A i \in 1..Len(paths) : Unbroken(Es(paths[i])) /\ Q \notin ToSet(paths[i])
    PROVE  TableReadBack(TableLine(paths, size), paths, size)
<1> DEFINE H == G \cup {"csv:"}
<1>1. PICK K \in Seq(H) : /\ K = TabularHeader(paths) /\ K # <<>> /\ Trim(K) /\ Unbroken(K)
                          /\ ColumnNames(K) = [i \in DOMAIN paths |-> Str(paths[i])]
    BY ColumnsReadBack DEF NamesReadBack
<1>2. PICK d \in H : d = Numeral(size) /\ d \in {"0", "1", "2", "3", "4"} /\ d \in Digits /\ ValueOf(d) = size
    BY SizeIs DEF Marks
<1>3. "#" \in H /\ "space" \in H
    BY DEF Marks
<1> HIDE DEF H
<1>4. PICK h \in Seq(H) : /\ h = <<"#", d, "space">> /\ Len(h) = 3
                          /\ h[1] = "#" /\ h[2] = d /\ h[3] = "space"
  <2>1. /\ <<"#", d, "space">> \in Seq(H) /\ Len(<<"#", d, "space">>) = 3
        /\ <<"#", d, "space">>[1] = "#" /\ <<"#", d, "space">>[2] = d
        /\ <<"#", d, "space">>[3] = "space"
      BY <1>3
  <2> QED BY <2>1
<1>5. PICK L : L = h \o K
    OBVIOUS
<1>6. Headed(L, h, K, H)
  <2>1. h # <<>> /\ h[1] \notin Blanks
      BY <1>4, TextIs DEF Blanks
  <2>2. \A i \in 1..Len(h) : h[i] \notin LineBreaks
    <3>1. \A i \in 1..3 : i = 1 \/ i = 2 \/ i = 3
        OBVIOUS
    <3>2. d \notin LineBreaks
        BY <1>2 DEF LineBreaks
    <3> QED BY <1>4, <3>1, <3>2 DEF LineBreaks
  <2> QED BY <1>1, <1>5, <2>1, <2>2, HeadedIs
<1>7. PICK n \in Nat : n = Len(K) /\ n >= 1
    BY <1>1, TextIs
<1>8. /\ L \in Seq(H) /\ Len(L) = 3 + n /\ L # <<>> /\ Unbroken(L) /\ Strip(L) = L
      /\ L[1] = "#" /\ L[2] = d /\ L[3] = "space"
  <2>1. 1 \in 1..Len(h) /\ 2 \in 1..Len(h) /\ 3 \in 1..Len(h)
      BY <1>4
  <2> QED BY <1>4, <1>6, <1>7, <2>1 DEF Headed
<1>9. IsTabHeader(L)
    BY <1>2, <1>7, <1>8 DEF IsTabHeader
<1>10. ~LooksLikeObjLine(L)
    BY <1>8, Zenon DEF LooksLikeObjLine
<1>11. AfterSize(L) = K
  <2>1. From(L, 3 + 1) = K
    <3>1. 3 \in Nat /\ 3 = Len(h)
        BY <1>4
    <3> QED BY <1>1, <1>5, <3>1, BehindHead
  <2>2. Strip(K) = K
      BY <1>1, StripTrim
  <2>3. 3 + 1 = 4
      OBVIOUS
  <2> QED BY <2>1, <2>2, <2>3 DEF AfterSize
<1>12. TableReadBack(L, paths, size)
    BY <1>1, <1>2, <1>8, <1>9, <1>10, <1>11 DEF TableReadBack
<1>13. L = TableLine(paths, size)
    BY <1>1, <1>2, <1>4, <1>5, Zenon DEF TableLine
<1> QED BY <1>12, <1>13

(***************************************************************************)
(* What the tokens and lines of a document read back as, for every         *)
(* alphabet G of glyphs, every collection ss of plain strings in it and    *)
(* every dictionary of theirs of up to five entries, the numerals there    *)
(* are.                                                                    *)
(***************************************************************************)

\* The header's dictionary is read as it was built: every entry of
\* _build_dictionary is written on one line, loads without an exception, and
\* no two entries share a token (encode and decode of core.py).
THEOREM DictionaryReadsBack ==
    ASSUME NEW G, Marks \subseteq G, NEW ss \in Seq(Seq(G)),
           \A i \in 1..Len(ss) : PlainString(ss[i]),
           NEW dict \in DictionariesOf(ss), Len(dict) <= 5
    PROVE  /\ Known(dict) = {[token |-> Token(i), value |-> dict[i].value,
                              is_prefix |-> dict[i].is_prefix, failed |-> FALSE] : i \in 1..Len(dict)}
           /\ \A i, j \in 1..Len(dict) : Token(i) = Token(j) => i = j
<1>1. Readable(dict, G)
    BY DictionaryIsReadable
<1>2. Known(dict) = {AsKnown(dict, i) : i \in 1..Len(dict)}
    BY <1>1, KnownIs
<1>3. \A i, j \in 1..Len(dict) : Token(i) = Token(j) => i = j
  <2>1. \A i \in 1..Len(dict) : i \in Named
      BY <1>1 DEF Readable, Named
  <2> QED BY <2>1, TokenIs
<1> QED BY <1>2, <1>3 DEF AsKnown

\* A value comes back from its token, whatever entry of the dictionary
\* replaces it or its beginning: enc_val writes, on one line and with no
\* blank at its ends, what is no header and no line of an object to the
\* decoder, and dec_prim reads from it the same value of the same type.
THEOREM TokensReadBack ==
    ASSUME NEW G, Marks \subseteq G, NEW ss \in Seq(Seq(G)),
           \A i \in 1..Len(ss) : PlainString(ss[i]),
           NEW dict \in DictionariesOf(ss), Len(dict) <= 5,
           NEW v \in Primitives(G), PlainPrim(v)
    PROVE  TokenReadBack(EncVal(v, dict), v, dict)
BY DictionaryIsReadable, PrimTokenReadBack

\* A line of an object is cut where it was joined: _looks_like_obj_line takes
\* it for one, _find_eq and _find_colon find the separator
\* that enc_obj wrote and not one inside the key or behind it, and the key
\* and what follows it are what they were.  The line of a primitive gives its
\* key and its value back.
THEOREM ObjectLinesReadBack ==
    ASSUME NEW G, Marks \subseteq G, NEW ss \in Seq(Seq(G)),
           \A i \in 1..Len(ss) : PlainString(ss[i]),
           NEW dict \in DictionariesOf(ss), Len(dict) <= 5,
           NEW key \in Seq(G), PlainKey(key)
    PROVE  /\ \A sep \in {"=", ":"} : \A e \in Seq(G) :
                 Trim(e) /\ Unbroken(e)
                     => LineReadBack(Es(key) \o <<sep>> \o e, key, sep, e, dict)
           /\ \A v \in Primitives(G) :
                 PlainPrim(v) => /\ LineReadBack(FieldLine(key, v, dict), key, "=", EncVal(v, dict), dict)
                                 /\ TokenReadBack(EncVal(v, dict), v, dict)
<1>1. Readable(dict, G)
    BY DictionaryIsReadable
<1>2. ASSUME NEW sep \in {"=", ":"}, NEW e \in Seq(G), Trim(e), Unbroken(e)
      PROVE  LineReadBack(Es(key) \o <<sep>> \o e, key, sep, e, dict)
    BY <1>2, LineIsReadBack
<1>3. ASSUME NEW v \in Primitives(G), PlainPrim(v)
      PROVE  /\ LineReadBack(FieldLine(key, v, dict), key, "=", EncVal(v, dict), dict)
             /\ TokenReadBack(EncVal(v, dict), v, dict)
  <2>1. PICK e \in Seq(G) : e = EncVal(v, dict) /\ Trim(e)
      BY <1>1, <1>3, PrimStandsAlone DEF StandsAlone
  <2>2. TokenReadBack(e, v, dict)
      BY <1>1, <1>3, <2>1, PrimTokenReadBack
  <2>3. Unbroken(e)
      BY <2>2 DEF TokenReadBack
  <2>4. LineReadBack(Es(key) \o <<"=">> \o e, key, "=", e, dict)
      BY <1>2, <2>1, <2>3
  <2> QED BY <2>1, <2>2, <2>4 DEF FieldLine
<1> QED BY <1>2, <1>3

\* A row of a table gives its cells back: split at the tabs between them,
\* none of which is inside a cell, every piece reads as its value
\* (enc_array, parse_tabular).
THEOREM RowsReadBack ==
    ASSUME NEW G, Marks \subseteq G, NEW ss \in Seq(Seq(G)),
           \A i \in 1..Len(ss) : PlainString(ss[i]),
           NEW dict \in DictionariesOf(ss), Len(dict) <= 5,
           NEW vs \in Seq(Primitives(G)), vs # <<>>, \A i \in 1..Len(vs) : PlainPrim(vs[i])
    PROVE  RowReadBack(EncVals(vs, dict, "tab"), vs, dict)
BY DictionaryIsReadable, RowIsReadBack

\* The line of an array of primitives gives its elements back: the scan of
\* _csv_split, which knows quotes and no backslashes, splits it between the
\* elements only (enc_array, parse_array).
THEOREM ArrayLinesReadBack ==
    ASSUME NEW G, Marks \subseteq G, NEW ss \in Seq(Seq(G)),
           \A i \in 1..Len(ss) : PlainString(ss[i]),
           NEW dict \in DictionariesOf(ss), Len(dict) <= 5,
           NEW vs \in Seq(Primitives(G)), Len(vs) \in 1..4,
           \A i \in 1..Len(vs) : PlainElement(vs[i])
    PROVE  ArrayReadBack(ArrayLine(vs, dict), vs, dict)
BY DictionaryIsReadable, ArrayIsReadBack

\* The line of a table gives its size and the names of its columns back,
\* bare when all are safe and without a blank, or else behind "csv:"
\* (enc_array, parse_tabular).  No name holds a quote, and the mark
\* "csv:" is no part of a bare one.
THEOREM TableLinesReadBack ==
    ASSUME NEW G, Marks \subseteq G, "#" \in G, "csv:" \notin G,
           NEW paths \in Seq(Seq(G)), paths # <<>>, NEW size \in 0..4,
           \A i \in 1..Len(paths) : Unbroken(Es(paths[i])) /\ Q \notin ToSet(paths[i])
    PROVE  TableReadBack(TableLine(paths, size), paths, size)
BY TableIsReadBack

\* The first line of an item begins with a dash, is no header and no line of
\* an object, and holds behind the dash what the item's first line held
\* (enc_array, parse_dash_item).
THEOREM DashLinesReadBack ==
    ASSUME NEW G, "-" \in G, "space" \in G,
           NEW x \in Seq(G), x # <<>>, Trim(x), Unbroken(x)
    PROVE  DashReadBack(DashLine(x), x)
BY DashIsReadBack
==============================================================================
