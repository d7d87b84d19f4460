--------------------------- MODULE MCSemanticCache ---------------------------
(***************************************************************************)
(* A small semantic cache: two namespaces, a prompt and its paraphrase, and*)
(* a search that returns two rows.                                         *)
(***************************************************************************)
EXTENDS SemanticCache

CONSTANTS i1, i2, i3

Symmetry == Permutations(Ids)

MCPrompts == {"p", "paraphrase"}
MCSimilarity ==
    [p \in MCPrompts |-> [q \in MCPrompts |-> IF p = q THEN 10 ELSE 8]]
=============================================================================
