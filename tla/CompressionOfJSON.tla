------------------------- MODULE CompressionOfJSON -------------------------
(***************************************************************************)
(* The compression of prompts with the codec of JTF: which documents come  *)
(* back from encoder and decoder as they went in.  The constants of        *)
(* Compression are the operators of JTF: CanEncode is Encodable,           *)
(* Dictionaries is BuildDictionary, Encoded is Encode, Decoded is Decode.  *)
(***************************************************************************)
EXTENDS Compression, JTF

-----------------------------------------------------------------------------
(* Documents the codec reads back, whatever dictionary it builds: those of  *)
(* strings and keys that the scanners of JTFTokens read back where they are.*)

\* A row of a tabular array, whose keys become dotted column names.
RECURSIVE PlainRow(_)
PlainRow(fields) ==
    \A i \in DOMAIN fields :
        LET key == fields[i][1]
            val == fields[i][2]
        IN  /\ Unbroken(Es(key))
            /\ ToSet(key) \cap {".", Q} = {}
            /\ IF IsPrim(val) THEN PlainPrim(val)
               ELSE key # <<>> /\ val[2] # <<>> /\ PlainRow(val[2])

RECURSIVE PlainDocument(_)
PlainDocument(v) ==
    CASE IsPrim(v) -> PlainPrim(v)
      [] IsDict(v) -> \A i \in DOMAIN v[2] : PlainKey(v[2][i][1]) /\ PlainDocument(v[2][i][2])
      [] v[1] = "list" /\ \A i \in DOMAIN v[2] : IsPrim(v[2][i]) ->
            \A i \in DOMAIN v[2] : PlainElement(v[2][i])
      [] v[1] = "list" /\ IsNestedUniform(v[2]) -> \A i \in DOMAIN v[2] : PlainRow(v[2][i][2])
      [] OTHER -> \A i \in DOMAIN v[2] : PlainDocument(v[2][i])

-----------------------------------------------------------------------------
(* Properties *)

\* A document of plain keys and strings that is compressed reads back as
\* itself, for every dictionary the break-even analysis may choose.
PlainDocumentsReadBack ==
    phase = "done" =>
        \A at \in Segments :
            Was(at).kind = "json" /\ Became(at).kind = "read" /\ PlainDocument(Was(at).doc)
                => SameValue(Became(at).doc, Was(at).doc)

\* What core.py and jtf_ops.py say of the codec: decode(encode(x)) == x for
\* every JSON document that is compressed.
Lossless ==
    phase = "done" =>
        \A at \in Segments :
            Was(at).kind = "json" /\ Became(at).kind = "read"
                => SameValue(Became(at).doc, Was(at).doc)

=============================================================================
